----------------------------- MODULE IslandProofs ------------------------------
(***************************************************************************)
(* Proofs about Island for any number of accounts, devices, tabs and       *)
(* tokens: a device keeps the token it stored, whom it thanks has been     *)
(* counted, and while nothing is lost every signed token is in reach.      *)
(*                                                                         *)
(* The server signs one token an account (OneTicket), and what a call has  *)
(* had signed, or a device has stored, is the token of its account         *)
(* (TokensTicketed): two answers that race carry the same token.           *)
(***************************************************************************)
EXTENDS Island, SequenceTheorems, TLAPS

Ticket(u, t) == [poll |-> Poll, user |-> u, token |-> t]
Account(c) == AccountOf[Device(c)]
Ballot == [token: Tokens, choice: Choices \union {{}}]

BoxFits ==
  /\ tickets \subseteq [poll: {Poll}, user: Users, token: Tokens]
  /\ box \in [{Poll} -> Seq(Ballot)]

(* A request under way is what its call waits for.                         *)
WireFits ==
  \A m \in wire :
    /\ m.kind = "ask" => m.user \in Users
    /\ m.from # None =>
         \/ call[m.from].step = "asking" /\ m = Ask(m.from, call[m.from].token)
         \/ call[m.from].step = "casting" /\ m = Cast(m.from, call[m.from].token, call[m.from].choice)

(* No page starts a call that it has under way.                            *)
PagesFit ==
  \A p \in Pages :
    /\ page[p] \in {"closed", "thanks"} => \A n \in Names : call[<<p, n>>].step = "idle"
    /\ page[p] = "ready" => call[<<p, "submit">>].step = "idle"

OneTicket == \A k, l \in tickets : k.user = l.user => k = l

TokensTicketed ==
  /\ \A d \in Devices : stored[d] # None => Ticket(AccountOf[d], stored[d]) \in tickets
  /\ \A c \in Calls : call[c].step = "signed" => Ticket(Account(c), call[c].token) \in tickets

(* What is cast is the stored token.                                       *)
CastsStored ==
  \A c \in Calls :
    /\ call[c].step \in {"asking", "signed"} => call[c].token # None
    /\ call[c].step \in {"casting", "counted"} =>
         call[c].token # None /\ stored[Device(c)] = call[c].token
    /\ call[c].step = "counted" => Spent(call[c].token)

(* A request for a token is left without its page only once the account    *)
(* has its token.                                                          *)
OrphansServed ==
  faults = 0 => \A m \in wire : m.kind = "ask" /\ m.from = None => Box!HasTicket(Poll, m.user)

IInv ==
  /\ TypeOK /\ BoxFits /\ WireFits /\ PagesFit /\ OneTicket /\ TokensTicketed
  /\ CastsStored /\ ThanksMeansCounted /\ NoVoteStranded /\ OrphansServed

------------------------------------------------------------------------------
(* Calls and what is under way for them.                                   *)

LEMMA CallsType ==
  /\ \A c \in Calls : /\ c # None /\ Device(c) \in Devices /\ Account(c) \in Users
                      /\ c[1] \in Pages /\ c[2] \in Names /\ c = <<c[1], c[2]>>
  /\ \A p \in Pages, n \in Names : <<p, n>> \in Calls
  /\ NoCall \in Call /\ NoCall.step = "idle"
BY IslandAssumption DEF Calls, Names, Device, Account, NoCall, Call

(* A call whose request is not under way changes, and may send one.        *)
LEMMA OneMove ==
  ASSUME TypeOK, WireFits, NEW c \in Calls, call[c].step \notin {"asking", "casting"},
         \A x \in Calls : x # c => call'[x] = call[x],
         \A m \in wire' :
           \/ m \in wire
           \/ call'[c].step = "asking" /\ m = Ask(c, call'[c].token)
           \/ call'[c].step = "casting" /\ m = Cast(c, call'[c].token, call'[c].choice)
  PROVE  WireFits'
<1> SUFFICES ASSUME NEW m \in wire'
             PROVE  /\ m.kind = "ask" => m.user \in Users
                    /\ m.from # None =>
                         \/ call'[m.from].step = "asking" /\ m = Ask(m.from, call'[m.from].token)
                         \/ call'[m.from].step = "casting"
                              /\ m = Cast(m.from, call'[m.from].token, call'[m.from].choice)
  BY DEF WireFits, Ask, Cast
<1>1. CASE m \in wire
  <2>1. m.from \in Calls \union {None}
    BY <1>1 DEF TypeOK, Request
  <2>2. m.from # c
    BY <1>1, CallsType DEF WireFits
  <2> QED
    BY <1>1, <2>1, <2>2 DEF WireFits
<1>2. CASE call'[c].step = "asking" /\ m = Ask(c, call'[c].token)
  BY <1>2, CallsType DEF Ask, Account
<1>3. CASE call'[c].step = "casting" /\ m = Cast(c, call'[c].token, call'[c].choice)
  BY <1>3, CallsType DEF Cast
<1> QED
  BY <1>1, <1>2, <1>3

(* A request is answered, or lost.                                         *)
LEMMA Answered ==
  ASSUME IInv, NEW m \in wire, NEW s \in {"signed", "refused", "counted", "failed", "thrown"},
         wire' = wire \ {m}, Answer(m, s), UNCHANGED page
  PROVE  /\ call' \in [Calls -> Call] /\ WireFits' /\ PagesFit'
         /\ m \in Request /\ \A x \in wire' : x \in Request
         /\ \A x \in Calls : x # m.from => call'[x] = call[x]
         /\ \A x \in Calls : x = m.from =>
              /\ call'[x].step = s /\ call'[x].token = call[x].token
              /\ \/ call[x].step = "asking" /\ m = Ask(x, call[x].token)
                 \/ call[x].step = "casting" /\ m = Cast(x, call[x].token, call[x].choice)
<1>1. /\ m \in Request /\ m.from \in Calls \union {None} /\ call \in [Calls -> Call]
      /\ \A x \in wire' : x \in Request
  BY DEF IInv, TypeOK, Request
<1>2. \A x \in wire : x.from # None =>
        \/ call[x.from].step = "asking" /\ x = Ask(x.from, call[x.from].token)
        \/ call[x.from].step = "casting" /\ x = Cast(x.from, call[x.from].token, call[x.from].choice)
  BY DEF IInv, WireFits
<1>3. \A x \in wire' : m.from # None => x.from # m.from
  BY <1>2
<1>4. CASE m.from = None
  <2>1. call' = call
    BY <1>4 DEF Answer
  <2>2. WireFits' /\ PagesFit'
    BY <1>2, <2>1 DEF IInv, WireFits, PagesFit, Ask, Cast
  <2> QED
    BY <1>1, <1>4, <2>1, <2>2, CallsType
<1>5. CASE m.from # None
  <2>0. PICK c \in Calls : c = m.from
    BY <1>1, <1>5
  <2>1. call' = [call EXCEPT ![c].step = s]
    BY <1>5, <2>0 DEF Answer, Step
  <2>2. call[c] \in Call
    BY <1>1
  <2>3. /\ call' \in [Calls -> Call] /\ call'[c].step = s /\ call'[c].token = call[c].token
        /\ \A x \in Calls : x # c => call'[x] = call[x]
    BY <1>1, <2>1, <2>2 DEF Call
  <2>4. WireFits'
    <3>1. \A x \in wire' : x \in wire /\ x.from # c /\ x.from \in Calls \union {None}
      BY <1>3, <1>5, <2>0, <1>1 DEF Request
    <3> QED
      BY <2>3, <3>1 DEF IInv, WireFits, Ask, Cast
  <2>5. \/ call[c].step = "asking" /\ m = Ask(c, call[c].token)
        \/ call[c].step = "casting" /\ m = Cast(c, call[c].token, call[c].choice)
    BY <1>2, <1>5, <2>0
  <2>6. PagesFit'
    <3> SUFFICES ASSUME NEW p \in Pages, NEW n \in Names,
                        page[p] \in {"closed", "thanks"} \/ (page[p] = "ready" /\ n = "submit")
                 PROVE  call'[<<p, n>>].step = "idle"
      BY DEF PagesFit, Names
    <3>1. call[<<p, n>>].step = "idle"
      BY DEF IInv, PagesFit
    <3>2. <<p, n>> \in Calls /\ <<p, n>> # c
      BY <2>5, <3>1, CallsType
    <3> QED
      BY <2>3, <3>1, <3>2
  <2> QED
    BY <1>1, <2>0, <2>3, <2>4, <2>5, <2>6
<1> QED
  BY <1>4, <1>5

(* The page goes: its calls stop, and its requests travel on.              *)
LEMMA PageGoes ==
  ASSUME IInv, NEW p \in Pages, NEW look \in {"closed", "thanks"}, page' = [page EXCEPT ![p] = look],
         call' = Stopped(p), wire' = Orphaned(p)
  PROVE  /\ call' \in [Calls -> Call] /\ WireFits' /\ PagesFit'
         /\ \A m \in wire' : m \in Request
         /\ \A c \in Calls : call'[c] = IF c[1] = p THEN NoCall ELSE call[c]
         /\ \A m \in wire' : m.from = None =>
              m \in wire \/ \E c \in Calls : c[1] = p /\ call[c].step \in {"asking", "casting"}
                                            /\ (m.kind = "ask" => m.user = Account(c))
<1>1. /\ call \in [Calls -> Call] /\ page \in [Pages -> {"closed", "ready", "busy", "thanks"}]
      /\ \A m \in wire : m \in Request /\ m.from \in Calls \union {None}
  BY DEF IInv, TypeOK, Request
<1>2. call' = [c \in Calls |-> IF c[1] = p THEN NoCall ELSE call[c]]
  BY DEF Stopped
<1>3. \A c \in Calls : call'[c] = IF c[1] = p THEN NoCall ELSE call[c]
  BY <1>2
<1>4. call' \in [Calls -> Call]
  BY <1>1, <1>2, CallsType
<1>5. ASSUME NEW m \in wire'
      PROVE  \/ m \in wire /\ m.from \notin {p} \X Names
             \/ \E x \in wire : x.from \in {p} \X Names /\ m = [x EXCEPT !.from = None]
  BY DEF Orphaned
<1>6. ASSUME NEW m \in wire' PROVE m \in Request
  <2>1. \A x \in wire : [x EXCEPT !.from = None] \in Request
    BY <1>1 DEF Request
  <2> QED
    BY <1>1, <1>5, <2>1
<1>7. ASSUME NEW m \in wire'
      PROVE  /\ m.kind = "ask" => m.user \in Users
             /\ m.from # None =>
                  \/ call'[m.from].step = "asking" /\ m = Ask(m.from, call'[m.from].token)
                  \/ call'[m.from].step = "casting"
                       /\ m = Cast(m.from, call'[m.from].token, call'[m.from].choice)
  <2>1. CASE m \in wire /\ m.from \notin {p} \X Names
    <3>1. m.from # None => m.from \in Calls /\ m.from[1] # p
      BY <1>1, <2>1, CallsType
    <3> QED
      BY <1>3, <2>1, <3>1 DEF IInv, WireFits
  <2>2. CASE \E x \in wire : x.from \in {p} \X Names /\ m = [x EXCEPT !.from = None]
    <3>1. PICK x \in wire : m = [x EXCEPT !.from = None]
      BY <2>2
    <3>2. m.from = None /\ m.kind = x.kind /\ m.user = x.user
      BY <1>1, <3>1 DEF Request
    <3> QED
      BY <3>2 DEF IInv, WireFits
  <2> QED
    BY <1>5, <2>1, <2>2
<1>8. WireFits'
  BY <1>7 DEF WireFits, Ask, Cast
<1>9. PagesFit'
  <2> SUFFICES ASSUME NEW x \in Pages, NEW n \in Names,
                      page'[x] \in {"closed", "thanks"} \/ (page'[x] = "ready" /\ n = "submit")
               PROVE  call'[<<x, n>>].step = "idle"
    BY DEF PagesFit, Names
  <2>1. <<x, n>> \in Calls /\ <<x, n>>[1] = x
    BY CallsType
  <2>2. CASE x = p
    BY <1>3, <2>1, <2>2, CallsType
  <2>3. CASE x # p
    <3>1. page'[x] = page[x]
      BY <1>1, <2>3
    <3>2. call[<<x, n>>].step = "idle"
      BY <3>1 DEF IInv, PagesFit
    <3> QED
      BY <1>3, <2>1, <2>3, <3>2
  <2> QED
    BY <2>2, <2>3
<1>10. ASSUME NEW m \in wire', m.from = None
       PROVE  m \in wire \/ \E c \in Calls : c[1] = p /\ call[c].step \in {"asking", "casting"}
                                            /\ (m.kind = "ask" => m.user = Account(c))
  <2>1. CASE \E x \in wire : x.from \in {p} \X Names /\ m = [x EXCEPT !.from = None]
    <3>1. PICK x \in wire : x.from \in {p} \X Names /\ m = [x EXCEPT !.from = None]
      BY <2>1
    <3>2. x.from \in Calls /\ x.from # None /\ x.from[1] = p
      BY <3>1, CallsType
    <3>3. m.kind = x.kind /\ m.user = x.user
      BY <1>1, <3>1 DEF Request
    <3>4. /\ call[x.from].step \in {"asking", "casting"}
          /\ x.kind = "ask" => x.user = Account(x.from)
      BY <3>2 DEF IInv, WireFits, Ask, Cast, Account
    <3> QED
      BY <3>2, <3>3, <3>4
  <2> QED
    BY <1>5, <2>1
<1> QED
  BY <1>3, <1>4, <1>6, <1>8, <1>9, <1>10

------------------------------------------------------------------------------
(* Steps of the browser.                                                   *)

(* A device stored the token of its account, so a call of it had the same  *)
(* one signed.                                                             *)
LEMMA SameToken ==
  ASSUME IInv, NEW c \in Calls, call[c].step = "signed", stored[Device(c)] # None
  PROVE  stored[Device(c)] = call[c].token
<1>1. Ticket(Account(c), stored[Device(c)]) \in tickets /\ Ticket(Account(c), call[c].token) \in tickets
  BY CallsType DEF IInv, TokensTicketed, Account
<1> QED
  BY <1>1 DEF IInv, OneTicket, Ticket

LEMMA StoredHasTicket ==
  ASSUME IInv, NEW d \in Devices, stored[d] # None
  PROVE  Box!HasTicket(Poll, AccountOf[d])
BY DEF IInv, TokensTicketed, Ticket, Box!HasTicket

(* A step that signs nothing, stores nothing and counts nothing.           *)
LEMMA Browses ==
  ASSUME IInv, UNCHANGED <<stored, tickets, box>>, TypeOK', WireFits', PagesFit',
         \A c \in Calls :
           /\ call'[c].step = "signed" => call[c].step = "signed" /\ call'[c].token = call[c].token
           /\ call'[c].step = "asking" => call'[c].token # None
           /\ call'[c].step = "casting" => call'[c].token # None /\ stored[Device(c)] = call'[c].token
           /\ call'[c].step = "counted" => call[c].step = "counted" /\ call'[c].token = call[c].token,
         faults' = 0 =>
           /\ faults = 0
           /\ \A c \in Calls : call[c].step = "signed" =>
                \/ call'[c].step = "signed" /\ call'[c].token = call[c].token
                \/ stored[Device(c)] # None
           /\ \A m \in wire' : m.kind = "ask" /\ m.from = None =>
                m \in wire \/ Box!HasTicket(Poll, m.user),
         \A d \in voted' : d \in voted \/ (stored[d] # None /\ Spent(stored[d]))
  PROVE  IInv'
<1>1. \A t : Spent(t)' = Spent(t)
  BY DEF Spent, Box!Dropped
<1>2. BoxFits' /\ OneTicket'
  BY DEF IInv, BoxFits, OneTicket
<1>3. TokensTicketed'
  BY DEF IInv, TokensTicketed, Ticket, Account
<1>4. CastsStored'
  BY <1>1 DEF IInv, CastsStored
<1>5. ThanksMeansCounted'
  BY <1>1 DEF IInv, ThanksMeansCounted
<1>6. NoVoteStranded'
  <2> SUFFICES ASSUME faults' = 0, NEW k \in tickets
               PROVE  Reachable(k.token)' \/ Spent(k.token)
    BY <1>1 DEF NoVoteStranded
  <2>1. Reachable(k.token) \/ Spent(k.token)
    BY DEF IInv, NoVoteStranded
  <2>2. CASE \E d \in Devices : stored[d] = k.token
    BY <2>2 DEF Reachable
  <2>3. ASSUME NEW c \in Calls, call[c].step = "signed", call[c].token = k.token
        PROVE  Reachable(k.token)'
    <3>1. CASE call'[c].step = "signed" /\ call'[c].token = call[c].token
      BY <2>3, <3>1 DEF Reachable
    <3>2. CASE stored[Device(c)] # None
      BY <2>3, <3>2, SameToken, CallsType DEF Reachable
    <3> QED
      BY <2>3, <3>1, <3>2
  <2> QED
    BY <2>1, <2>2, <2>3 DEF Reachable
<1>7. OrphansServed'
  <2> SUFFICES ASSUME faults' = 0, NEW m \in wire', m.kind = "ask", m.from = None
               PROVE  Box!HasTicket(Poll, m.user)
    BY DEF OrphansServed, Box!HasTicket
  <2> QED
    BY DEF IInv, OrphansServed
<1> QED
  BY <1>2, <1>3, <1>4, <1>5, <1>6, <1>7 DEF IInv

LEMMA LoadStep ==
  ASSUME IInv, NEW p \in Pages, Load(p)
  PROVE  IInv'
<1> DEFINE c == <<p, "warm">>
<1>0. /\ TypeOK /\ c \in Calls /\ page[p] = "closed" /\ call[c].step = "idle" /\ <<p, "submit">> \in Calls
      /\ call[<<p, "submit">>].step = "idle" /\ c # <<p, "submit">>
      /\ UNCHANGED <<stored, voted, open, tickets, box, faults>>
      /\ message' = [message EXCEPT ![p] = "none"]
  BY CallsType DEF IInv, PagesFit, Load, server, Names
<1>1. PICK look \in {"ready", "thanks"} : page' = [page EXCEPT ![p] = look]
                                          /\ (look = "thanks" => UNCHANGED <<call, wire>>)
  BY DEF Load
<1>2. /\ page' \in [Pages -> {"closed", "ready", "busy", "thanks"}]
      /\ message' \in [Pages -> {"none", "error", "unavailable"}]
      /\ page'[p] = look /\ \A x \in Pages : x # p => page'[x] = page[x]
  BY <1>0, <1>1 DEF TypeOK
<1>3. CASE UNCHANGED <<call, wire>>
  <2>1. TypeOK'
    BY <1>0, <1>2, <1>3 DEF TypeOK
  <2>2. WireFits'
    BY <1>3 DEF IInv, WireFits, Ask, Cast
  <2>3. PagesFit'
    <3> SUFFICES ASSUME NEW x \in Pages, NEW n \in Names,
                        page'[x] \in {"closed", "thanks"} \/ (page'[x] = "ready" /\ n = "submit")
                 PROVE  call[<<x, n>>].step = "idle"
      BY <1>3 DEF PagesFit, Names
    <3>1. CASE x = p
      BY <1>0, <3>1 DEF Names
    <3>2. CASE x # p
      BY <1>2, <3>2 DEF IInv, PagesFit
    <3> QED
      BY <3>1, <3>2
  <2>4. \A x \in Calls : call'[x] = call[x]
    BY <1>3
  <2> QED
    BY <1>0, <1>3, <2>1, <2>2, <2>3, <2>4, Browses DEF IInv, CastsStored
<1>4. CASE ~UNCHANGED <<call, wire>>
  <2>1. PICK t \in Tokens :
          /\ call' = [call EXCEPT ![c] = [NoCall EXCEPT !.step = "asking", !.token = t]]
          /\ wire' = wire \union {Ask(c, t)}
    BY <1>4 DEF Load
  <2> DEFINE new == [NoCall EXCEPT !.step = "asking", !.token = t]
  <2>2. new \in Call /\ new.step = "asking" /\ new.token = t /\ t # None
    BY IslandAssumption DEF NoCall, Call
  <2>3. call' = [call EXCEPT ![c] = new]
    BY <2>1
  <2> HIDE DEF new
  <2>4. /\ call' \in [Calls -> Call] /\ call'[c] = new /\ \A x \in Calls : x # c => call'[x] = call[x]
    BY <1>0, <2>2, <2>3 DEF TypeOK
  <2> HIDE DEF c
  <2>5. WireFits'
    BY <1>0, <2>1, <2>2, <2>4, OneMove DEF IInv
  <2>6. Ask(c, t) \in Request
    BY <1>0, CallsType DEF Ask, Request, Account
  <2>7. TypeOK'
    BY <1>0, <1>2, <2>1, <2>4, <2>6 DEF TypeOK
  <2>8. PagesFit'
    <3> SUFFICES ASSUME NEW x \in Pages, NEW n \in Names,
                        page'[x] \in {"closed", "thanks"} \/ (page'[x] = "ready" /\ n = "submit")
                 PROVE  call'[<<x, n>>].step = "idle"
      BY DEF PagesFit, Names
    <3>1. CASE x = p
      <4>1. page'[x] = "ready"
        BY <1>1, <1>2, <1>4, <3>1
      <4>2. n = "submit"
        BY <4>1
      <4> QED
        BY <1>0, <2>4, <3>1, <4>2
    <3>2. CASE x # p
      <4>1. <<x, n>> \in Calls /\ <<x, n>> # c
        BY <3>2, CallsType DEF c
      <4>2. call[<<x, n>>].step = "idle"
        BY <1>2, <3>2 DEF IInv, PagesFit
      <4>3. call'[<<x, n>>] = call[<<x, n>>]
        BY <2>4, <4>1
      <4> QED
        BY <4>2, <4>3
    <3> QED
      BY <3>1, <3>2
  <2>9. Ask(c, t).from # None
    BY <1>0, CallsType DEF Ask
  <2>10. /\ \A x \in Calls : \/ call'[x] = call[x]
                             \/ call[x].step = "idle" /\ call'[x].step = "asking" /\ call'[x].token # None
         /\ \A m \in wire' : m.from = None => m \in wire
    BY <1>0, <2>1, <2>2, <2>4, <2>9
  <2> QED
    BY <1>0, <2>5, <2>7, <2>8, <2>10, Browses DEF IInv, CastsStored
<1> QED
  BY <1>3, <1>4

LEMMA SubmitStep ==
  ASSUME IInv, NEW p \in Pages, NEW o \in Choices, Submit(p, o)
  PROVE  IInv'
<1> DEFINE c == <<p, "submit">>
<1>0. /\ TypeOK /\ c \in Calls /\ page[p] = "ready" /\ call[c].step = "idle"
      /\ UNCHANGED <<stored, voted, message, open, tickets, box, faults>>
      /\ page' = [page EXCEPT ![p] = "busy"] /\ Device(c) = DeviceOf[p]
  BY CallsType DEF IInv, PagesFit, Submit, server, Names, Device
<1>1. PICK t \in Tokens, step \in {"asking", "casting"} :
        /\ call' = [call EXCEPT ![c] = [step |-> step, token |-> t, choice |-> o]]
        /\ wire' = wire \union {IF step = "asking" THEN Ask(c, t) ELSE Cast(c, t, o)}
        /\ step = "casting" => stored[DeviceOf[p]] = t
  <2>1. DeviceOf[p] \in Devices
    BY IslandAssumption
  <2>2. CASE stored[DeviceOf[p]] # None
    <3>1. stored[DeviceOf[p]] \in Tokens
      BY <1>0, <2>1, <2>2 DEF TypeOK
    <3> QED
      BY <2>2, <3>1 DEF Submit
  <2>3. CASE stored[DeviceOf[p]] = None
    BY <2>3 DEF Submit
  <2> QED
    BY <2>2, <2>3
<1> DEFINE new == [step |-> step, token |-> t, choice |-> o]
           sent == IF step = "asking" THEN Ask(c, t) ELSE Cast(c, t, o)
<1>2. new \in Call /\ new.step = step /\ new.token = t /\ new.choice = o /\ t # None
  BY IslandAssumption DEF Call
<1>3. /\ sent \in Request /\ sent.from # None
      /\ (step = "asking" /\ sent = Ask(c, t)) \/ (step = "casting" /\ sent = Cast(c, t, o))
  BY <1>0, CallsType DEF Ask, Cast, Request, Account
<1>4. call' = [call EXCEPT ![c] = new] /\ wire' = wire \union {sent}
  BY <1>1
<1> HIDE DEF new, sent
<1>5. /\ call' \in [Calls -> Call] /\ call'[c] = new /\ \A x \in Calls : x # c => call'[x] = call[x]
  BY <1>0, <1>2, <1>4 DEF TypeOK
<1>6. /\ page' \in [Pages -> {"closed", "ready", "busy", "thanks"}]
      /\ page'[p] = "busy" /\ \A x \in Pages : x # p => page'[x] = page[x]
  BY <1>0 DEF TypeOK
<1> HIDE DEF c
<1>7. WireFits'
  <2>1. \A m \in wire' :
           \/ m \in wire
           \/ call'[c].step = "asking" /\ m = Ask(c, call'[c].token)
           \/ call'[c].step = "casting" /\ m = Cast(c, call'[c].token, call'[c].choice)
    BY <1>2, <1>3, <1>4, <1>5
  <2> QED
    BY <1>0, <1>5, <2>1, OneMove DEF IInv
<1>8. TypeOK'
  BY <1>0, <1>3, <1>4, <1>5, <1>6 DEF TypeOK
<1>9. PagesFit'
  <2> SUFFICES ASSUME NEW x \in Pages, NEW n \in Names,
                      page'[x] \in {"closed", "thanks"} \/ (page'[x] = "ready" /\ n = "submit")
               PROVE  call'[<<x, n>>].step = "idle"
    BY DEF PagesFit, Names
  <2>1. x # p
    BY <1>6
  <2>2. <<x, n>> \in Calls /\ <<x, n>> # c
    BY <2>1, CallsType DEF c
  <2> QED
    BY <1>5, <1>6, <2>1, <2>2, ZenonT(30) DEF IInv, PagesFit
<1>10. /\ \A x \in Calls : \/ call'[x] = call[x]
                           \/ /\ call[x].step = "idle" /\ call'[x].step = step /\ call'[x].token # None
                              /\ step = "casting" => stored[Device(x)] = call'[x].token
       /\ \A m \in wire' : m.from = None => m \in wire
  BY <1>0, <1>1, <1>2, <1>3, <1>4, <1>5
<1> QED
  BY <1>0, <1>7, <1>8, <1>9, <1>10, Browses DEF IInv, CastsStored

LEMMA FinalizeStep ==
  ASSUME IInv, NEW c \in Calls, Finalize(c)
  PROVE  IInv'
<1> DEFINE d == Device(c)
           t == call[c].token
<1>0. /\ TypeOK /\ call[c].step = "signed" /\ d \in Devices /\ c[1] \in Pages /\ c = <<c[1], c[2]>>
      /\ stored' = [stored EXCEPT ![d] = t]
      /\ UNCHANGED <<voted, page, message, open, tickets, box, faults>>
  BY CallsType DEF IInv, Finalize, server
<1>1. t \in Tokens /\ t # None /\ call[c] \in Call
  BY <1>0 DEF IInv, CastsStored, TypeOK, Call
<1>2. stored[d] # None => stored[d] = t
  BY <1>0, SameToken
<1>3. PICK new \in Call :
        /\ call' = [call EXCEPT ![c] = new]
        /\ \/ new.step = "idle" /\ wire' = wire
           \/ /\ new.step = "casting" /\ new.token = t
              /\ wire' = wire \union {Cast(c, t, new.choice)}
  <2>1. CASE c[2] = "warm"
    BY <2>1, CallsType DEF Finalize, End
  <2>2. CASE c[2] # "warm"
    <3>1. [call[c] EXCEPT !.step = "casting"] \in Call
      BY <1>1 DEF Call
    <3>2. /\ [call[c] EXCEPT !.step = "casting"].token = t
          /\ [call[c] EXCEPT !.step = "casting"].choice = call[c].choice
          /\ [call[c] EXCEPT !.step = "casting"].step = "casting"
      BY <1>1 DEF Call
    <3>3. call' = [call EXCEPT ![c] = [call[c] EXCEPT !.step = "casting"]]
      BY <2>2 DEF Finalize, Step
    <3>4. wire' = wire \union {Cast(c, t, call[c].choice)}
      BY <2>2 DEF Finalize
    <3> QED
      BY <3>1, <3>2, <3>3, <3>4
  <2> QED
    BY <2>1, <2>2
<1> HIDE DEF d, t
<1>4. /\ call' \in [Calls -> Call] /\ call'[c] = new /\ \A x \in Calls : x # c => call'[x] = call[x]
  BY <1>0, <1>3 DEF TypeOK
<1>5. /\ stored' \in [Devices -> Tokens \union {None}] /\ stored'[d] = t
      /\ \A e \in Devices : e # d => stored'[e] = stored[e]
      /\ \A e \in Devices : stored[e] # None => stored'[e] = stored[e]
  BY <1>0, <1>1, <1>2 DEF TypeOK
<1>6. Cast(c, t, new.choice) \in Request /\ Cast(c, t, new.choice).from # None
      /\ Cast(c, t, new.choice).kind = "cast"
  BY <1>1, CallsType DEF Cast, Request, Call
<1>7. TypeOK'
  BY <1>0, <1>3, <1>4, <1>5, <1>6 DEF TypeOK
<1>8. WireFits'
  <2>1. \A m \in wire' :
           \/ m \in wire
           \/ call'[c].step = "casting" /\ m = Cast(c, call'[c].token, call'[c].choice)
    BY <1>3, <1>4
  <2> QED
    BY <1>0, <1>4, <2>1, OneMove DEF IInv
<1>9. PagesFit'
  <2> SUFFICES ASSUME NEW x \in Pages, NEW n \in Names,
                      page[x] \in {"closed", "thanks"} \/ (page[x] = "ready" /\ n = "submit")
               PROVE  call'[<<x, n>>].step = "idle"
    BY <1>0 DEF PagesFit, Names
  <2>1. <<x, n>> \in Calls /\ call[<<x, n>>].step = "idle"
    BY CallsType DEF IInv, PagesFit
  <2>2. <<x, n>> # c
    BY <1>0, <2>1
  <2> QED
    BY <1>4, <2>1, <2>2
<1>10. \A x : Spent(x)' = Spent(x)
  BY <1>0 DEF Spent, Box!Dropped
<1>11. BoxFits' /\ OneTicket'
  BY <1>0 DEF IInv, BoxFits, OneTicket
<1>12. Ticket(AccountOf[d], t) \in tickets
  BY <1>0 DEF IInv, TokensTicketed, Account, d, t
<1>13. TokensTicketed'
  <2>1. \A e \in Devices : stored'[e] # None => Ticket(AccountOf[e], stored'[e]) \in tickets
    BY <1>5, <1>12 DEF IInv, TokensTicketed
  <2>2. \A x \in Calls : call'[x].step = "signed" => call[x].step = "signed" /\ call'[x].token = call[x].token
    BY <1>3, <1>4
  <2> QED
    BY <1>0, <2>1, <2>2 DEF IInv, TokensTicketed, Ticket, Account
<1>14. CastsStored'
  <2> SUFFICES ASSUME NEW x \in Calls
               PROVE  /\ call'[x].step \in {"asking", "signed"} => call'[x].token # None
                      /\ call'[x].step \in {"casting", "counted"} =>
                           call'[x].token # None /\ stored'[Device(x)] = call'[x].token
                      /\ call'[x].step = "counted" => Spent(call'[x].token)
    BY <1>10 DEF CastsStored
  <2>1. CASE x = c
    BY <1>1, <1>3, <1>4, <1>5, <2>1 DEF d
  <2>2. CASE x # c
    <3>1. call'[x] = call[x] /\ Device(x) \in Devices
      BY <1>4, <2>2, CallsType
    <3>2. stored[Device(x)] # None => stored'[Device(x)] = stored[Device(x)]
      BY <1>5, <3>1
    <3> QED
      BY <3>1, <3>2 DEF IInv, CastsStored
  <2> QED
    BY <2>1, <2>2
<1>15. ThanksMeansCounted'
  BY <1>0, <1>5, <1>10 DEF IInv, ThanksMeansCounted, TypeOK
<1>16. NoVoteStranded'
  <2> SUFFICES ASSUME faults = 0, NEW k \in tickets, ~Spent(k.token)
               PROVE  Reachable(k.token)'
    BY <1>0, <1>10 DEF NoVoteStranded
  <2>1. Reachable(k.token)
    BY DEF IInv, NoVoteStranded
  <2>2. CASE \E e \in Devices : stored[e] = k.token
    <3>1. PICK e \in Devices : stored[e] = k.token
      BY <2>2
    <3>2. CASE stored[e] = None
      BY <3>1, <3>2, IslandAssumption DEF IInv, BoxFits
    <3>3. CASE stored[e] # None
      BY <1>5, <3>1, <3>3 DEF Reachable
    <3> QED
      BY <3>2, <3>3
  <2>3. ASSUME NEW x \in Calls, call[x].step = "signed", call[x].token = k.token
        PROVE  Reachable(k.token)'
    BY <1>0, <1>4, <1>5, <2>3 DEF Reachable, t
  <2> QED
    BY <2>1, <2>2, <2>3 DEF Reachable
<1>17. OrphansServed'
  <2>1. \A m \in wire' : m.from = None => m \in wire
    BY <1>3, <1>6
  <2>2. \A u : Box!HasTicket(Poll, u)' = Box!HasTicket(Poll, u)
    BY <1>0 DEF Box!HasTicket
  <2> QED
    BY <1>0, <2>1, <2>2 DEF IInv, OrphansServed
<1> QED
  BY <1>7, <1>8, <1>9, <1>11, <1>13, <1>14, <1>15, <1>16, <1>17 DEF IInv

(* The counted ballot is of the stored token, and what the page leaves     *)
(* unanswered asked for the token the device has.                          *)
LEMMA CountedStep ==
  ASSUME IInv, NEW c \in Calls, Counted(c)
  PROVE  IInv'
<1> DEFINE p == c[1]
<1>0. /\ TypeOK /\ call[c].step = "counted" /\ p \in Pages /\ Device(c) \in Devices
      /\ UNCHANGED <<stored, open, tickets, box, faults>>
      /\ page' = [page EXCEPT ![p] = "thanks"] /\ call' = Stopped(p) /\ wire' = Orphaned(p)
      /\ message' = [message EXCEPT ![p] = "none"] /\ voted' = voted \union {Device(c)}
  BY CallsType DEF IInv, Counted, server
<1>1. stored[Device(c)] # None /\ Spent(stored[Device(c)])
  BY <1>0 DEF IInv, CastsStored
<1> HIDE DEF p
<1>2. /\ call' \in [Calls -> Call] /\ WireFits' /\ PagesFit'
      /\ \A m \in wire' : m \in Request
      /\ \A x \in Calls : call'[x] = IF x[1] = p THEN NoCall ELSE call[x]
      /\ \A m \in wire' : m.from = None =>
           m \in wire \/ \E x \in Calls : x[1] = p /\ call[x].step \in {"asking", "casting"}
                                         /\ (m.kind = "ask" => m.user = Account(x))
  BY <1>0, PageGoes
<1>3. TypeOK'
  <2>1. /\ page' \in [Pages -> {"closed", "ready", "busy", "thanks"}]
        /\ message' \in [Pages -> {"none", "error", "unavailable"}] /\ voted' \subseteq Devices
    BY <1>0 DEF TypeOK
  <2> QED
    BY <1>0, <1>2, <2>1 DEF TypeOK
<1>4. \A x \in Calls : x[1] = p => Device(x) = Device(c) /\ Account(x) = Account(c)
  BY DEF Device, Account, p
<1>5. Box!HasTicket(Poll, Account(c))
  BY <1>0, <1>1, StoredHasTicket DEF Account
<1>6. \A m \in wire' : m.kind = "ask" /\ m.from = None => m \in wire \/ Box!HasTicket(Poll, m.user)
  BY <1>2, <1>4, <1>5
<1>7. \A x \in Calls : call'[x] = call[x] \/ (call'[x].step = "idle" /\ stored[Device(x)] # None)
  BY <1>1, <1>2, <1>4, CallsType
<1> QED
  BY <1>0, <1>1, <1>2, <1>3, <1>6, <1>7, Browses DEF IInv, CastsStored

LEMMA RefusedStep ==
  ASSUME IInv, NEW c \in Calls, Refused(c)
  PROVE  IInv'
<1>0. /\ TypeOK /\ call[c].step \in {"refused", "failed"} /\ c[1] \in Pages /\ c[2] \in Names
      /\ c = <<c[1], c[2]>>
      /\ UNCHANGED <<stored, voted, wire, open, tickets, box, faults>>
      /\ call' = [call EXCEPT ![c] = NoCall]
  BY CallsType DEF IInv, Refused, server, End
<1>1. /\ call' \in [Calls -> Call] /\ call'[c] = NoCall /\ \A x \in Calls : x # c => call'[x] = call[x]
  BY <1>0, CallsType DEF TypeOK
<1>2. /\ page' \in [Pages -> {"closed", "ready", "busy", "thanks"}]
      /\ message' \in [Pages -> {"none", "error", "unavailable"}]
      /\ \A x \in Pages : page'[x] = page[x] \/ (x = c[1] /\ c[2] = "submit" /\ page'[x] = "ready")
  BY <1>0 DEF Refused, TypeOK, Names
<1>3. TypeOK'
  BY <1>0, <1>1, <1>2 DEF TypeOK
<1>4. WireFits'
  BY <1>0, <1>1, OneMove DEF IInv
<1>5. PagesFit'
  <2> SUFFICES ASSUME NEW x \in Pages, NEW n \in Names,
                      page'[x] \in {"closed", "thanks"} \/ (page'[x] = "ready" /\ n = "submit")
               PROVE  call'[<<x, n>>].step = "idle"
    BY DEF PagesFit, Names
  <2>1. <<x, n>> \in Calls
    BY CallsType
  <2>2. CASE <<x, n>> = c
    BY <1>1, <2>2, CallsType
  <2>3. CASE <<x, n>> # c
    <3>1. page'[x] = page[x]
      BY <1>0, <1>2, <2>3
    <3>2. call[<<x, n>>].step = "idle"
      BY <3>1 DEF IInv, PagesFit
    <3> QED
      BY <1>1, <2>1, <2>3, <3>2
  <2> QED
    BY <2>2, <2>3
<1>6. \A x \in Calls : call'[x] = call[x] \/ (x = c /\ call'[x].step = "idle")
  BY <1>1, CallsType
<1> QED
  BY <1>0, <1>3, <1>4, <1>5, <1>6, Browses DEF IInv, CastsStored

LEMMA ThrownStep ==
  ASSUME IInv, NEW c \in Calls, Thrown(c)
  PROVE  IInv'
<1>0. /\ TypeOK /\ call[c].step = "thrown"
      /\ UNCHANGED <<stored, voted, page, message, wire, open, tickets, box, faults>>
      /\ call' = [call EXCEPT ![c] = NoCall]
  BY DEF IInv, Thrown, server, End
<1>1. /\ call' \in [Calls -> Call] /\ call'[c] = NoCall /\ \A x \in Calls : x # c => call'[x] = call[x]
  BY <1>0, CallsType DEF TypeOK
<1>2. TypeOK'
  BY <1>0, <1>1 DEF TypeOK
<1>3. WireFits'
  BY <1>0, <1>1, OneMove DEF IInv
<1>4. \A x \in Calls : call'[x] = call[x] \/ (x = c /\ call'[x].step = "idle")
  BY <1>1, CallsType
<1>5. PagesFit'
  <2>1. \A x \in Calls : call[x].step = "idle" => call'[x].step = "idle"
    BY <1>4
  <2> QED
    BY <1>0, <2>1, CallsType DEF IInv, PagesFit, Names
<1> QED
  BY <1>0, <1>2, <1>3, <1>4, <1>5, Browses DEF IInv, CastsStored

LEMMA LeaveStep ==
  ASSUME IInv, NEW p \in Pages, Leave(p)
  PROVE  IInv'
<1>0. /\ TypeOK /\ UNCHANGED <<stored, voted, message, open, tickets, box>>
      /\ page' = [page EXCEPT ![p] = "closed"] /\ call' = Stopped(p) /\ wire' = Orphaned(p)
      /\ faults' \in 0 .. MaxFaults /\ faults' # 0
  BY IslandAssumption DEF IInv, Leave, server, Fault, TypeOK
<1>1. /\ call' \in [Calls -> Call] /\ WireFits' /\ PagesFit'
      /\ \A m \in wire' : m \in Request
      /\ \A x \in Calls : call'[x] = IF x[1] = p THEN NoCall ELSE call[x]
  BY <1>0, PageGoes
<1>2. TypeOK'
  BY <1>0, <1>1 DEF TypeOK
<1>3. \A x \in Calls : call'[x] = call[x] \/ call'[x].step = "idle"
  BY <1>1, CallsType
<1> QED
  BY <1>0, <1>1, <1>2, <1>3, Browses DEF IInv, CastsStored

------------------------------------------------------------------------------
(* What is lost on the way, and the server.                                *)

(* A request answered in vain, by a fault or by a refusal.                 *)
LEMMA AnsweredInVain ==
  ASSUME IInv, NEW m \in wire, NEW s \in {"refused", "failed", "thrown"},
         wire' = wire \ {m}, Answer(m, s),
         UNCHANGED <<stored, voted, page, message, tickets, box>>,
         open' \in BOOLEAN, faults' \in 0 .. MaxFaults, faults' = 0 => faults = 0
  PROVE  IInv'
<1>1. /\ call' \in [Calls -> Call] /\ WireFits' /\ PagesFit'
      /\ \A x \in wire' : x \in Request
      /\ \A x \in Calls : x # m.from => call'[x] = call[x]
      /\ \A x \in Calls : x = m.from =>
           call'[x].step = s /\ call[x].step \in {"asking", "casting"}
  BY Answered
<1>2. TypeOK'
  BY <1>1 DEF IInv, TypeOK
<1>3. \A x \in Calls :
        \/ call'[x] = call[x]
        \/ call'[x].step \in {"refused", "failed", "thrown"} /\ call[x].step \in {"asking", "casting"}
  BY <1>1
<1>4. \A x \in wire' : x \in wire
  OBVIOUS
<1> QED
  BY <1>1, <1>2, <1>3, <1>4, Browses DEF IInv, CastsStored

LEMMA LoseRequestStep ==
  ASSUME IInv, NEW m \in wire, LoseRequest(m) \/ ServerError(m)
  PROVE  IInv'
<1>1. faults \in 0 .. MaxFaults /\ open \in BOOLEAN
  BY DEF IInv, TypeOK
<1>2. wire' = wire \ {m} /\ (Answer(m, "thrown") \/ Answer(m, "failed"))
  BY DEF LoseRequest, ServerError
<1>3. /\ UNCHANGED <<stored, voted, page, message, open, tickets, box>>
      /\ faults < MaxFaults /\ faults' = faults + 1
  BY DEF LoseRequest, ServerError, server, Fault
<1>4. faults' \in 0 .. MaxFaults /\ faults' # 0
  BY <1>1, <1>3, IslandAssumption
<1> QED
  BY <1>1, <1>2, <1>3, <1>4, AnsweredInVain

LEMMA LoseAnswerStep ==
  ASSUME IInv, NEW c \in Calls, LoseAnswer(c)
  PROVE  IInv'
<1>0. /\ TypeOK /\ call[c].step \in {"signed", "refused", "counted", "failed"}
      /\ UNCHANGED <<stored, voted, page, message, wire, open, tickets, box>>
      /\ call' = [call EXCEPT ![c].step = "thrown"]
      /\ faults' \in 0 .. MaxFaults /\ faults' # 0
  BY IslandAssumption DEF IInv, LoseAnswer, server, Fault, TypeOK, Step
<1>1. call[c] \in Call
  BY <1>0 DEF TypeOK
<1>2. /\ call' \in [Calls -> Call] /\ call'[c].step = "thrown"
      /\ \A x \in Calls : x # c => call'[x] = call[x]
  BY <1>0, <1>1 DEF TypeOK, Call
<1>3. TypeOK'
  BY <1>0, <1>2 DEF TypeOK
<1>4. WireFits'
  BY <1>0, <1>2, OneMove DEF IInv
<1>5. \A x \in Calls : call'[x] = call[x] \/ (x = c /\ call'[x].step = "thrown")
  BY <1>2
<1>6. PagesFit'
  <2>1. \A x \in Calls : call[x].step = "idle" => call'[x].step = "idle"
    BY <1>0, <1>5
  <2> QED
    BY <1>0, <2>1, CallsType DEF IInv, PagesFit, Names
<1> QED
  BY <1>0, <1>3, <1>4, <1>5, <1>6, Browses DEF IInv, CastsStored

LEMMA ClosePollStep ==
  ASSUME IInv, ClosePoll
  PROVE  IInv'
<1>1. TypeOK' /\ WireFits' /\ PagesFit'
  BY DEF IInv, ClosePoll, TypeOK, WireFits, PagesFit, Ask, Cast
<1> QED
  BY <1>1, Browses DEF IInv, ClosePoll, CastsStored

(* The account has no token yet: nobody thanks or casts for it, and the    *)
(* token goes to the call that asked.                                      *)
LEMMA ServeAskStep ==
  ASSUME IInv, NEW m \in wire, ServeAsk(m)
  PROVE  IInv'
<1>0. /\ wire' = wire \ {m} /\ m.kind = "ask" /\ faults \in 0 .. MaxFaults /\ open \in BOOLEAN
      /\ UNCHANGED <<stored, voted, page, message, open, faults>>
  BY DEF ServeAsk, IInv, TypeOK
<1>1. CASE ~(open /\ ~Box!HasTicket(Poll, m.user))
  BY <1>0, <1>1, AnsweredInVain DEF ServeAsk
<1>2. CASE open /\ ~Box!HasTicket(Poll, m.user)
  <2>0. /\ ~Box!HasTicket(Poll, m.user) /\ Answer(m, "signed") /\ UNCHANGED box
        /\ tickets' = tickets \union {Ticket(m.user, m.token)}
    BY <1>2 DEF ServeAsk, Box!GiveTicket, Ticket
  <2>1. /\ call' \in [Calls -> Call] /\ WireFits' /\ PagesFit'
        /\ m \in Request /\ \A x \in wire' : x \in Request
        /\ \A x \in Calls : x # m.from => call'[x] = call[x]
        /\ \A x \in Calls : x = m.from =>
             /\ call'[x].step = "signed" /\ call'[x].token = call[x].token
             /\ \/ call[x].step = "asking" /\ m = Ask(x, call[x].token)
                \/ call[x].step = "casting" /\ m = Cast(x, call[x].token, call[x].choice)
    BY <1>0, <2>0, Answered
  <2>2. \A x \in Calls : x = m.from =>
          /\ call'[x].step = "signed" /\ call'[x].token = m.token
          /\ call[x].step = "asking" /\ m.user = Account(x) /\ call[x].token = m.token
    BY <1>0, <2>1 DEF Ask, Cast, Account
  <2>3. TypeOK'
    BY <1>0, <2>1 DEF IInv, TypeOK
  <2>4. m.user \in Users /\ m.token \in Tokens /\ m.token # None
    BY <1>0, <2>1, IslandAssumption DEF IInv, WireFits, Request
  <2>5. BoxFits'
    BY <2>0, <2>4 DEF IInv, BoxFits, Ticket
  <2>6. OneTicket'
    <3>1. \A k \in tickets : k.user # m.user
      BY <2>0 DEF IInv, BoxFits, Box!HasTicket
    <3>2. Ticket(m.user, m.token).user = m.user
      BY DEF Ticket
    <3> QED
      BY <2>0, <3>1, <3>2 DEF IInv, OneTicket
  <2>7. TokensTicketed'
    <3>1. \A x \in Calls : call'[x].step = "signed" => Ticket(Account(x), call'[x].token) \in tickets'
      BY <2>0, <2>1, <2>2 DEF IInv, TokensTicketed
    <3> QED
      BY <1>0, <2>0, <3>1 DEF IInv, TokensTicketed, Ticket, Account
  <2>8. \A x : Spent(x)' = Spent(x)
    BY <2>0 DEF Spent, Box!Dropped
  <2>9. CastsStored'
    <3>1. \A x \in Calls : \/ call'[x] = call[x]
                           \/ call'[x].step = "signed" /\ call'[x].token # None
      BY <2>1, <2>2, <2>4
    <3> QED
      BY <1>0, <2>8, <3>1 DEF IInv, CastsStored
  <2>10. ThanksMeansCounted'
    BY <1>0, <2>8 DEF IInv, ThanksMeansCounted
  <2>11. NoVoteStranded'
    <3> SUFFICES ASSUME faults = 0, NEW k \in tickets', ~Spent(k.token)
                 PROVE  Reachable(k.token)'
      BY <1>0, <2>8 DEF NoVoteStranded
    <3>1. CASE k \in tickets
      <4>1. Reachable(k.token)
        BY <3>1 DEF IInv, NoVoteStranded
      <4>2. \A x \in Calls : call[x].step = "signed" => call'[x] = call[x]
        BY <2>1, <2>2
      <4> QED
        BY <1>0, <4>1, <4>2 DEF Reachable
    <3>2. CASE k = Ticket(m.user, m.token)
      <4>1. m.from # None
        BY <1>0, <2>0 DEF IInv, OrphansServed
      <4>2. m.from \in Calls
        BY <2>1, <4>1 DEF Request
      <4> QED
        BY <2>2, <3>2, <4>2 DEF Reachable, Ticket
    <3> QED
      BY <2>0, <3>1, <3>2
  <2>12. OrphansServed'
    <3>1. \A u : Box!HasTicket(Poll, u) => Box!HasTicket(Poll, u)'
      BY <2>0 DEF Box!HasTicket
    <3> QED
      BY <1>0, <3>1 DEF IInv, OrphansServed
  <2> QED
    BY <2>1, <2>3, <2>5, <2>6, <2>7, <2>9, <2>10, <2>11, <2>12 DEF IInv
<1> QED
  BY <1>1, <1>2

(* The first cast of a token finds the chain without it.                   *)
LEMMA ServeCastStep ==
  ASSUME IInv, NEW m \in wire, ServeCast(m)
  PROVE  IInv'
<1>0. /\ wire' = wire \ {m} /\ m.kind = "cast" /\ faults \in 0 .. MaxFaults /\ open \in BOOLEAN
      /\ UNCHANGED <<stored, voted, page, message, open, faults>>
  BY DEF ServeCast, IInv, TypeOK
<1>1. CASE ~(open /\ ~Spent(m.token))
  BY <1>0, <1>1, AnsweredInVain DEF ServeCast
<1>2. CASE open /\ ~Spent(m.token)
  <2> DEFINE cast == [token |-> m.token, choice |-> m.choice]
  <2>0. /\ Answer(m, "counted") /\ UNCHANGED tickets
        /\ box' = [box EXCEPT ![Poll] = Append(box[Poll], cast)]
    BY <1>2 DEF ServeCast, Box!Drop
  <2>1. /\ call' \in [Calls -> Call] /\ WireFits' /\ PagesFit'
        /\ m \in Request /\ \A x \in wire' : x \in Request
        /\ \A x \in Calls : x # m.from => call'[x] = call[x]
        /\ \A x \in Calls : x = m.from =>
             /\ call'[x].step = "counted" /\ call'[x].token = call[x].token
             /\ \/ call[x].step = "asking" /\ m = Ask(x, call[x].token)
                \/ call[x].step = "casting" /\ m = Cast(x, call[x].token, call[x].choice)
    BY <1>0, <2>0, Answered
  <2>2. \A x \in Calls : x = m.from =>
          /\ call'[x].step = "counted" /\ call'[x].token = m.token
          /\ call[x].step = "casting" /\ call[x].token = m.token
    BY <1>0, <2>1 DEF Ask, Cast
  <2>3. TypeOK'
    BY <1>0, <2>1 DEF IInv, TypeOK
  <2>4. cast \in Ballot /\ cast.token = m.token
    BY <2>1 DEF Request, Ballot
  <2> HIDE DEF cast
  <2>5. /\ box[Poll] \in Seq(Ballot) /\ box' \in [{Poll} -> Seq(Ballot)]
        /\ box'[Poll] = Append(box[Poll], cast)
    <3>1. box[Poll] \in Seq(Ballot) /\ Append(box[Poll], cast) \in Seq(Ballot)
      BY <2>4, AppendProperties DEF IInv, BoxFits
    <3> QED
      BY <2>0, <3>1 DEF IInv, BoxFits
  <2>6. /\ DOMAIN box[Poll] = 1 .. Len(box[Poll]) /\ Len(box[Poll]) \in Nat
        /\ DOMAIN box'[Poll] = 1 .. (Len(box[Poll]) + 1)
        /\ \A i \in DOMAIN box[Poll] : box'[Poll][i] = box[Poll][i]
        /\ box'[Poll][Len(box[Poll]) + 1] = cast
    BY <2>4, <2>5, AppendProperties, LenProperties
  <2>7. \A x : Spent(x) => Spent(x)'
    BY <2>6 DEF Spent, Box!Dropped
  <2>8. Spent(m.token)'
    <3>1. Len(box[Poll]) + 1 \in DOMAIN box'[Poll]
      BY <2>6
    <3> QED
      BY <2>4, <2>6, <3>1 DEF Spent, Box!Dropped
  <2>9. BoxFits' /\ OneTicket'
    BY <2>0, <2>5 DEF IInv, BoxFits, OneTicket
  <2>10. \A x \in Calls : call[x].step = "signed" => call'[x] = call[x]
    BY <2>1, <2>2
  <2>11. TokensTicketed'
    <3>1. \A x \in Calls : call'[x].step = "signed" => call'[x] = call[x]
      BY <2>1, <2>2
    <3> QED
      BY <1>0, <2>0, <3>1 DEF IInv, TokensTicketed, Ticket, Account
  <2>12. CastsStored'
    <3> SUFFICES ASSUME NEW x \in Calls, NEW t, t = call'[x].token
                 PROVE  /\ call'[x].step \in {"asking", "signed"} => t # None
                        /\ call'[x].step \in {"casting", "counted"} =>
                             t # None /\ stored[Device(x)] = t
                        /\ call'[x].step = "counted" => Spent(t)'
      BY <1>0 DEF CastsStored, Spent, Box!Dropped
    <3>1. CASE x = m.from
      <4>1. t = m.token /\ call[x].step = "casting" /\ call[x].token = t
        BY <2>2, <3>1
      <4> QED
        BY <2>8, <4>1 DEF IInv, CastsStored
    <3>2. CASE x # m.from
      <4>1. call'[x] = call[x] /\ t = call[x].token
        BY <2>1, <3>2
      <4>2. call'[x].step = "counted" => Spent(t)
        BY <4>1 DEF IInv, CastsStored
      <4>3. call'[x].step = "counted" => Spent(t)'
        BY <2>7, <4>2
      <4> QED
        BY <4>1, <4>3 DEF IInv, CastsStored
    <3> QED
      BY <3>1, <3>2
  <2>13. ThanksMeansCounted'
    BY <1>0, <2>7 DEF IInv, ThanksMeansCounted
  <2>14. NoVoteStranded'
    <3> SUFFICES ASSUME faults = 0, NEW k \in tickets
                 PROVE  Reachable(k.token)' \/ Spent(k.token)'
      BY <1>0, <2>0 DEF NoVoteStranded
    <3>1. Reachable(k.token) \/ Spent(k.token)
      BY DEF IInv, NoVoteStranded
    <3> QED
      BY <1>0, <2>7, <2>10, <3>1 DEF Reachable
  <2>15. OrphansServed'
    <3>1. \A u : Box!HasTicket(Poll, u) => Box!HasTicket(Poll, u)'
      BY <2>0 DEF Box!HasTicket
    <3> QED
      BY <1>0, <3>1 DEF IInv, OrphansServed
  <2> QED
    BY <2>1, <2>3, <2>9, <2>11, <2>12, <2>13, <2>14, <2>15 DEF IInv
<1> QED
  BY <1>1, <1>2

------------------------------------------------------------------------------
LEMMA InitInv == Init => IInv
<1> SUFFICES ASSUME Init PROVE IInv
  OBVIOUS
<1>1. tickets = {} /\ box = [p \in {Poll} |-> <<>>] /\ <<>> \in Seq(Ballot)
  BY EmptySeq DEF Init, Box!Init
<1>2. \A c \in Calls : call[c] = NoCall
  BY DEF Init
<1>3. TypeOK
  BY CallsType, IslandAssumption DEF Init, TypeOK
<1>4. BoxFits /\ OneTicket
  BY <1>1 DEF BoxFits, OneTicket
<1>5. WireFits /\ OrphansServed /\ ThanksMeansCounted
  BY DEF Init, WireFits, OrphansServed, ThanksMeansCounted, Ask, Cast
<1>6. PagesFit
  BY <1>2, CallsType DEF PagesFit, Names
<1>7. TokensTicketed /\ CastsStored
  BY <1>2, CallsType DEF Init, TokensTicketed, CastsStored
<1>8. NoVoteStranded
  BY <1>1 DEF NoVoteStranded
<1> QED
  BY <1>3, <1>4, <1>5, <1>6, <1>7, <1>8 DEF IInv

LEMMA StepInv == IInv /\ [Next]_vars => IInv'
<1> SUFFICES ASSUME IInv, [Next]_vars PROVE IInv'
  OBVIOUS
<1>1. CASE UNCHANGED vars
  <2>1. UNCHANGED <<stored, voted, page, message, call, wire, open, tickets, box, faults>>
    BY <1>1 DEF vars, server
  <2>2. TypeOK' /\ WireFits' /\ PagesFit'
    BY <2>1 DEF IInv, TypeOK, WireFits, PagesFit, Ask, Cast
  <2> QED
    BY <2>1, <2>2, Browses DEF IInv, CastsStored
<1>2. ASSUME NEW p \in Pages, Load(p) \/ Leave(p) \/ \E o \in Choices : Submit(p, o)
      PROVE  IInv'
  BY <1>2, LoadStep, LeaveStep, SubmitStep
<1>3. ASSUME NEW c \in Calls, Continue(c) \/ LoseAnswer(c)
      PROVE  IInv'
  BY <1>3, FinalizeStep, CountedStep, RefusedStep, ThrownStep, LoseAnswerStep DEF Continue
<1>4. CASE Serve
  BY <1>4, ServeAskStep, ServeCastStep DEF Serve
<1>5. ASSUME NEW m \in wire, LoseRequest(m) \/ ServerError(m)
      PROVE  IInv'
  BY <1>5, LoseRequestStep
<1>6. CASE ClosePoll
  BY <1>6, ClosePollStep
<1> QED
  BY <1>1, <1>2, <1>3, <1>4, <1>5, <1>6 DEF Next

LEMMA Invariant == Spec => []IInv
BY InitInv, StepInv, PTL DEF Spec

(* "You have cast your anonymous ballot" is shown only to one whose token  *)
(* is in the chain, whatever was lost on the way (vote-island.js, the      *)
(* "op-voted" flag).                                                       *)
THEOREM ThanksMeansCountedAlways == Spec => []ThanksMeansCounted
<1>1. IInv => ThanksMeansCounted
  BY DEF IInv
<1> QED
  BY <1>1, Invariant, PTL

(* While nothing is lost, every token the server signed is stored, on its  *)
(* way to a page that will store it, or counted: no race of two tabs, of   *)
(* the warmed token with the click, or with the closing of the poll        *)
(* strands a vote (vote-island.js ensureToken).                            *)
THEOREM VotesSoundAlways == Spec => []VotesSound
<1>1. IInv => VotesSound
  BY DEF IInv, VotesSound
<1> QED
  BY <1>1, Invariant, PTL

(* A device keeps the token it stored: a late answer can only bring it the *)
(* same one, for the server signs one an account (vote-island.js           *)
(* ensureToken, localStorage.setItem).                                     *)
THEOREM TokenKeptAlways == Spec => TokenKept
<1> DEFINE Kept == \A d \in Devices : stored[d] # None => stored'[d] = stored[d]
<1>1. ASSUME IInv, [Next]_vars PROVE Kept
  <2>1. ASSUME NEW c \in Calls, Finalize(c) PROVE Kept
    BY <1>1, <2>1, SameToken, CallsType DEF IInv, TypeOK, Finalize
  <2>2. CASE UNCHANGED stored
    BY <2>2
  <2>3. UNCHANGED stored \/ \E c \in Calls : Finalize(c)
    BY <1>1 DEF Next, vars, Continue, Serve, Load, Leave, Submit, Counted, Refused, Thrown,
                LoseAnswer, ServeAsk, ServeCast, LoseRequest, ServerError, ClosePoll
  <2> QED
    BY <2>1, <2>2, <2>3
<1>2. IInv /\ [Next]_vars => [Kept]_vars
  BY <1>1
<1> QED
  BY <1>2, Invariant, PTL DEF Spec, TokenKept
==============================================================================
