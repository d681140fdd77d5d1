-------------------------------- MODULE Island --------------------------------
(***************************************************************************)
(* The browser's half of a vote: crates/server/assets/vote-island.js on    *)
(* the poll pages open on some devices, against the server's promise       *)
(* (BallotBox, which Voting implements).                                   *)
(*                                                                         *)
(* A page runs two asynchronous calls of its own: "warm", the token asked  *)
(* for when the page is ready, and "submit", the click.  Both run          *)
(* ensureToken, so both may ask at once.  Between two awaits a call runs   *)
(* alone.  Pages of one device share localStorage, which is keyed by poll. *)
(*                                                                         *)
(* A definition named after another with a suffix (FinalizeLate, ...) is a *)
(* mistake one could make there; a property must tell it from the code.    *)
(***************************************************************************)
EXTENDS Naturals, Sequences, FiniteSets

CONSTANTS
  Poll,        (* the poll                                                 *)
  Users,       (* accounts                                                 *)
  Devices,     (* browser profiles                                         *)
  AccountOf,   (* the account signed in on each device                     *)
  Pages,       (* browser tabs                                             *)
  DeviceOf,    (* the device each is on                                    *)
  Tokens,      (* the 32 random bytes minted for a token                   *)
  OptionIds,   (* options of the poll                                      *)
  Choices,     (* what a click submits                                     *)
  MaxFaults,   (* bound: reloads, lost requests or answers, server errors  *)
  None

Names == {"warm", "submit"}
Calls == Pages \X Names

ASSUME IslandAssumption ==
  /\ AccountOf \in [Devices -> Users]
  /\ DeviceOf \in [Pages -> Devices]
  /\ Choices \subseteq (SUBSET OptionIds) \ {{}}
  /\ None \notin Tokens \union Calls
  /\ MaxFaults \in Nat

VARIABLES
  stored,      (* localStorage "op-vote:<slug>" per device                 *)
  voted,       (* devices with "op-voted:<slug>"                           *)
  page,        (* per page: closed, ready, busy (buttons disabled), thanks *)
  message,     (* per page: what the status line says                      *)
  call,        (* per page and call: its step, token, choice               *)
  wire,        (* requests under way to the server                         *)
  open,        (* is_open                                                  *)
  tickets, box,(* the server, as BallotBox has it                          *)
  faults       (* faults so far                                            *)

server == <<open, tickets, box>>
vars == <<stored, voted, page, message, call, wire, server, faults>>

Box == INSTANCE BallotBox WITH Polls <- {Poll}

Device(c) == DeviceOf[c[1]]
Spent(t) == Box!Dropped(Poll, t)

NoCall == [step |-> "idle", token |-> None, choice |-> {}]
Call == [step: {"idle", "asking", "signed", "refused", "casting", "counted", "failed", "thrown"},
         token: Tokens \union {None}, choice: Choices \union {{}}]
Request == [kind: {"ask", "cast"}, from: Calls \union {None}, user: Users \union {None},
            token: Tokens, choice: Choices \union {{}}]

Step(c, s) == [call EXCEPT ![c].step = s]
End(c) == [call EXCEPT ![c] = NoCall]

(* Answers to a page that is gone reach nobody; its requests still arrive. *)
Orphaned(p) == {IF m.from \in {p} \X Names THEN [m EXCEPT !.from = None] ELSE m : m \in wire}
Stopped(p) == [c \in Calls |-> IF c[1] = p THEN NoCall ELSE call[c]]

Minted(t) ==
  \/ \E c \in Calls : call[c].token = t
  \/ \E d \in Devices : stored[d] = t
  \/ \E m \in wire : m.token = t
  \/ \E k \in tickets : k.token = t
Fresh(t) == ~Minted(t)

Ask(c, t) == [kind |-> "ask", from |-> c, user |-> AccountOf[Device(c)], token |-> t, choice |-> {}]
Cast(c, t, o) == [kind |-> "cast", from |-> c, user |-> None, token |-> t, choice |-> o]

------------------------------------------------------------------------------
(* The page.                                                               *)

(* enhance: the note, or the form and the warmed token.                    *)
Load(p) ==
  /\ page[p] = "closed"
  /\ message' = [message EXCEPT ![p] = "none"]
  /\ IF DeviceOf[p] \in voted
     THEN /\ page' = [page EXCEPT ![p] = "thanks"]
          /\ UNCHANGED <<call, wire>>
     ELSE /\ page' = [page EXCEPT ![p] = "ready"]
          /\ IF stored[DeviceOf[p]] # None
             THEN UNCHANGED <<call, wire>>
             ELSE \E t \in Tokens :
                    /\ Fresh(t)
                    /\ call' = [call EXCEPT ![<<p, "warm">>] =
                                  [NoCall EXCEPT !.step = "asking", !.token = t]]
                    /\ wire' = wire \union {Ask(<<p, "warm">>, t)}
  /\ UNCHANGED <<stored, voted, server, faults>>

(* The submit listener: the buttons, then ensureToken.                     *)
Submit(p, o) ==
  LET c == <<p, "submit">>
      t == stored[DeviceOf[p]]
  IN /\ page[p] = "ready"
     /\ page' = [page EXCEPT ![p] = "busy"]
     /\ IF t # None
        THEN /\ call' = [call EXCEPT ![c] = [step |-> "casting", token |-> t, choice |-> o]]
             /\ wire' = wire \union {Cast(c, t, o)}
        ELSE \E new \in Tokens :
               /\ Fresh(new)
               /\ call' = [call EXCEPT ![c] = [step |-> "asking", token |-> new, choice |-> o]]
               /\ wire' = wire \union {Ask(c, new)}
     /\ UNCHANGED <<stored, voted, message, server, faults>>

FinalizeLate(c) ==
  /\ call[c].step = "signed"
  /\ IF c[2] = "warm"
     THEN call' = End(c) /\ UNCHANGED <<stored, wire>>
     ELSE /\ stored' = [stored EXCEPT ![Device(c)] = call[c].token]
          /\ call' = Step(c, "casting")
          /\ wire' = wire \union {Cast(c, call[c].token, call[c].choice)}
  /\ UNCHANGED <<voted, page, message, server, faults>>

(* The rest of ensureToken: finalize and setItem; a click goes on to cast. *)
Finalize(c) ==
  /\ call[c].step = "signed"
  /\ stored' = [stored EXCEPT ![Device(c)] = call[c].token]
  /\ IF c[2] = "warm"
     THEN call' = End(c) /\ UNCHANGED wire
     ELSE /\ call' = Step(c, "casting")
          /\ wire' = wire \union {Cast(c, call[c].token, call[c].choice)}
  /\ UNCHANGED <<voted, page, message, server, faults>>

CountedAny(c) ==
  /\ call[c].step \in {"counted", "failed"} /\ (call[c].step = "failed" => c[2] = "submit")
  /\ voted' = voted \union {Device(c)}
  /\ page' = [page EXCEPT ![c[1]] = "thanks"]
  /\ message' = [message EXCEPT ![c[1]] = "none"]
  /\ call' = Stopped(c[1])
  /\ wire' = Orphaned(c[1])
  /\ UNCHANGED <<stored, server, faults>>

(* An ok answer to the ballot: the flag, and location.reload().            *)
Counted(c) ==
  /\ call[c].step = "counted"
  /\ voted' = voted \union {Device(c)}
  /\ page' = [page EXCEPT ![c[1]] = "thanks"]
  /\ message' = [message EXCEPT ![c[1]] = "none"]
  /\ call' = Stopped(c[1])
  /\ wire' = Orphaned(c[1])
  /\ UNCHANGED <<stored, server, faults>>

RefusedForgets(c) ==
  /\ call[c].step \in {"refused", "failed"}
  /\ call' = End(c)
  /\ IF c[2] = "warm"
     THEN UNCHANGED <<stored, page, message>>
     ELSE /\ stored' = [stored EXCEPT ![Device(c)] = None]
          /\ message' = [message EXCEPT ![c[1]] = "error"]
          /\ page' = [page EXCEPT ![c[1]] = "ready"]
  /\ UNCHANGED <<voted, wire, server, faults>>

(* No token, or no ballot: the click says why and gives the buttons back;  *)
(* a warmed token that was refused leaves no trace.                        *)
Refused(c) ==
  /\ call[c].step \in {"refused", "failed"}
  /\ call' = End(c)
  /\ IF c[2] = "warm"
     THEN UNCHANGED <<page, message>>
     ELSE /\ message' = [message EXCEPT ![c[1]] =
                           IF call[c].step = "refused" THEN "unavailable" ELSE "error"]
          /\ page' = [page EXCEPT ![c[1]] = "ready"]
  /\ UNCHANGED <<stored, voted, wire, server, faults>>

(* fetch or the decoding throws: caught for a warmed token only, so a      *)
(* click stays without an answer and the buttons stay disabled.            *)
Thrown(c) ==
  /\ call[c].step = "thrown"
  /\ call' = End(c)
  /\ UNCHANGED <<stored, voted, page, message, wire, server, faults>>

------------------------------------------------------------------------------
(* The server, a request at a time, with the answer.                       *)

Answer(m, s) == call' = IF m.from = None THEN call ELSE Step(m.from, s)

(* issue_token: 409 when the poll is closed or the account has had its     *)
(* token.                                                                  *)
ServeAsk(m) ==
  /\ m \in wire /\ m.kind = "ask"
  /\ wire' = wire \ {m}
  /\ IF open /\ ~Box!HasTicket(Poll, m.user)
     THEN Box!GiveTicket(Poll, m.user, m.token) /\ Answer(m, "signed")
     ELSE UNCHANGED <<tickets, box>> /\ Answer(m, "refused")
  /\ UNCHANGED <<stored, voted, page, message, open, faults>>

(* cast: a redirect when counted, 409 when the poll is closed or the token *)
(* spent, which the page cannot tell from any other failure.               *)
ServeCast(m) ==
  /\ m \in wire /\ m.kind = "cast"
  /\ wire' = wire \ {m}
  /\ IF open /\ ~Spent(m.token)
     THEN Box!Drop(Poll, m.token, m.choice) /\ Answer(m, "counted")
     ELSE UNCHANGED <<tickets, box>> /\ Answer(m, "failed")
  /\ UNCHANGED <<stored, voted, page, message, open, faults>>

ClosePoll ==
  /\ open
  /\ open' = FALSE
  /\ UNCHANGED <<stored, voted, page, message, call, wire, tickets, box, faults>>

------------------------------------------------------------------------------
(* What goes wrong.                                                        *)

Fault == faults < MaxFaults /\ faults' = faults + 1

(* The tab is reloaded, closed or left.                                    *)
Leave(p) ==
  /\ Fault
  /\ page[p] \notin {"closed", "thanks"}
  /\ page' = [page EXCEPT ![p] = "closed"]
  /\ call' = Stopped(p)
  /\ wire' = Orphaned(p)
  /\ UNCHANGED <<stored, voted, message, server>>

(* A request that never arrives.                                           *)
LoseRequest(m) ==
  /\ Fault
  /\ m \in wire
  /\ wire' = wire \ {m}
  /\ Answer(m, "thrown")
  /\ UNCHANGED <<stored, voted, page, message, server>>

(* An answer that never arrives.                                           *)
LoseAnswer(c) ==
  /\ Fault
  /\ call[c].step \in {"signed", "refused", "counted", "failed"}
  /\ call' = Step(c, "thrown")
  /\ UNCHANGED <<stored, voted, page, message, wire, server>>

(* 500 before anything was written.                                        *)
ServerError(m) ==
  /\ Fault
  /\ m \in wire
  /\ wire' = wire \ {m}
  /\ Answer(m, "failed")
  /\ UNCHANGED <<stored, voted, page, message, server>>

------------------------------------------------------------------------------
Init ==
  /\ stored = [d \in Devices |-> None]
  /\ voted = {}
  /\ page = [p \in Pages |-> "closed"]
  /\ message = [p \in Pages |-> "none"]
  /\ call = [c \in Calls |-> NoCall]
  /\ wire = {}
  /\ open = TRUE
  /\ Box!Init
  /\ faults = 0

Continue(c) == Finalize(c) \/ Counted(c) \/ Refused(c) \/ Thrown(c)

Serve == \E m \in wire : ServeAsk(m) \/ ServeCast(m)

Next ==
  \/ \E p \in Pages : Load(p) \/ Leave(p) \/ \E o \in Choices : Submit(p, o)
  \/ \E c \in Calls : Continue(c) \/ LoseAnswer(c)
  \/ Serve
  \/ \E m \in wire : LoseRequest(m) \/ ServerError(m)
  \/ ClosePoll

Spec == Init /\ [][Next]_vars

------------------------------------------------------------------------------
(* Properties.                                                             *)

TypeOK ==
  /\ stored \in [Devices -> Tokens \union {None}]
  /\ voted \subseteq Devices
  /\ page \in [Pages -> {"closed", "ready", "busy", "thanks"}]
  /\ message \in [Pages -> {"none", "error", "unavailable"}]
  /\ call \in [Calls -> Call]
  /\ \A m \in wire : m \in Request
  /\ open \in BOOLEAN
  /\ faults \in 0 .. MaxFaults

(* "You have cast your anonymous ballot for this poll" is shown only to    *)
(* one whose token is in the chain.                                        *)
ThanksMeansCounted ==
  \A d \in voted : stored[d] # None /\ Spent(stored[d])

(* "the account can be issued only one, so losing it before casting would  *)
(* strand the vote": while nothing is lost, every token the server signed  *)
(* is stored, spent or on its way to a page that will store it.            *)
Reachable(t) ==
  \/ \E d \in Devices : stored[d] = t
  \/ \E c \in Calls : call[c].step = "signed" /\ call[c].token = t

NoVoteStranded ==
  faults = 0 => \A k \in tickets : Reachable(k.token) \/ Spent(k.token)

(* A vote is within reach as long as nothing is lost, whatever was clicked *)
(* in which page.                                                          *)
VotesSound == TypeOK /\ NoVoteStranded

(* Once a device holds a token it keeps that token: no late answer, of     *)
(* this page or another one, replaces it.                                  *)
TokenKept == [][\A d \in Devices : stored[d] # None => stored'[d] = stored[d]]_vars
==============================================================================
