------------------------------ MODULE MailCheck ------------------------------
(* What registration asks of an address before it stores anything            *)
(* (pages/auth.rs register): its shape, the list of disposable domains       *)
(* (email_blocklist.rs), and whether its domain takes mail (email_mx.rs).    *)
(* A lookup may fail or never answer; a check gives up after three seconds.  *)
(* A definition named after another with a suffix is a mistake one could     *)
(* make there; a property must tell it from the code.                        *)
EXTENDS Naturals, FiniteSets

CONSTANTS
    Addresses,  \* [at, length, labels, listed, domain]; labels FALSE if the
                \* domain has no dot, an empty label or one that is too long
    Zone,       \* [domains -> [mx, ip]]: what the name servers hold, see below
    MaxLength,  \* longest address, 254 in the code
    MaxChecks   \* bound on the registrations tried

ASSUME MailCheckAssumption == MaxChecks \in Nat /\ \A a \in Addresses : Zone[a.domain].ip \in Nat

VARIABLES
    check,      \* the check under way, or NoCheck
    verdict,    \* the last verdict: [of, accepted, malformed], or NoCheck;
                \* malformed is history: the answer asked for could not be read
    resolver,   \* whether a resolver could be built at start-up
    checks

mailCheckVars == <<check, verdict, resolver, checks>>

NoCheck == [at |-> "none"]

(* mx: the kinds of the MX records, "root" being the null MX of RFC 7505, or *)
(* why there is no answer.  ip: how many addresses the domain itself has.    *)
NoDomain == {"no_domain"}
NoRecords == {"no_records"}

MailCheckTypeOK ==
    /\ check = NoCheck \/ (check.of \in Addresses /\ check.at \in {"mx", "ip"})
    /\ verdict = NoCheck \/ (verdict.of \in Addresses
                              /\ {verdict.accepted, verdict.malformed} \subseteq BOOLEAN)
    /\ resolver \in BOOLEAN /\ checks \in 0..MaxChecks

-----------------------------------------------------------------------------
WellFormed(a) == a.at /\ a.length <= MaxLength
Disposable(a) == a.listed

Verdict(a, accepted, malformed) ==
    /\ check' = NoCheck
    /\ verdict' = [at |-> "verdict", of |-> a, accepted |-> accepted, malformed |-> malformed]
Answered(a, accepted) == Verdict(a, accepted, FALSE)

(* Without a resolver every address is let through.  A domain that is no     *)
(* domain is refused before anything is asked.                               *)
BeginCheck(a) ==
    /\ check = NoCheck /\ checks < MaxChecks /\ checks' = checks + 1
    /\ IF ~WellFormed(a) \/ Disposable(a) THEN Answered(a, FALSE)
       ELSE IF ~resolver THEN Answered(a, TRUE)
       ELSE IF ~a.labels THEN Answered(a, FALSE)
       ELSE check' = [at |-> "mx", of |-> a] /\ UNCHANGED verdict
    /\ UNCHANGED resolver

MxAnswerNull ==
    /\ check.at = "mx"
    /\ Answered(check.of, "root" \notin Zone[check.of.domain].mx)
    /\ UNCHANGED <<resolver, checks>>

(* A null MX counts only if no other record stands beside it; without any    *)
(* record of either kind the address of the domain itself is asked for.      *)
MxAnswer ==
    LET mx == Zone[check.of.domain].mx
        fallback == check' = [check EXCEPT !.at = "ip"] /\ UNCHANGED verdict
    IN /\ check.at = "mx"
       /\ CASE mx = NoDomain  -> Answered(check.of, FALSE)
            [] mx = NoRecords -> fallback
            [] OTHER -> IF "host" \in mx THEN Answered(check.of, TRUE)
                        ELSE IF "root" \in mx THEN Answered(check.of, FALSE)
                        ELSE fallback
       /\ UNCHANGED <<resolver, checks>>

IpAnswer ==
    /\ check.at = "ip"
    /\ Answered(check.of, Zone[check.of.domain].ip > 0)
    /\ UNCHANGED <<resolver, checks>>

(* A protocol error counts as a domain that is none, and is no answer that   *)
(* has an address either.                                                    *)
Malformed ==
    /\ check # NoCheck /\ Verdict(check.of, FALSE, TRUE)
    /\ UNCHANGED <<resolver, checks>>

(* SERVFAIL, a network error, or three seconds without an answer.            *)
Unanswered ==
    /\ check # NoCheck /\ Answered(check.of, TRUE)
    /\ UNCHANGED <<resolver, checks>>

MailCheckInit == check = NoCheck /\ verdict = NoCheck /\ resolver \in BOOLEAN /\ checks = 0

MailCheckNext == \/ \E a \in Addresses : BeginCheck(a)
        \/ MxAnswer \/ IpAnswer \/ Malformed \/ Unanswered

MailCheckSpec == MailCheckInit /\ [][MailCheckNext]_mailCheckVars

-----------------------------------------------------------------------------
TakesMail(z) ==
    \/ "host" \in z.mx
    \/ z.mx \in {NoRecords, {}} /\ z.ip > 0

(* Fails closed only on definitive evidence (is_deliverable): an address that *)
(* takes mail is refused for its shape or the list and for nothing else,     *)
(* whichever lookups fail, answer late or contradict one another, unless an  *)
(* answer was malformed, which classify_error takes for an invalid domain.   *)
RefusedForCause ==
    verdict # NoCheck /\ ~verdict.accepted =>
        LET a == verdict.of IN
        ~WellFormed(a) \/ Disposable(a) \/ ~a.labels \/ ~TakesMail(Zone[a.domain])
        \/ verdict.malformed
===============================================================================
