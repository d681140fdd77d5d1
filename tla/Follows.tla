------------------------------ MODULE Follows -------------------------------
(* Following entities (pages/follow.rs, db/follows.rs) and the personal feed *)
(* built from what an account follows (follows.rs feed, pages/feed.rs).      *)
(* A click reads whether the account follows and then writes the opposite,   *)
(* so that two clicks race; content is added beside.                         *)
(* A definition named after another with a suffix is a mistake one could     *)
(* make there; a property must tell it from the code.                        *)
EXTENDS Naturals, Sequences, SequencesExt, Lists, FiniteSets

CONSTANTS
    Entities,     \* whom an account may follow
    Content,      \* what editors may add: [kind, about, date, placed], date 0 if unknown;
                  \* placed: a country is behind it, for the link
    Clicks,       \* slots for toggle requests
    FeedLimit,    \* items of a feed, 40 in the code
    MaxContent,   \* bound on the content of an instance
    MaxClicks     \* bound on the toggles of a behaviour

(* Dates are days; limits are sizes.                                         *)
ASSUME FollowsAssumption ==
    /\ \A x \in Content : x.date \in Nat
    /\ {FeedLimit, MaxContent, MaxClicks} \subseteq Nat

VARIABLES
    follows,    \* the entities the account follows
    content,    \* Seq(Content); an id is a position
    click,      \* [Clicks -> the entity and what was read]
    button,     \* what the page shows of each entity: following or not
    clicked     \* how many clicks began

followsVars == <<follows, content, click, button, clicked>>

NoClick == [at |-> "idle"]
FollowsTypeOK ==
    /\ follows \subseteq Entities /\ button \in [Entities -> BOOLEAN]
    /\ content \in Seq(Content) /\ Len(content) <= MaxContent
    /\ \A c \in Clicks :
          click[c] = NoClick \/ (click[c].of \in Entities /\ click[c].was \in BOOLEAN)
    /\ clicked \in 0..MaxClicks

FollowsInit ==
    /\ follows = {} /\ content = <<>>
    /\ click = [c \in Clicks |-> NoClick]
    /\ button = [e \in Entities |-> FALSE]
    /\ clicked = 0

-----------------------------------------------------------------------------
(* toggle: two statements, then the button.  Both writes are idempotent.     *)

IsFollowing(c, e) ==
    /\ click[c] = NoClick /\ clicked < MaxClicks
    /\ click' = [click EXCEPT ![c] = [at |-> "read", of |-> e, was |-> e \in follows]]
    /\ clicked' = clicked + 1
    /\ UNCHANGED <<follows, content, button>>

Toggle(c) ==
    /\ click[c] # NoClick /\ click[c].at = "read"
    /\ follows' = IF click[c].was THEN follows \ {click[c].of} ELSE follows \cup {click[c].of}
    /\ click' = [click EXCEPT ![c].at = "answer"]
    /\ UNCHANGED <<content, button, clicked>>

AnswerClick(c) ==
    /\ click[c] # NoClick /\ click[c].at = "answer"
    /\ button' = [button EXCEPT ![click[c].of] = ~click[c].was]
    /\ click' = [click EXCEPT ![c] = NoClick]
    /\ UNCHANGED <<follows, content, clicked>>

(* The client goes away: what was written stays, the page keeps its button.  *)
LeaveClick(c) ==
    /\ click[c] # NoClick
    /\ click' = [click EXCEPT ![c] = NoClick]
    /\ UNCHANGED <<follows, content, button, clicked>>

AddContent ==
    /\ Len(content) < MaxContent
    /\ \E x \in Content : content' = Append(content, x)
    /\ UNCHANGED <<follows, click, button, clicked>>

FollowsNext ==
    \/ \E c \in Clicks :
          \/ \E e \in Entities : IsFollowing(c, e)
          \/ Toggle(c) \/ AnswerClick(c) \/ LeaveClick(c)
    \/ AddContent

FollowsSpec == FollowsInit /\ [][FollowsNext]_followsVars

-----------------------------------------------------------------------------
(* The feed: three queries, each with its own order and limit, merged by     *)
(* date with the undated last (a stable sort), then cut.                     *)

(* Articles and elections join their country in the query; polls need not.   *)
Matching(kind) == {i \in DOMAIN content :
                      /\ content[i].kind = kind /\ content[i].about \cap follows # {}
                      /\ kind # "poll" => content[i].placed}
Capped(s) == SubSeq(s, 1, IF Len(s) < FeedLimit THEN Len(s) ELSE FeedLimit)
NewerItemById(i, j) == i > j
NewerItem(i, j) ==
    content[i].date > content[j].date \/ (content[i].date = content[j].date /\ i > j)
NewestItems(S) == Capped(Listed(S, {x \in S \X S : NewerItem(x[1], x[2])}))
(* A poll without a country takes a place under the limit and is dropped.    *)
PollsRead == ToSet(NewestItems(Matching("poll")))
FollowedPolls == NewestItems({i \in PollsRead : content[i].placed})
FollowedElections == NewestItems(Matching("election"))
(* select distinct on (n.id) .. order by n.id .. limit: by id, not by date.  *)
FollowedNews ==
    LET S == Matching("news") IN Capped(Listed(S, {x \in S \X S : x[1] < x[2]}))

(* all[k] goes before all[l].                                                *)
MergedBefore(all, k, l) ==
    \/ content[all[k]].date > content[all[l]].date
    \/ content[all[k]].date = content[all[l]].date /\ k < l
Feed ==
    LET all == FollowedPolls \o FollowedNews \o FollowedElections
        places == DOMAIN all
        order == Listed(places, {x \in places \X places : MergedBefore(all, x[1], x[2])})
    IN  Capped([k \in DOMAIN order |-> all[order[k]]])

-----------------------------------------------------------------------------
(* Properties.                                                               *)

(* The feed repeats nothing, shows only what has a page and is about a       *)
(* followed entity, newest first.  It leaves an election out only when it is *)
(* full of items that are not older, and a poll only when such items and     *)
(* such polls without a page together reach the limit.                       *)
NoOlder(S, i) == {j \in S : content[j].date >= content[i].date}
FeedInOrder ==
    /\ \A k, l \in DOMAIN Feed :
          /\ k # l => Feed[k] # Feed[l]
          /\ k < l => content[Feed[k]].date >= content[Feed[l]].date
    /\ \A k \in DOMAIN Feed :
          content[Feed[k]].placed /\ content[Feed[k]].about \cap follows # {}
    /\ \A i \in Matching("election") \ ToSet(Feed) :
          /\ Len(Feed) = FeedLimit
          /\ \A k \in DOMAIN Feed : content[Feed[k]].date >= content[i].date
    /\ LET unplaced == {j \in Matching("poll") : ~content[j].placed}
       IN  \A i \in Matching("poll") \ (ToSet(Feed) \cup unplaced) :
              Cardinality(NoOlder(ToSet(Feed) \cup unplaced, i)) >= FeedLimit

(* The comment of feed: recent polls, news and elections, newest first,      *)
(* capped at the limit, so that nothing in it is older than what is left out.*)
NewestFirst ==
    \A i \in DOMAIN content : content[i].about \cap follows # {} /\ i \notin ToSet(Feed) =>
        \A k \in DOMAIN Feed : content[Feed[k]].date >= content[i].date
=============================================================================
