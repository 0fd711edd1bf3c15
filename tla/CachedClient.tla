---------------------------- MODULE CachedClient ----------------------------
(***************************************************************************)
(* The answers a tab keeps for the tokens a reader hovers and opens:       *)
(* webapp/src/decorators/cached_client.ts, which the airport, cyber and    *)
(* aviation panels share, and its older sibling for coordinates in         *)
(* decorators/location/convert.ts.  A module-level cache and one request   *)
(* per token on one side; on the other the hook of every mounted           *)
(* component, whose effect runs some time after the render it belongs to.  *)
(*                                                                         *)
(* A token is its cache key.  What settles in one microtask is one step;   *)
(* renders, effects and replies interleave.                                *)
(***************************************************************************)
EXTENDS Integers, Sequences, FiniteSets, SequencesExt

CONSTANTS
    Key,        \* cache keys
    Component,  \* mounted panels and hover cards
    MaxCached,  \* MAX_CACHED_ANSWERS
    Expires     \* whether answers age: cached_client.ts, not convert.ts

BoundsAssumption == MaxCached \in Nat \ {0} /\ Expires \in BOOLEAN

Verdict == {"ready", "rejected"}   \* what the server decided
Outcome == Verdict \cup {"failed"}

VARIABLES
    answers,   \* the cache, in insertion order
    inflight,  \* the keys a request is under way for
    comp       \* the components' hook state

vars == <<answers, inflight, comp>>

Cached == [key : Key, status : Outcome, young : BOOLEAN]

CompRec == [mounted : BOOLEAN,
            key     : Key,       \* the payload of the last render
            shown   : [key : Key, status : Outcome \cup {"loading"}],
            pending : BOOLEAN,   \* rendered with a new key, its effect not yet run
            live    : SUBSET Key] \* the request whose reply may still set the state

Unmounted == [mounted |-> FALSE, key |-> CHOOSE k \in Key : TRUE,
              shown |-> [key |-> CHOOSE k \in Key : TRUE, status |-> "loading"],
              pending |-> FALSE, live |-> {}]

-----------------------------------------------------------------------------
Init ==
    /\ answers = <<>>
    /\ inflight = {}
    /\ comp = [c \in Component |-> Unmounted]

Without(k) == SelectSeq(answers, LAMBDA a : a.key # k)

FreshAnswers(k) == {a \in ToSet(answers) : a.key = k /\ a.young}

\* fresh(key) ?? loading.
FromCache(k) ==
    IF FreshAnswers(k) = {}
    THEN [key |-> k, status |-> "loading"]
    ELSE [key |-> k, status |-> (CHOOSE a \in FreshAnswers(k) : TRUE).status]

(* A component mounts, or is rendered for another token: the state is      *)
(* reset during render.                                                    *)
Render(c, k) ==
    /\ ~comp[c].mounted \/ comp[c].key # k
    /\ comp' = [comp EXCEPT ![c] = [@ EXCEPT !.mounted = TRUE, !.key = k,
                                            !.shown = FromCache(k), !.pending = TRUE]]
    /\ UNCHANGED <<answers, inflight>>

BailOut(c) == comp' = [comp EXCEPT ![c] = [@ EXCEPT !.pending = FALSE, !.live = {}]]

\* An answer that landed between the render and the effect is adopted.
Adopt(c) ==
    comp' = [comp EXCEPT ![c] = [@ EXCEPT !.pending = FALSE, !.live = {},
                                         !.shown = FromCache(comp[c].key)]]

(* useEffect: the cleanup of the effect before it, then the cache again,   *)
(* and a request, which joins the one in flight for the same token.        *)
Effect(c) ==
    LET k == comp[c].key
    IN  /\ comp[c].mounted /\ comp[c].pending
        /\ \/ /\ FreshAnswers(k) # {}
              /\ Adopt(c)
              /\ UNCHANGED <<answers, inflight>>
           \/ /\ FreshAnswers(k) = {}
              /\ answers' = Without(k)
              /\ inflight' = inflight \cup {k}
              /\ comp' = [comp EXCEPT ![c] = [@ EXCEPT !.pending = FALSE, !.live = {k}]]

Unmount(c) ==
    /\ comp[c].mounted
    /\ comp' = [comp EXCEPT ![c] = Unmounted]
    /\ UNCHANGED <<answers, inflight>>

Remembered(status) == status \in Verdict

\* Evicted in insertion order.
Trim(s) == IF Len(s) > MaxCached THEN Tail(s) ELSE s

Remember(k, status) ==
    answers' = IF Remembered(status)
               THEN Trim(Append(Without(k), [key |-> k, status |-> status, young |-> TRUE]))
               ELSE answers

(* The reply, a refusal, or the abort after fetchTimeoutMs: the answer is  *)
(* remembered, and every live effect that waits for it sets its state.     *)
Settle(k, status) ==
    /\ k \in inflight
    /\ inflight' = inflight \ {k}
    /\ Remember(k, status)
    /\ comp' = [c \in Component |->
                  IF k \in comp[c].live
                  THEN [comp[c] EXCEPT !.shown = [key |-> k, status |-> status], !.live = {}]
                  ELSE comp[c]]

(* CACHE_TTL_MS passes for an answer.                                      *)
Age(i) ==
    /\ Expires
    /\ i \in DOMAIN answers /\ answers[i].young
    /\ answers' = [answers EXCEPT ![i] = [@ EXCEPT !.young = FALSE]]
    /\ UNCHANGED <<inflight, comp>>

Next ==
    \/ \E c \in Component : Effect(c) \/ Unmount(c) \/ \E k \in Key : Render(c, k)
    \/ \E k \in Key, status \in Outcome : Settle(k, status)
    \/ \E i \in 1 .. MaxCached : Age(i)

Spec == Init /\ [][Next]_vars

(* React runs every effect, and the abort timer settles every request.     *)
Fairness ==
    /\ \A c \in Component : WF_vars(Effect(c))
    /\ \A k \in Key : WF_vars(\E status \in Outcome : Settle(k, status))

-----------------------------------------------------------------------------
TypeOK ==
    /\ answers \in Seq(Cached)
    /\ inflight \subseteq Key
    /\ comp \in [Component -> CompRec]

\* A component whose effect has run shows its own token's answer or waits,
\* alive, for a request in flight.
NoDeadWait ==
    TypeOK /\ \A c \in Component :
        LET q == comp[c]
        IN  /\ q.mounted /\ ~q.pending
            /\ q.shown.status = "loading" \/ q.shown.key # q.key
            => q.key \in q.live \cap inflight

(* What convert.ts says: a reply arriving after the reader has clicked a   *)
(* second token is not written onto the first one's successor.             *)
ShowsItsOwnToken == \A c \in Component : comp[c].mounted => comp[c].shown.key = comp[c].key

Answered(c, k) ==
    comp[c].mounted /\ comp[c].key = k =>
        comp[c].shown.key = k /\ comp[c].shown.status # "loading"

(* A panel that stays on a token ends up showing that token's answer, and  *)
(* none ever waits for a reply that is not coming.                         *)
EveryPanelIsAnswered == ~<>(~NoDeadWait) /\ \A c \in Component, k \in Key : []<>Answered(c, k)
=============================================================================
