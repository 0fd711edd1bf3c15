------------------------------ MODULE BridgeLinks ------------------------------
(***************************************************************************)
(* The links another plugin asks this one for: webapp/src/bridge/client.ts *)
(* (the calls, their deadline, the cache they share) and bridge/Link.tsx   *)
(* (the component that shows one). Promise callbacks run before anything   *)
(* else of the tab does, so an answer and what follows from it are one     *)
(* action; between a render and its effect, and between a call and its     *)
(* answer, anything may happen.                                            *)
(***************************************************************************)
EXTENDS Integers, Sequences, FiniteSets, SequencesExt

CONSTANTS
    Hosts,            \* the <Link> elements a host plugin renders
    Requests,         \* [type, token, label, reference]: what one can ask for
    Answers,          \* [kind, wire, reason]: what a call can come back with
    LINK_CACHE_LIMIT,
    LINK_CACHE_TTL,
    MaxCalls,         \* bound on the calls made
    MaxTime           \* bound on the clock

ASSUME BridgeAssumption ==
    LINK_CACHE_LIMIT \in Nat /\ LINK_CACHE_TTL \in Nat /\ MaxCalls \in Nat /\ MaxTime \in Nat

VARIABLES
    now,      \* the clock
    cache,    \* linkCache, as the sequence of its [key, at, call] in insertion order
    calls,    \* every call: [request, at, settled], settled = "" until it is answered
    elements  \* each element: [mounted, request, due, asked, awaiting, settled]; due until
              \* the effect of its last request has run; the live effect closed over
              \* the request asked, and holds the callbacks of the call awaiting, or 0

bridge_vars == <<now, cache, calls, elements>>

NoRequest == [type |-> "", token |-> "", label |-> "", reference |-> <<>>]
Unsettled == [request |-> NoRequest, status |-> "", of |-> NoRequest]
Unmounted == [mounted |-> FALSE, request |-> NoRequest, due |-> FALSE,
              asked |-> NoRequest, awaiting |-> 0, settled |-> Unsettled]

LinksInit ==
    now = 0 /\ cache = <<>> /\ calls = <<>> /\ elements = [h \in Hosts |-> Unmounted]

-----------------------------------------------------------------------------
\* toMillis, of a reference in halves of a millisecond (<<>> is none): what is
\* not a positive number is left to the server.
ToMillis(reference) ==
    IF reference = <<>> \/ reference[1] <= 0 THEN <<>> ELSE <<reference[1] \div 2>>

Key(request) == [request EXCEPT !.reference = ToMillis(@)]

\* readLink and errorFrom: only a refusal whose reason this build knows is an
\* answer; a body that is no link, and every other status, is a failure.
Outcome(answer) ==
    CASE answer.kind = "ok" /\ answer.wire = "link" -> "linked"
      [] answer.kind = "refused" /\ answer.reason \in {"unknown_type", "not_recognized", "disabled"} -> "declined"
      [] OTHER -> "failed"

Cached(request) == {i \in DOMAIN cache : cache[i].key = Key(request)}

\* Map.delete: the entry of a key, if it has one.
Without(key) ==
    IF \E i \in DOMAIN cache : cache[i].key = key
    THEN RemoveAt(cache, CHOOSE i \in DOMAIN cache : cache[i].key = key) ELSE cache

\* evictOldest.
Bounded(entries) ==
    IF Len(entries) > LINK_CACHE_LIMIT
    THEN SubSeq(entries, Len(entries) - LINK_CACHE_LIMIT + 1, Len(entries))
    ELSE entries

Fresh(request) == \E i \in Cached(request) : now - cache[i].at < LINK_CACHE_TTL
FreshCall(request) == cache[CHOOSE i \in Cached(request) : TRUE].call

(* link(): a fresh entry's promise, answered or not, or else a new call that *)
(* goes to the end of the cache in the place of the old one.                *)
Ask(request) ==
    IF Fresh(request) THEN UNCHANGED <<cache, calls>>
    ELSE /\ Len(calls) < MaxCalls
         /\ calls' = Append(calls, [request |-> request, at |-> now, settled |-> ""])
         /\ cache' = Bounded(Append(Without(Key(request)),
                                    [key |-> Key(request), at |-> now, call |-> Len(calls) + 1]))

\* The call a request has just been given.
Given(request) == IF Fresh(request) THEN FreshCall(request) ELSE Len(calls) + 1

(* link() with a signal, and decorate(): a call of its own, never cached.   *)
AskAlone(request) ==
    /\ Len(calls) < MaxCalls
    /\ calls' = Append(calls, [request |-> request, at |-> now, settled |-> ""])
    /\ UNCHANGED <<now, cache, elements>>

\* What a settled call leaves of the cache: a failure takes its own entry away.
Kept(call, outcome) ==
    LET key == Key(calls[call].request)
    IN  IF outcome = "failed" /\ \E i \in DOMAIN cache : cache[i].key = key /\ cache[i].call = call
        THEN Without(key) ELSE cache

\* An element whose effect still holds the call hears of it, as the answer to
\* what that effect asked, whatever has been rendered since.
Heard(element, call, outcome) ==
    IF element.mounted /\ element.awaiting = call
    THEN [element EXCEPT !.awaiting = 0,
             !.settled = [request |-> element.asked,
                          status |-> IF outcome = "linked" THEN "linked" ELSE "declined",
                          of |-> calls[call].request]]
    ELSE element

Settle(call, outcome) ==
    /\ calls[call].settled = ""
    /\ calls' = [calls EXCEPT ![call].settled = outcome]
    /\ cache' = Kept(call, outcome)
    /\ elements' = [h \in Hosts |-> Heard(elements[h], call, outcome)]
    /\ UNCHANGED now

(* The server answers, or the deadline or the caller's signal aborts.       *)
Answered(call, answer) == Settle(call, Outcome(answer))
Aborted(call) == Settle(call, "failed")

-----------------------------------------------------------------------------
(* An element is rendered for the first time or with other props, after the *)
(* effects of its last render.  The effect of the request before is live    *)
(* until the one of this render runs.                                       *)
Render(h, request) ==
    /\ ~elements[h].mounted \/ elements[h].request # request
    /\ ~elements[h].due
    /\ elements' = [elements EXCEPT ![h] = [@ EXCEPT !.mounted = TRUE, !.request = request, !.due = TRUE]]
    /\ UNCHANGED <<now, cache, calls>>

(* The cleanup lets go of the call before, and the effect asks; a promise   *)
(* that is settled already answers it at once.                              *)
Effect(h) ==
    LET request == elements[h].request
        call == Given(request)
        waiting == [elements[h] EXCEPT !.due = FALSE, !.asked = request, !.awaiting = call]
    IN  /\ elements[h].due
        /\ Ask(request)
        /\ elements' = [elements EXCEPT ![h] =
               IF call <= Len(calls) /\ calls[call].settled # ""
               THEN Heard(waiting, call, calls[call].settled) ELSE waiting]
        /\ UNCHANGED now

Unmount(h) ==
    /\ elements[h].mounted
    /\ elements' = [elements EXCEPT ![h] = Unmounted]
    /\ UNCHANGED <<now, cache, calls>>

Tick == now < MaxTime /\ now' = now + 1 /\ UNCHANGED <<cache, calls, elements>>

LinksNext ==
    \/ \E h \in Hosts : Effect(h) \/ Unmount(h) \/ \E request \in Requests : Render(h, request)
    \/ \E request \in Requests : AskAlone(request)
    \/ \E call \in DOMAIN calls : Aborted(call) \/ \E answer \in Answers : Answered(call, answer)
    \/ Tick

LinksSpec == LinksInit /\ [][LinksNext]_bridge_vars

-----------------------------------------------------------------------------
\* Whatever came last, whichever request it answers.
AnyAnswer(element) == element.settled # Unsettled

\* The settled answer is of what is asked for now.
Current(element) == element.settled # Unsettled /\ element.settled.request = element.request

\* What an element draws: its settled answer, when that is of its request.
Drawn(element) ==
    IF Current(element) THEN element.settled
    ELSE [request |-> element.request, status |-> "loading", of |-> NoRequest]

(* Whatever was asked before and however late it is answered, also between  *)
(* a render and its effect, an element draws the answer to what it asks for *)
(* now or says that it has none yet, and when it says so the effect that    *)
(* will ask is due or the call it waits for is under way (Link.tsx). The    *)
(* promises the elements share through the cache are bounded in number and  *)
(* in age, one for a key, and never a failed one (client.ts).               *)
LinksTellTheTruth ==
    /\ \A h \in Hosts : elements[h].mounted =>
           LET drawn == Drawn(elements[h])
           IN  /\ drawn.status \in {"linked", "declined"} => Key(drawn.of) = Key(elements[h].request)
               /\ drawn.status = "loading" => elements[h].due \/ calls[elements[h].awaiting].settled = ""
    /\ Len(cache) <= LINK_CACHE_LIMIT
    /\ \A i \in DOMAIN cache :
           /\ \A j \in DOMAIN cache : cache[i].key = cache[j].key => i = j
           /\ Key(calls[cache[i].call].request) = cache[i].key /\ calls[cache[i].call].at = cache[i].at
           /\ calls[cache[i].call].settled # "failed"
=============================================================================
