-------------------------- MODULE PreferencesCache --------------------------
(***************************************************************************)
(* The preference store of server/preferences_cache.go: a read-through     *)
(* cache on every node of a Mattermost cluster in front of one shared KV   *)
(* store.  A write removes the key on its own node and asks the others,    *)
(* with a best-effort cluster event, to do the same.  A read that misses   *)
(* installs what it read, unless the node's generation counter moved since *)
(* it began.                                                               *)
(*                                                                         *)
(* A blob is abstracted to its version: the number of writes the KV store  *)
(* had applied to that user when it was stored; 0 is the zero value of a   *)
(* reader who never saved.  Set and Delete are the same to the cache, both *)
(* store a new version.  Every statement between two accesses to shared    *)
(* state is a step of its own, so requests and events interleave anywhere. *)
(***************************************************************************)
EXTENDS Integers, FiniteSets

CONSTANTS
    Node,        \* the servers of the cluster, each with its plugin process
    User,        \* the readers whose blobs are kept
    Req,         \* request goroutines, across the cluster
    Capacity,    \* preferencesCacheSize
    MaxVersion   \* bound on the writes the KV store applies to one user

ASSUME SetsAssumption   == IsFiniteSet(User) /\ User # {}
ASSUME BoundsAssumption == Capacity \in Nat \ {0} /\ MaxVersion \in Nat

Version == Nat
Absent  == -1   \* a key the LRU does not hold

VARIABLES
    kv,          \* the KV store: the version each user's blob is at
    cache,       \* per node and user: the version held, or Absent
    generation,  \* per node: the invalidation counter
    req,         \* the requests in flight
    sent,        \* cluster events published and not yet received
    handling,    \* events between HandleClusterEvent's bump and its Remove
    lost,        \* ghost: per node and user, the newest version whose
                 \* invalidation that node will never hear
    acked        \* ghost: per node and user, the newest write it answered

vars == <<kv, cache, generation, req, sent, handling, lost, acked>>

GetPC   == {"lookup", "generation", "kvget", "fill"}
WritePC == {"kvset", "bump", "remove", "publish"}
PC      == {"done"} \cup GetPC \cup WritePC

Idle    == [pc |-> "idle"]   \* a goroutine that serves no request

Request == [pc : PC, node : Node, user : User,
            started : Nat,      \* Get's `started`
            ver     : Version,  \* the version read, or the version written
            floor   : Version]  \* ghost: acked when the request arrived

Event == [to : Node, user : User, ver : Version]

Max2(a, b) == IF a < b THEN b ELSE a

-----------------------------------------------------------------------------
Init ==
    /\ kv = [u \in User |-> 0]
    /\ cache = [n \in Node |-> [u \in User |-> Absent]]
    /\ generation = [n \in Node |-> 0]
    /\ req = [r \in Req |-> Idle]
    /\ sent = {}
    /\ handling = {}
    /\ lost = [n \in Node |-> [u \in User |-> 0]]
    /\ acked = [n \in Node |-> [u \in User |-> 0]]

At(r, pc) == req[r].pc = pc

Goto(r, pc) == req' = [req EXCEPT ![r] = [@ EXCEPT !.pc = pc]]

\* A Get answers with version v; the answer is kept until it is delivered.
Answer(r, v) ==
    req' = [req EXCEPT ![r] = [@ EXCEPT !.pc = "done", !.ver = v, !.started = 0]]

\* The request is over: a save answered, or an error returned.
End(r) == req' = [req EXCEPT ![r] = Idle]

NoBump(n) == UNCHANGED generation

BumpGeneration(n) == generation' = [generation EXCEPT ![n] = @ + 1]

Remove(n, u) == cache' = [cache EXCEPT ![n][u] = Absent]

\* The invalidation of version v of user u never reaches the nodes in S.
Lose(S, u, v) ==
    lost' = [n \in Node |-> IF n \in S
                            THEN [lost[n] EXCEPT ![u] = Max2(@, v)]
                            ELSE lost[n]]

Held(n) == {u \in User : cache[n][u] # Absent}

-----------------------------------------------------------------------------
(* A request reaches a node and is read as a Get, or a Set or Delete.      *)
Begin(r, n, u, pc) ==
    /\ At(r, "idle")
    /\ req' = [req EXCEPT ![r] = [pc |-> pc, node |-> n, user |-> u,
                                  started |-> 0, ver |-> 0,
                                  floor |-> acked[n][u]]]
    /\ UNCHANGED <<kv, cache, generation, sent, handling, lost, acked>>

Hit(n, u) == cache[n][u] # Absent

(* Get: the cache first.                                                   *)
Lookup(r) ==
    LET n == req[r].node
        u == req[r].user
    IN  /\ At(r, "lookup")
        /\ \/ /\ Hit(n, u)
              /\ Answer(r, cache[n][u])
           \/ /\ ~Hit(n, u)
              /\ Goto(r, "generation")
        /\ UNCHANGED <<kv, cache, generation, sent, handling, lost, acked>>

(* Get: currentGeneration, before the store is read.                       *)
CurrentGeneration(r) ==
    /\ At(r, "generation")
    /\ req' = [req EXCEPT ![r] = [@ EXCEPT !.pc = "kvget",
                                          !.started = generation[req[r].node]]]
    /\ UNCHANGED <<kv, cache, generation, sent, handling, lost, acked>>

(* Get: the KV read.  An error is returned and nothing is cached.          *)
KVGet(r) ==
    /\ At(r, "kvget")
    /\ \/ req' = [req EXCEPT ![r] = [@ EXCEPT !.pc = "fill", !.ver = kv[req[r].user]]]
       \/ End(r)
    /\ UNCHANGED <<kv, cache, generation, sent, handling, lost, acked>>

FillAlways(r) == TRUE

\* No invalidation ran on the node since the read began.
StillCurrent(r) == generation[req[r].node] = req[r].started

HasRoom(n, u) == u \in Held(n) \/ Cardinality(Held(n)) < Capacity

(* fillIfCurrent: check and Add in one critical section.  Adding a key to  *)
(* a full LRU evicts another one; which one, the recency order, is left    *)
(* open.  The value read is returned whether or not it was installed.      *)
FillIfCurrent(r) ==
    LET n == req[r].node
        u == req[r].user
    IN  /\ At(r, "fill")
        /\ Answer(r, req[r].ver)
        /\ \/ /\ ~StillCurrent(r)
              /\ UNCHANGED cache
           \/ /\ StillCurrent(r) /\ HasRoom(n, u)
              /\ cache' = [cache EXCEPT ![n][u] = req[r].ver]
           \/ /\ StillCurrent(r) /\ ~HasRoom(n, u)
              /\ \E victim \in Held(n) :
                    cache' = [cache EXCEPT ![n] =
                                [@ EXCEPT ![victim] = Absent, ![u] = req[r].ver]]
        /\ UNCHANGED <<kv, generation, sent, handling, lost, acked>>

(* Set and Delete: the KV write.  A failed write returns at once, without  *)
(* invalidating anything.  The error of a remote store says nothing about  *)
(* whether the write was applied, so a failed one may have been.           *)
KVWrite(r) ==
    LET u == req[r].user
    IN  /\ At(r, "kvset")
        /\ \/ /\ kv[u] < MaxVersion
              /\ kv' = [kv EXCEPT ![u] = @ + 1]
              /\ req' = [req EXCEPT ![r] = [@ EXCEPT !.pc = "bump", !.ver = kv[u] + 1]]
              /\ UNCHANGED lost
           \/ /\ End(r)
              /\ UNCHANGED <<kv, lost>>
           \/ /\ kv[u] < MaxVersion
              /\ kv' = [kv EXCEPT ![u] = @ + 1]
              /\ End(r)
              /\ Lose(Node, u, kv[u] + 1)
        /\ UNCHANGED <<cache, generation, sent, handling, acked>>

InvalidateWithoutBump(r) ==
    /\ At(r, "bump")
    /\ Goto(r, "remove")
    /\ UNCHANGED <<kv, cache, generation, sent, handling, lost, acked>>

(* invalidate: bumpGeneration, then cache.Remove, then the publish.        *)
InvalidateBump(r) ==
    /\ At(r, "bump")
    /\ BumpGeneration(req[r].node)
    /\ Goto(r, "remove")
    /\ UNCHANGED <<kv, cache, sent, handling, lost, acked>>

InvalidateOthersOnly(r) ==
    /\ At(r, "remove")
    /\ Goto(r, "publish")
    /\ UNCHANGED <<kv, cache, generation, sent, handling, lost, acked>>

InvalidateRemove(r) ==
    /\ At(r, "remove")
    /\ Remove(req[r].node, req[r].user)
    /\ Goto(r, "publish")
    /\ UNCHANGED <<kv, generation, sent, handling, lost, acked>>

(* Best effort: a publish that fails is logged and the save still answers. *)
InvalidatePublish(r) ==
    LET n == req[r].node
        u == req[r].user
        v == req[r].ver
    IN  /\ At(r, "publish")
        /\ \/ /\ sent' = sent \cup [to : Node \ {n}, user : {u}, ver : {v}]
              /\ UNCHANGED lost
           \/ /\ Lose(Node \ {n}, u, v)
              /\ UNCHANGED sent
        /\ acked' = [acked EXCEPT ![n][u] = Max2(@, v)]
        /\ End(r)
        /\ UNCHANGED <<kv, cache, generation, handling>>

(* The answer of a Get is delivered.                                       *)
Finish(r) ==
    /\ At(r, "done")
    /\ End(r)
    /\ UNCHANGED <<kv, cache, generation, sent, handling, lost, acked>>

-----------------------------------------------------------------------------
(* HandleClusterEvent: bump first, Remove second.  Events arrive in any    *)
(* order, and other requests run between the two.                          *)
HandleBump(e) ==
    /\ e \in sent
    /\ sent' = sent \ {e}
    /\ handling' = handling \cup {e}
    /\ BumpGeneration(e.to)
    /\ UNCHANGED <<kv, cache, req, lost, acked>>

HandleRemove(e) ==
    /\ e \in handling
    /\ handling' = handling \ {e}
    /\ Remove(e.to, e.user)
    /\ UNCHANGED <<kv, generation, req, sent, lost, acked>>

(* Best-effort delivery drops an event.                                    *)
DropEvent(e) ==
    /\ e \in sent
    /\ sent' = sent \ {e}
    /\ Lose({e.to}, e.user, e.ver)
    /\ UNCHANGED <<kv, cache, generation, req, handling, acked>>

NeverExpire(n, u) == FALSE /\ UNCHANGED vars

(* The entry's TTL runs out.                                               *)
Expire(n, u) ==
    /\ cache[n][u] # Absent
    /\ Remove(n, u)
    /\ UNCHANGED <<kv, generation, req, sent, handling, lost, acked>>

(* The plugin process of a node stops and OnActivate builds an empty store *)
(* with a fresh counter.  Requests running there are gone: a save cut off  *)
(* between its KV write and its publish is never announced to anyone.      *)
Running(r, n) == req[r].pc # "idle" /\ req[r].node = n

Unannounced(n, u) ==
    \E r \in Req : /\ req[r].pc \in {"bump", "remove", "publish"}
                   /\ req[r].node = n
                   /\ req[r].user = u

Restart(n) ==
    /\ cache' = [cache EXCEPT ![n] = [u \in User |-> Absent]]
    /\ generation' = [generation EXCEPT ![n] = 0]
    /\ req' = [r \in Req |-> IF Running(r, n) THEN Idle ELSE req[r]]
    /\ handling' = {e \in handling : e.to # n}
    /\ lost' = [m \in Node |-> [u \in User |->
                   IF m # n /\ Unannounced(n, u)
                   THEN kv[u] ELSE lost[m][u]]]
    /\ UNCHANGED <<kv, sent, acked>>

-----------------------------------------------------------------------------
ReqStep(r) ==
    \/ Lookup(r) \/ CurrentGeneration(r) \/ KVGet(r) \/ FillIfCurrent(r)
    \/ KVWrite(r) \/ InvalidateBump(r) \/ InvalidateRemove(r)
    \/ InvalidatePublish(r) \/ Finish(r)

Next ==
    \/ \E r \in Req, n \in Node, u \in User, pc \in {"lookup", "kvset"} :
          Begin(r, n, u, pc)
    \/ \E r \in Req : ReqStep(r)
    \/ \E e \in sent : HandleBump(e) \/ DropEvent(e)
    \/ \E e \in handling : HandleRemove(e)
    \/ \E n \in Node, u \in User : Expire(n, u)
    \/ \E n \in Node : Restart(n)

Spec == Init /\ [][Next]_vars

(* A goroutine that can run does, an event that was bumped is removed, and *)
(* the LRU's clock runs.  Nothing says that an event is delivered, that a  *)
(* request is made or that a node restarts.                                *)
Fairness ==
    /\ \A r \in Req : WF_vars(ReqStep(r))
    /\ \A n \in Node, u \in User : WF_vars(Expire(n, u))
    /\ WF_vars(\E e \in handling : HandleRemove(e))

FairSpec == Spec /\ Fairness

-----------------------------------------------------------------------------
TypeOK ==
    /\ kv \in [User -> Version]
    /\ cache \in [Node -> [User -> Version \cup {Absent}]]
    /\ generation \in [Node -> Nat]
    /\ req \in [Req -> Request \cup {Idle}]
    /\ sent \subseteq Event
    /\ handling \subseteq Event
    /\ lost \in [Node -> [User -> Version]]
    /\ acked \in [Node -> [User -> Version]]

\* A write of u newer than v whose bump at node n is still to come.
BumpAhead(n, u, v) ==
    \/ \E r \in Req : /\ req[r].pc \in {"bump", "remove", "publish"}
                      /\ req[r].user = u /\ req[r].ver > v
                      /\ req[r].node = n => req[r].pc = "bump"
    \/ \E e \in sent : e.to = n /\ e.user = u /\ e.ver > v

\* The same, for its Remove.
RemoveAhead(n, u, v) ==
    \/ BumpAhead(n, u, v)
    \/ \E r \in Req : /\ req[r].pc = "remove"
                      /\ req[r].user = u /\ req[r].ver > v
                      /\ req[r].node = n
    \/ \E e \in handling : e.to = n /\ e.user = u /\ e.ver > v

(* No node holds an out-of-date blob unless the invalidation that removes  *)
(* it is still on its way or was lost: a read slower than a write never    *)
(* installs, behind the write's Remove, the value it replaced (the race    *)
(* that Get, fillIfCurrent and bumpGeneration are written to close).       *)
StaleOnlyWhileInvalidating ==
    \A n \in Node, u \in User :
        cache[n][u] # Absent /\ cache[n][u] < kv[u] =>
            RemoveAhead(n, u, cache[n][u]) \/ lost[n][u] > cache[n][u]

(* A reader sees on the node that saved what that node saved: a Get that   *)
(* arrives after a Set was answered there returns that version or a newer  *)
(* one, whatever cluster events were lost, delayed or reordered, and       *)
(* across a restart.                                                       *)
ReadsOwnNodesWrites ==
    \A r \in Req : At(r, "done") => req[r].ver >= req[r].floor

(* An entry the node's own save replaced does not come back: once a Set    *)
(* was answered on a node, its cache never again holds an older blob.      *)
AnsweredWriteIsNeverUncached ==
    \A n \in Node, u \in User :
        cache[n][u] # Absent => cache[n][u] >= acked[n][u]

-----------------------------------------------------------------------------
(* The strengthening that makes the three invariants above inductive.      *)

\* Nothing is newer than the store, and no read is from the future.
EntryOrdered(n, u) == cache[n][u] <= kv[u] /\ acked[n][u] <= kv[u]

RequestOrdered(r) ==
    req[r].pc # "idle" =>
        /\ req[r].ver <= kv[req[r].user]
        /\ req[r].floor <= acked[req[r].node][req[r].user]
        /\ req[r].pc \in {"kvget", "fill"} =>
              req[r].started <= generation[req[r].node]

VersionsOrdered ==
    /\ \A n \in Node, u \in User : EntryOrdered(n, u)
    /\ \A r \in Req : RequestOrdered(r)

\* A read that would still be installed holds the stored version, or one
\* whose invalidation has its bump still to come or was lost ...
Installs(r) == At(r, "fill") /\ StillCurrent(r)

FillCurrent(r) ==
    LET n == req[r].node
        u == req[r].user
        v == req[r].ver
    IN  Installs(r) /\ v < kv[u] => BumpAhead(n, u, v) \/ lost[n][u] > v

\* ... and nothing its own node has already invalidated or answered.
Invalidated(w, n, u) == /\ req[w].pc \in {"remove", "publish"}
                        /\ req[w].node = n
                        /\ req[w].user = u

FillSettled(r) ==
    LET n == req[r].node
        u == req[r].user
        v == req[r].ver
    IN  Installs(r) => /\ v >= acked[n][u]
                       /\ \A w \in Req : Invalidated(w, n, u) => v >= req[w].ver

CacheSettled(w) ==
    LET held == cache[req[w].node][req[w].user]
    IN  At(w, "publish") /\ held # Absent => held >= req[w].ver

ReadSettled(r) == At(r, "fill") => req[r].ver >= req[r].floor

IInv ==
    /\ TypeOK
    /\ VersionsOrdered
    /\ \A r \in Req : /\ FillCurrent(r)
                     /\ FillSettled(r)
                     /\ CacheSettled(r)
                     /\ ReadSettled(r)
    /\ StaleOnlyWhileInvalidating
    /\ ReadsOwnNodesWrites
    /\ AnsweredWriteIsNeverUncached

-----------------------------------------------------------------------------
(* Once writes stop, every node ends up with the stored blob or none, even *)
(* when every cluster event is lost: expiry is the backstop.               *)
Converges ==
    <>[](\A n \in Node, u \in User : cache[n][u] \in {Absent, kv[u]})

-----------------------------------------------------------------------------
\* What a request looks like to its caller.
Op(pc) == CASE pc \in GetPC -> "get"
            [] pc = "kvset"  -> "save"
            [] pc = "done"   -> "answered"
            [] OTHER         -> "stored"

CallOf(q) ==
    IF q = Idle THEN [op |-> "none"]
    ELSE [op |-> Op(q.pc), node |-> q.node, user |-> q.user, floor |-> q.floor,
          ver |-> IF Op(q.pc) = "get" THEN 0 ELSE q.ver]

Promise == INSTANCE PreferencesPromise
               WITH stored <- kv, call <- [r \in Req |-> CallOf(req[r])]

(* The cluster of caches is one store that may answer a Get with an old    *)
(* version, but never one older than a save the same node had answered.    *)
ImplementsPromise == Promise!Spec
=============================================================================
