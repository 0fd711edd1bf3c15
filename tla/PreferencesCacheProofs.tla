----------------------- MODULE PreferencesCacheProofs -----------------------
(***************************************************************************)
(* Proofs about PreferencesCache, for any set of nodes and requests, any   *)
(* finite set of users and any capacity and bound on the writes.           *)
(***************************************************************************)
EXTENDS PreferencesCache, FiniteSetTheorems, TLAPS

LEMMA RequestType ==
    ASSUME TypeOK, NEW r \in Req, req[r].pc # "idle"
    PROVE  /\ req[r] \in Request
           /\ req[r].node \in Node
           /\ req[r].user \in User
           /\ req[r].ver \in Nat
           /\ req[r].started \in Nat
           /\ req[r].floor \in Nat
<1>1. req[r] \in Request
      BY DEF TypeOK, Idle
<1>. QED BY <1>1 DEF Request, Version

(* What the handlers do to a request keeps it one.                         *)
LEMMA Updates ==
    ASSUME NEW q \in Request, NEW pc \in PC, NEW v \in Nat, NEW g \in Nat
    PROVE  /\ [q EXCEPT !.pc = pc] \in Request
           /\ [q EXCEPT !.pc = pc, !.ver = v] \in Request
           /\ [q EXCEPT !.pc = pc, !.started = g] \in Request
           /\ [q EXCEPT !.pc = pc, !.ver = v, !.started = g] \in Request
  BY DEF Request, Version

LEMMA PCs ==
    /\ GetPC \subseteq PC
    /\ WritePC \subseteq PC
    /\ {"done", "lookup", "generation", "kvget", "fill"} \subseteq PC
    /\ {"kvset", "bump", "remove", "publish"} \subseteq PC
  BY DEF PC, GetPC, WritePC

(* Losing an invalidation only ever raises what a node will not hear.      *)
LEMMA LoseFacts ==
    ASSUME TypeOK, NEW S, NEW u \in User, NEW v \in Nat, Lose(S, u, v)
    PROVE  /\ lost' \in [Node -> [User -> Version]]
           /\ \A n \in Node, w \in User : lost'[n][w] >= lost[n][w]
           /\ \A n \in Node : n \in S => lost'[n][u] >= v
<1>1. ASSUME NEW n \in Node
      PROVE  /\ lost'[n] \in [User -> Nat]
             /\ \A w \in User : lost'[n][w] >= lost[n][w]
             /\ n \in S => lost'[n][u] >= v
      <2>1. lost[n] \in [User -> Nat]
            BY DEF TypeOK, Version
      <2>2. lost'[n] = IF n \in S THEN [lost[n] EXCEPT ![u] = Max2(@, v)]
                                  ELSE lost[n]
            BY DEF Lose
      <2>. QED BY <2>1, <2>2 DEF Max2
<1>2. lost' = [n \in Node |-> lost'[n]]
      BY DEF Lose
<1>3. lost' \in [Node -> [User -> Nat]]
      BY <1>1, <1>2
<1>. QED BY <1>1, <1>3 DEF Version

(* Every step of the cluster keeps each variable within its type.          *)
LEMMA TypeOKInductive == TypeOK /\ [Next]_vars => TypeOK'
<1> SUFFICES ASSUME TypeOK, [Next]_vars PROVE TypeOK'
    OBVIOUS
<1> USE DEF TypeOK, Version, Absent
<1>1. ASSUME NEW r \in Req, NEW n \in Node, NEW u \in User,
             NEW pc \in {"lookup", "kvset"}, Begin(r, n, u, pc)
      PROVE  TypeOK'
      BY <1>1, PCs DEF Begin, Request
<1>2. ASSUME NEW r \in Req, Lookup(r) PROVE TypeOK'
      <2>1. req[r] \in Request /\ req[r].node \in Node /\ req[r].user \in User
            BY <1>2, RequestType DEF Lookup, At
      <2>2. CASE Hit(req[r].node, req[r].user)
            <3>1. cache[req[r].node][req[r].user] \in Nat
                  BY <2>1, <2>2 DEF Hit
            <3>2. [req[r] EXCEPT !.pc = "done",
                                 !.ver = cache[req[r].node][req[r].user],
                                 !.started = 0] \in Request
                  BY <2>1, <3>1, Updates, PCs
            <3>. QED BY <1>2, <2>2, <3>2 DEF Lookup, Answer
      <2>3. CASE ~Hit(req[r].node, req[r].user)
            <3>1. [req[r] EXCEPT !.pc = "generation"] \in Request
                  BY <2>1, Updates, PCs
            <3>. QED BY <1>2, <2>3, <3>1 DEF Lookup, Goto
      <2>. QED BY <2>2, <2>3
<1>3. ASSUME NEW r \in Req, CurrentGeneration(r) PROVE TypeOK'
      <2>1. req[r] \in Request /\ req[r].node \in Node
            BY <1>3, RequestType DEF CurrentGeneration, At
      <2>2. [req[r] EXCEPT !.pc = "kvget",
                           !.started = generation[req[r].node]] \in Request
            BY <2>1, Updates, PCs
      <2>. QED BY <1>3, <2>2 DEF CurrentGeneration
<1>4. ASSUME NEW r \in Req, KVGet(r) PROVE TypeOK'
      <2>1. req[r] \in Request /\ req[r].user \in User
            BY <1>4, RequestType DEF KVGet, At
      <2>2. [req[r] EXCEPT !.pc = "fill", !.ver = kv[req[r].user]] \in Request
            BY <2>1, Updates, PCs
      <2>. QED BY <1>4, <2>2 DEF KVGet, End
<1>5. ASSUME NEW r \in Req, FillIfCurrent(r) PROVE TypeOK'
      <2>1. /\ req[r] \in Request /\ req[r].node \in Node
            /\ req[r].user \in User /\ req[r].ver \in Nat
            BY <1>5, RequestType DEF FillIfCurrent, At
      <2>2. [req[r] EXCEPT !.pc = "done", !.ver = req[r].ver, !.started = 0]
                \in Request
            BY <2>1, Updates, PCs
      <2>3. req' \in [Req -> Request \cup {Idle}]
            BY <1>5, <2>2 DEF FillIfCurrent, Answer
      <2>4. cache' \in [Node -> [User -> Version \cup {Absent}]]
            <3> DEFINE n == req[r].node
                       u == req[r].user
                       v == req[r].ver
                       T == [User -> Version \cup {Absent}]
            <3>1. n \in Node /\ cache \in [Node -> T] /\ cache[n] \in T
                  BY <2>1
            <3>2. [cache[n] EXCEPT ![u] = v] \in T
                  BY <2>1, <3>1
            <3>3. ASSUME NEW w \in Held(n)
                  PROVE  [cache[n] EXCEPT ![w] = Absent, ![u] = v] \in T
                  BY <2>1, <3>1 DEF Held
            <3>4. \/ UNCHANGED cache
                  \/ cache' = [cache EXCEPT ![n] = [cache[n] EXCEPT ![u] = v]]
                  \/ \E w \in Held(n) :
                        cache' = [cache EXCEPT ![n] =
                                    [cache[n] EXCEPT ![w] = Absent, ![u] = v]]
                  BY <1>5 DEF FillIfCurrent
            <3> HIDE DEF n, u, v, T
            <3>5. cache' \in [Node -> T]
                  BY <3>1, <3>2, <3>3, <3>4
            <3>. QED BY <3>5 DEF T
      <2>. QED BY <1>5, <2>3, <2>4 DEF FillIfCurrent
<1>6. ASSUME NEW r \in Req, KVWrite(r) PROVE TypeOK'
      <2>1. req[r] \in Request /\ req[r].user \in User
            BY <1>6, RequestType DEF KVWrite, At
      <2>2. kv[req[r].user] + 1 \in Nat
            BY <2>1
      <2>3. [req[r] EXCEPT !.pc = "bump", !.ver = kv[req[r].user] + 1] \in Request
            BY <2>1, <2>2, Updates, PCs
      <2>4. req' \in [Req -> Request \cup {Idle}]
            BY <1>6, <2>3 DEF KVWrite, End
      <2>5. kv' \in [User -> Version]
            <3>1. \/ kv' = kv
                  \/ kv' = [kv EXCEPT ![req[r].user] = kv[req[r].user] + 1]
                  BY <1>6 DEF KVWrite
            <3>. QED BY <2>1, <2>2, <3>1
      <2>6. lost' \in [Node -> [User -> Version]]
            <3>1. lost' = lost \/ Lose(Node, req[r].user, kv[req[r].user] + 1)
                  BY <1>6 DEF KVWrite
            <3>. QED BY <2>1, <2>2, <3>1, LoseFacts
      <2>. QED BY <1>6, <2>4, <2>5, <2>6 DEF KVWrite
<1>7. ASSUME NEW r \in Req, InvalidateBump(r) PROVE TypeOK'
      <2>1. req[r] \in Request /\ req[r].node \in Node
            BY <1>7, RequestType DEF InvalidateBump, At
      <2>2. [req[r] EXCEPT !.pc = "remove"] \in Request
            BY <2>1, Updates, PCs
      <2>. QED BY <1>7, <2>1, <2>2 DEF InvalidateBump, BumpGeneration, Goto
<1>8. ASSUME NEW r \in Req, InvalidateRemove(r) PROVE TypeOK'
      <2>1. req[r] \in Request /\ req[r].node \in Node /\ req[r].user \in User
            BY <1>8, RequestType DEF InvalidateRemove, At
      <2>2. [req[r] EXCEPT !.pc = "publish"] \in Request
            BY <2>1, Updates, PCs
      <2>. QED BY <1>8, <2>1, <2>2 DEF InvalidateRemove, Remove, Goto
<1>9. ASSUME NEW r \in Req, InvalidatePublish(r) PROVE TypeOK'
      <2>1. /\ req[r].node \in Node /\ req[r].user \in User
            /\ req[r].ver \in Nat
            BY <1>9, RequestType DEF InvalidatePublish, At
      <2>2. /\ req' \in [Req -> Request \cup {Idle}]
            /\ acked' \in [Node -> [User -> Version]]
            BY <1>9, <2>1 DEF InvalidatePublish, End, Max2
      <2>3. sent' \subseteq Event
            BY <1>9, <2>1 DEF InvalidatePublish, Event
      <2>4. lost' \in [Node -> [User -> Version]]
            BY <1>9, <2>1 DEF InvalidatePublish, Lose, Max2
      <2>. QED BY <1>9, <2>2, <2>3, <2>4 DEF InvalidatePublish
<1>10. ASSUME NEW r \in Req, Finish(r) PROVE TypeOK'
      BY <1>10 DEF Finish, End
<1>11. ASSUME NEW e \in sent, HandleBump(e) PROVE TypeOK'
      BY <1>11 DEF HandleBump, BumpGeneration, Event
<1>12. ASSUME NEW e \in sent, DropEvent(e) PROVE TypeOK'
      BY <1>12 DEF DropEvent, Lose, Max2, Event
<1>13. ASSUME NEW e \in handling, HandleRemove(e) PROVE TypeOK'
      BY <1>13 DEF HandleRemove, Remove, Event
<1>14. ASSUME NEW n \in Node, NEW u \in User, Expire(n, u) PROVE TypeOK'
      BY <1>14 DEF Expire, Remove
<1>15. ASSUME NEW n \in Node, Restart(n) PROVE TypeOK'
      BY <1>15 DEF Restart
<1>16. CASE UNCHANGED vars
      BY <1>16 DEF vars
<1>. QED BY <1>1, <1>2, <1>3, <1>4, <1>5, <1>6, <1>7, <1>8, <1>9, <1>10,
            <1>11, <1>12, <1>13, <1>14, <1>15, <1>16 DEF Next, ReqStep

(* In every reachable state each variable has its type.                    *)
THEOREM TypeCorrect == Spec => []TypeOK
<1>1. Init => TypeOK
      BY DEF Init, TypeOK, Version, Absent
<1>. QED BY <1>1, TypeOKInductive, PTL DEF Spec

-----------------------------------------------------------------------------
(* What each step of a request does to req, field by field.                *)
Others(r) == \A q \in Req : q # r => req'[q] = req[q]

Keeps(r) == /\ req'[r].node = req[r].node
            /\ req'[r].user = req[r].user
            /\ req'[r].floor = req[r].floor

LEMMA Fields ==
    ASSUME NEW q \in Request, NEW pc, NEW v, NEW g
    PROVE  /\ LET p == [q EXCEPT !.pc = pc]
              IN  /\ p.pc = pc /\ p.node = q.node /\ p.user = q.user
                  /\ p.ver = q.ver /\ p.started = q.started /\ p.floor = q.floor
           /\ LET p == [q EXCEPT !.pc = pc, !.ver = v]
              IN  /\ p.pc = pc /\ p.node = q.node /\ p.user = q.user
                  /\ p.ver = v /\ p.started = q.started /\ p.floor = q.floor
           /\ LET p == [q EXCEPT !.pc = pc, !.started = g]
              IN  /\ p.pc = pc /\ p.node = q.node /\ p.user = q.user
                  /\ p.ver = q.ver /\ p.started = g /\ p.floor = q.floor
           /\ LET p == [q EXCEPT !.pc = pc, !.ver = v, !.started = g]
              IN  /\ p.pc = pc /\ p.node = q.node /\ p.user = q.user
                  /\ p.ver = v /\ p.started = g /\ p.floor = q.floor
  BY DEF Request

LEMMA GotoEffect ==
    ASSUME TypeOK, NEW r \in Req, req[r].pc # "idle", NEW pc, Goto(r, pc)
    PROVE  /\ Others(r) /\ Keeps(r)
           /\ req'[r].pc = pc
           /\ req'[r].ver = req[r].ver
           /\ req'[r].started = req[r].started
<1>1. req[r] \in Request /\ req \in [Req -> Request \cup {Idle}]
      BY RequestType DEF TypeOK
<1>2. req'[r] = [req[r] EXCEPT !.pc = pc] /\ Others(r)
      BY <1>1 DEF Goto, Others
<1>. QED BY <1>1, <1>2, Fields DEF Keeps

LEMMA AnswerEffect ==
    ASSUME TypeOK, NEW r \in Req, req[r].pc # "idle", NEW v, Answer(r, v)
    PROVE  /\ Others(r) /\ Keeps(r)
           /\ req'[r].pc = "done"
           /\ req'[r].ver = v
<1>1. req[r] \in Request /\ req \in [Req -> Request \cup {Idle}]
      BY RequestType DEF TypeOK
<1>2. req'[r] = [req[r] EXCEPT !.pc = "done", !.ver = v, !.started = 0] /\ Others(r)
      BY <1>1 DEF Answer, Others
<1>. QED BY <1>1, <1>2, Fields DEF Keeps

LEMMA EndEffect ==
    ASSUME TypeOK, NEW r \in Req, End(r)
    PROVE  Others(r) /\ req'[r].pc = "idle"
  BY DEF TypeOK, End, Idle, Others

LEMMA BeginEffect ==
    ASSUME TypeOK, NEW r \in Req, NEW n \in Node, NEW u \in User, NEW pc,
           Begin(r, n, u, pc)
    PROVE  /\ Others(r) /\ At(r, "idle")
           /\ req'[r].pc = pc /\ req'[r].node = n /\ req'[r].user = u
           /\ req'[r].ver = 0 /\ req'[r].floor = acked[n][u]
  BY DEF TypeOK, Begin, Others

LEMMA CurrentGenerationEffect ==
    ASSUME TypeOK, NEW r \in Req, CurrentGeneration(r)
    PROVE  /\ Others(r) /\ Keeps(r) /\ At(r, "generation")
           /\ req'[r].pc = "kvget"
           /\ req'[r].ver = req[r].ver
           /\ req'[r].started = generation[req[r].node]
<1>1. req[r] \in Request /\ req \in [Req -> Request \cup {Idle}]
      BY RequestType DEF TypeOK, CurrentGeneration, At
<1>2. /\ req'[r] = [req[r] EXCEPT !.pc = "kvget",
                                  !.started = generation[req[r].node]]
      /\ Others(r)
      BY <1>1 DEF CurrentGeneration, Others
<1>. QED BY <1>1, <1>2, Fields DEF Keeps, CurrentGeneration

LEMMA KVGetEffect ==
    ASSUME TypeOK, NEW r \in Req, KVGet(r)
    PROVE  /\ Others(r) /\ At(r, "kvget")
           /\ \/ /\ Keeps(r) /\ req'[r].pc = "fill"
                 /\ req'[r].ver = kv[req[r].user]
                 /\ req'[r].started = req[r].started
              \/ req'[r].pc = "idle"
<1>1. req[r] \in Request /\ req \in [Req -> Request \cup {Idle}] /\ At(r, "kvget")
      BY RequestType DEF TypeOK, KVGet, At
<1>2. CASE req' = [req EXCEPT ![r] = [@ EXCEPT !.pc = "fill",
                                               !.ver = kv[req[r].user]]]
      <2>1. /\ req'[r] = [req[r] EXCEPT !.pc = "fill", !.ver = kv[req[r].user]]
            /\ Others(r)
            BY <1>1, <1>2 DEF Others
      <2>. QED BY <1>1, <2>1, Fields DEF Keeps
<1>3. CASE End(r)
      BY <1>1, <1>3, EndEffect
<1>. QED BY <1>2, <1>3 DEF KVGet

LEMMA KVWriteEffect ==
    ASSUME TypeOK, NEW r \in Req, KVWrite(r)
    PROVE  /\ Others(r) /\ At(r, "kvset")
           /\ \/ /\ Keeps(r) /\ req'[r].pc = "bump"
                 /\ req'[r].ver = kv[req[r].user] + 1
                 /\ kv' = [kv EXCEPT ![req[r].user] = @ + 1]
                 /\ UNCHANGED lost
              \/ req'[r].pc = "idle" /\ UNCHANGED <<kv, lost>>
              \/ /\ req'[r].pc = "idle"
                 /\ kv' = [kv EXCEPT ![req[r].user] = @ + 1]
                 /\ Lose(Node, req[r].user, kv[req[r].user] + 1)
<1>1. req[r] \in Request /\ req \in [Req -> Request \cup {Idle}] /\ At(r, "kvset")
      BY RequestType DEF TypeOK, KVWrite, At
<1>2. CASE /\ kv' = [kv EXCEPT ![req[r].user] = @ + 1]
           /\ req' = [req EXCEPT ![r] = [@ EXCEPT !.pc = "bump",
                                                  !.ver = kv[req[r].user] + 1]]
           /\ UNCHANGED lost
      <2>1. /\ req'[r] = [req[r] EXCEPT !.pc = "bump", !.ver = kv[req[r].user] + 1]
            /\ Others(r)
            BY <1>1, <1>2 DEF Others
      <2>. QED BY <1>1, <1>2, <2>1, Fields DEF Keeps
<1>3. CASE End(r) /\ UNCHANGED <<kv, lost>>
      BY <1>1, <1>3, EndEffect
<1>4. CASE /\ kv' = [kv EXCEPT ![req[r].user] = @ + 1]
           /\ End(r)
           /\ Lose(Node, req[r].user, kv[req[r].user] + 1)
      BY <1>1, <1>4, EndEffect
<1>. QED BY <1>2, <1>3, <1>4 DEF KVWrite

-----------------------------------------------------------------------------
(* The types of the numbers compared below, without the records.           *)
LEMMA NumberTypes ==
    ASSUME TypeOK
    PROVE  /\ \A u \in User : kv[u] \in Nat
           /\ \A n \in Node, u \in User : /\ cache[n][u] \in Nat \cup {Absent}
                                          /\ acked[n][u] \in Nat
                                          /\ lost[n][u] \in Nat
           /\ \A n \in Node : generation[n] \in Nat
           /\ \A r \in Req : req[r].pc # "idle" =>
                 /\ req[r].node \in Node /\ req[r].user \in User
                 /\ req[r].ver \in Nat /\ req[r].started \in Nat
                 /\ req[r].floor \in Nat
           /\ \A e \in sent \cup handling :
                 e.to \in Node /\ e.user \in User /\ e.ver \in Nat
<1>1. \A r \in Req : req[r].pc # "idle" =>
         /\ req[r].node \in Node /\ req[r].user \in User
         /\ req[r].ver \in Nat /\ req[r].started \in Nat /\ req[r].floor \in Nat
      BY RequestType
<1>2. \A e \in sent \cup handling :
         e.to \in Node /\ e.user \in User /\ e.ver \in Nat
      BY DEF TypeOK, Event, Version
<1>. QED BY <1>1, <1>2 DEF TypeOK, Version, Absent

(* Only a step of a request changes it, and nothing but a restart turns a  *)
(* counter back.                                                           *)
Grows == /\ \A u \in User : kv'[u] >= kv[u]
         /\ \A n \in Node : generation'[n] >= generation[n]
         /\ \A n \in Node, u \in User : /\ acked'[n][u] >= acked[n][u]
                                        /\ lost'[n][u] >= lost[n][u]

Served(r) == ReqStep(r) \/ \E n \in Node, u \in User, pc \in {"lookup", "kvset"} :
                              Begin(r, n, u, pc)

Elsewhere == \/ \E e \in sent : HandleBump(e) \/ DropEvent(e)
             \/ \E e \in handling : HandleRemove(e)
             \/ \E n \in Node, u \in User : Expire(n, u)
             \/ UNCHANGED vars

LEMMA NextSplit ==
    [Next]_vars => \/ \E r \in Req : Served(r)
                   \/ Elsewhere
                   \/ \E n \in Node : Restart(n)
  BY DEF Next, Served, Elsewhere

LEMMA ServedOthers ==
    ASSUME TypeOK, NEW r \in Req, Served(r)
    PROVE  Others(r)
<1>1. CASE Lookup(r)
      <2>1. req[r].pc # "idle" BY <1>1 DEF Lookup, At
      <2>. QED BY <1>1, <2>1, AnswerEffect, GotoEffect DEF Lookup
<1>2. CASE FillIfCurrent(r) \/ InvalidateBump(r) \/ InvalidateRemove(r)
      <2>1. req[r].pc # "idle"
            BY <1>2 DEF FillIfCurrent, InvalidateBump, InvalidateRemove, At
      <2>. QED BY <1>2, <2>1, AnswerEffect, GotoEffect
               DEF FillIfCurrent, InvalidateBump, InvalidateRemove
<1>3. CASE InvalidatePublish(r) \/ Finish(r)
      BY <1>3, EndEffect DEF InvalidatePublish, Finish
<1>. QED BY <1>1, <1>2, <1>3, BeginEffect, CurrentGenerationEffect, KVGetEffect,
            KVWriteEffect DEF Served, ReqStep

LEMMA ElsewhereReq == Elsewhere => req' = req /\ kv' = kv /\ acked' = acked
  BY DEF Elsewhere, HandleBump, DropEvent, HandleRemove, Expire, vars

LEMMA ServedGrows ==
    ASSUME TypeOK, TypeOK', NEW r \in Req, Served(r)
    PROVE  Grows
<1> USE NumberTypes
<1>1. CASE KVWrite(r)
      <2>1. req[r].user \in User
            BY <1>1, KVWriteEffect DEF At
      <2>2. \A u \in User : kv'[u] >= kv[u]
            <3>1. UNCHANGED kv \/ kv' = [kv EXCEPT ![req[r].user] = @ + 1]
                  BY <1>1 DEF KVWrite
            <3>2. kv \in [User -> Nat]
                  BY DEF TypeOK, Version
            <3>. HIDE NumberTypes
            <3>. QED BY <2>1, <3>1, <3>2
      <2>3. \A n \in Node, u \in User : lost'[n][u] >= lost[n][u]
            <3>1. UNCHANGED lost \/ Lose(Node, req[r].user, kv[req[r].user] + 1)
                  BY <1>1 DEF KVWrite
            <3>2. kv[req[r].user] + 1 \in Nat
                  BY <2>1
            <3>3. CASE UNCHANGED lost
                  BY <3>3
            <3>4. CASE Lose(Node, req[r].user, kv[req[r].user] + 1)
                  BY <2>1, <3>2, <3>4, LoseFacts
            <3>. QED BY <3>1, <3>3, <3>4
      <2>. QED BY <1>1, <2>2, <2>3 DEF KVWrite, Grows
<1>2. CASE InvalidateBump(r)
      BY <1>2 DEF InvalidateBump, BumpGeneration, TypeOK, Grows
<1>3. CASE InvalidatePublish(r)
      <2>1. /\ req[r].user \in User /\ req[r].node \in Node
            /\ req[r].ver \in Nat
            BY <1>3 DEF InvalidatePublish, At
      <2>2. \A n \in Node, u \in User : lost'[n][u] >= lost[n][u]
            <3>1. CASE UNCHANGED lost
                  BY <3>1
            <3>2. CASE Lose(Node \ {req[r].node}, req[r].user, req[r].ver)
                  BY <2>1, <3>2, LoseFacts
            <3>. QED BY <1>3, <3>1, <3>2 DEF InvalidatePublish
      <2>3. \A n \in Node, u \in User : acked'[n][u] >= acked[n][u]
            BY <1>3, <2>1 DEF InvalidatePublish, Max2, TypeOK, Version
      <2>. QED BY <1>3, <2>2, <2>3 DEF InvalidatePublish, Grows
<1>4. CASE UNCHANGED <<kv, generation, lost, acked>>
      BY <1>4 DEF Grows
<1>. QED BY <1>1, <1>2, <1>3, <1>4 DEF Served, ReqStep, Begin, Lookup,
            CurrentGeneration, KVGet, FillIfCurrent, InvalidateRemove, Finish

LEMMA ElsewhereGrows ==
    ASSUME TypeOK, TypeOK', Elsewhere
    PROVE  Grows
<1> USE NumberTypes
<1>1. CASE \E e \in sent : HandleBump(e)
      BY <1>1 DEF HandleBump, BumpGeneration, TypeOK, Grows
<1>2. CASE \E e \in sent : DropEvent(e)
      <2>1. PICK e \in sent : DropEvent(e)
            BY <1>2
      <2>2. e.user \in User /\ e.ver \in Nat
            BY <2>1
      <2>3. Lose({e.to}, e.user, e.ver)
            BY <2>1 DEF DropEvent
      <2>4. \A n \in Node, u \in User : lost'[n][u] >= lost[n][u]
            BY <2>2, <2>3, LoseFacts
      <2>. QED BY <2>1, <2>4 DEF DropEvent, Grows
<1>3. CASE UNCHANGED <<kv, generation, lost, acked>>
      BY <1>3 DEF Grows
<1>. QED BY <1>1, <1>2, <1>3 DEF Elsewhere, HandleRemove, Expire, vars

LEMMA RestartEffect ==
    ASSUME TypeOK, NEW n \in Node, Restart(n)
    PROVE  /\ UNCHANGED <<kv, acked, sent>>
           /\ \A q \in Req : req'[q].pc # "idle" => req'[q] = req[q] /\ req[q].node # n
           /\ \A q \in Req : req[q].pc # "idle" /\ req[q].node # n => req'[q] = req[q]
           /\ \A m \in Node : m # n => /\ generation'[m] = generation[m]
                                       /\ cache'[m] = cache[m]
           /\ \A u \in User : cache'[n][u] = Absent
           /\ \A e \in handling : e.to # n => e \in handling'
           /\ \A m \in Node, u \in User :
                 /\ lost'[m][u] \in {lost[m][u], kv[u]}
                 /\ m # n /\ Unannounced(n, u) => lost'[m][u] = kv[u]
<1>1. \A q \in Req : req'[q] = IF Running(q, n) THEN Idle ELSE req[q]
      BY DEF Restart
<1>2. \A m \in Node : cache'[m] = IF m = n THEN [u \in User |-> Absent] ELSE cache[m]
      BY DEF Restart, TypeOK
<1>3. \A m \in Node, u \in User :
         lost'[m][u] = IF m # n /\ Unannounced(n, u) THEN kv[u] ELSE lost[m][u]
      BY DEF Restart
<1>. QED BY <1>1, <1>2, <1>3 DEF Restart, Running, Idle, TypeOK

(* VersionsOrdered is inductive.                                           *)
LEMMA RequestOrderedFrame ==
    ASSUME TypeOK, TypeOK', Grows, NEW q \in Req, RequestOrdered(q),
           req'[q] = req[q]
    PROVE  RequestOrdered(q)'
<1>1. CASE req[q].pc = "idle"
      BY <1>1 DEF RequestOrdered
<1>2. CASE req[q].pc # "idle"
      <2> DEFINE n == req[q].node
                 u == req[q].user
      <2>1. /\ n \in Node /\ u \in User /\ req[q].ver \in Nat
            /\ req[q].floor \in Nat /\ req[q].started \in Nat
            BY <1>2, NumberTypes
      <2>2. /\ kv[u] \in Nat /\ kv'[u] \in Nat /\ kv'[u] >= kv[u]
            /\ generation[n] \in Nat /\ generation'[n] \in Nat
            /\ generation'[n] >= generation[n]
            /\ acked[n][u] \in Nat /\ acked'[n][u] \in Nat
            /\ acked'[n][u] >= acked[n][u]
            BY <2>1 DEF Grows, TypeOK, Version
      <2>. QED BY <1>2, <2>1, <2>2 DEF RequestOrdered
<1>. QED BY <1>1, <1>2

LEMMA RequestOrderedStep ==
    ASSUME TypeOK, TypeOK', VersionsOrdered, NEW r \in Req, Served(r)
    PROVE  RequestOrdered(r)'
<1> USE NumberTypes DEF RequestOrdered, VersionsOrdered, EntryOrdered
<1>1. ASSUME NEW n \in Node, NEW u \in User, NEW pc \in {"lookup", "kvset"},
             Begin(r, n, u, pc)
      PROVE  RequestOrdered(r)'
      BY <1>1, BeginEffect DEF Begin
<1>2. CASE Lookup(r)
      <2>1. req[r].pc = "lookup" /\ UNCHANGED <<kv, acked>>
            BY <1>2 DEF Lookup, At
      <2>2. CASE Hit(req[r].node, req[r].user)
            BY <1>2, <2>1, <2>2, AnswerEffect DEF Lookup, Keeps
      <2>3. CASE ~Hit(req[r].node, req[r].user)
            BY <1>2, <2>1, <2>3, GotoEffect DEF Lookup, Keeps
      <2>. QED BY <2>2, <2>3
<1>3. CASE CurrentGeneration(r)
      <2>1. req[r].pc = "generation" /\ UNCHANGED <<kv, acked, generation>>
            BY <1>3 DEF CurrentGeneration, At
      <2>. QED BY <1>3, <2>1, CurrentGenerationEffect DEF Keeps
<1>4. CASE KVGet(r)
      <2>1. req[r].pc = "kvget" /\ UNCHANGED <<kv, acked, generation>>
            BY <1>4 DEF KVGet, At
      <2>. QED BY <1>4, <2>1, KVGetEffect DEF Keeps
<1>5. CASE FillIfCurrent(r)
      <2>1. req[r].pc = "fill" /\ UNCHANGED <<kv, acked>>
            BY <1>5 DEF FillIfCurrent, At
      <2>. QED BY <1>5, <2>1, AnswerEffect DEF FillIfCurrent, Keeps
<1>6. CASE KVWrite(r)
      <2>1. req[r].pc = "kvset" /\ UNCHANGED acked
            BY <1>6 DEF KVWrite, At
      <2>2. kv' = [kv EXCEPT ![req[r].user] = @ + 1] =>
                kv'[req[r].user] = kv[req[r].user] + 1
            BY <2>1 DEF TypeOK
      <2>. QED BY <1>6, <2>1, <2>2, KVWriteEffect DEF Keeps
<1>7. CASE InvalidateBump(r)
      <2>1. req[r].pc = "bump" /\ UNCHANGED <<kv, acked>>
            BY <1>7 DEF InvalidateBump, At
      <2>. QED BY <1>7, <2>1, GotoEffect DEF InvalidateBump, Keeps
<1>8. CASE InvalidateRemove(r)
      <2>1. req[r].pc = "remove" /\ UNCHANGED <<kv, acked>>
            BY <1>8 DEF InvalidateRemove, At
      <2>. QED BY <1>8, <2>1, GotoEffect DEF InvalidateRemove, Keeps
<1>9. CASE InvalidatePublish(r) \/ Finish(r)
      BY <1>9, EndEffect DEF InvalidatePublish, Finish
<1>. QED BY <1>1, <1>2, <1>3, <1>4, <1>5, <1>6, <1>7, <1>8, <1>9 DEF Served, ReqStep

(* How a cache entry can change.                                           *)
LEMMA CacheEffect ==
    ASSUME TypeOK, [Next]_vars, NEW n \in Node, NEW u \in User
    PROVE  \/ cache'[n][u] = cache[n][u]
           \/ cache'[n][u] = Absent
           \/ \E r \in Req : /\ FillIfCurrent(r) /\ Installs(r)
                             /\ req[r].node = n /\ req[r].user = u
                             /\ cache'[n][u] = req[r].ver
<1> USE DEF TypeOK
<1>1. ASSUME NEW r \in Req, FillIfCurrent(r)
      PROVE  \/ cache'[n][u] = cache[n][u]
             \/ cache'[n][u] = Absent
             \/ /\ Installs(r) /\ req[r].node = n /\ req[r].user = u
                /\ cache'[n][u] = req[r].ver
      <2>1. /\ req[r].node \in Node /\ req[r].user \in User
            BY <1>1, RequestType DEF FillIfCurrent, At
      <2> DEFINE m == req[r].node
                 w == req[r].user
      <2>2. \/ UNCHANGED cache
            \/ /\ Installs(r)
               /\ cache' = [cache EXCEPT ![m] = [cache[m] EXCEPT ![w] = req[r].ver]]
            \/ /\ Installs(r)
               /\ \E victim \in Held(m) :
                    cache' = [cache EXCEPT ![m] =
                               [cache[m] EXCEPT ![victim] = Absent, ![w] = req[r].ver]]
            BY <1>1 DEF FillIfCurrent, Installs
      <2>3. cache \in [Node -> [User -> Version \cup {Absent}]] /\ cache[m] \in [User -> Version \cup {Absent}]
            BY <2>1
      <2> HIDE DEF m, w
      <2>4. CASE UNCHANGED cache
            BY <2>4
      <2>5. CASE cache' = [cache EXCEPT ![m] = [cache[m] EXCEPT ![w] = req[r].ver]]
            BY <2>2, <2>3, <2>5 DEF m, w
      <2>6. ASSUME NEW victim \in Held(m), Installs(r),
                   cache' = [cache EXCEPT ![m] =
                               [cache[m] EXCEPT ![victim] = Absent, ![w] = req[r].ver]]
            PROVE  \/ cache'[n][u] = cache[n][u]
                   \/ cache'[n][u] = Absent
                   \/ m = n /\ w = u /\ cache'[n][u] = req[r].ver
            <3>1. CASE m # n
                  BY <2>3, <2>6, <3>1
            <3>2. CASE m = n
                  <4>1. cache'[n] = [cache[n] EXCEPT ![victim] = Absent, ![w] = req[r].ver]
                        BY <2>3, <2>6, <3>2
                  <4>. QED BY <2>3, <3>2, <4>1
            <3>. QED BY <3>1, <3>2
      <2>. QED BY <2>2, <2>4, <2>5, <2>6 DEF m, w
<1>2. ASSUME NEW m \in Node, NEW w \in User, Remove(m, w)
      PROVE  cache'[n][u] \in {cache[n][u], Absent}
      BY <1>2 DEF Remove
<1>3. ASSUME NEW r \in Req, InvalidateRemove(r)
      PROVE  cache'[n][u] \in {cache[n][u], Absent}
      <2>1. req[r].node \in Node /\ req[r].user \in User
            BY <1>3, RequestType DEF InvalidateRemove, At
      <2>. QED BY <1>2, <1>3, <2>1 DEF InvalidateRemove
<1>4. ASSUME NEW e \in handling, HandleRemove(e)
      PROVE  cache'[n][u] \in {cache[n][u], Absent}
      BY <1>2, <1>4, NumberTypes DEF HandleRemove
<1>5. ASSUME NEW m \in Node, NEW w \in User, Expire(m, w)
      PROVE  cache'[n][u] \in {cache[n][u], Absent}
      BY <1>2, <1>5 DEF Expire
<1>6. ASSUME NEW m \in Node, Restart(m)
      PROVE  cache'[n][u] \in {cache[n][u], Absent}
      BY <1>6, RestartEffect
<1>7. CASE UNCHANGED cache
      BY <1>7
<1>. QED BY <1>1, <1>3, <1>4, <1>5, <1>6, <1>7 DEF Next, ReqStep, vars, Begin,
            Lookup, CurrentGeneration, KVGet, KVWrite, InvalidateBump,
            InvalidatePublish, Finish, HandleBump, DropEvent

LEMMA NextGrows ==
    ASSUME TypeOK, TypeOK', [Next]_vars
    PROVE  \A u \in User : kv'[u] >= kv[u]
  BY NextSplit, ServedGrows, ElsewhereGrows, RestartEffect, NumberTypes DEF Grows

LEMMA AckedEffect ==
    ASSUME TypeOK, [Next]_vars, NEW n \in Node, NEW u \in User
    PROVE  \/ acked'[n][u] = acked[n][u]
           \/ \E r \in Req : /\ InvalidatePublish(r) /\ At(r, "publish")
                             /\ req[r].node = n /\ req[r].user = u
                             /\ acked'[n][u] = req[r].ver
                             /\ UNCHANGED <<cache, kv, generation>>
<1>1. ASSUME NEW r \in Req, InvalidatePublish(r)
      PROVE  \/ acked'[n][u] = acked[n][u]
             \/ /\ At(r, "publish")
                /\ req[r].node = n /\ req[r].user = u
                /\ acked'[n][u] = req[r].ver
                /\ UNCHANGED <<cache, kv, generation>>
      BY <1>1 DEF InvalidatePublish, Max2, TypeOK
<1>2. CASE UNCHANGED acked
      BY <1>2
<1>. QED BY <1>1, <1>2 DEF Next, ReqStep, vars, Begin, Lookup, KVGet,
            CurrentGeneration, FillIfCurrent, KVWrite, InvalidateBump,
            InvalidateRemove, Finish, HandleBump, DropEvent, HandleRemove,
            Expire, Restart

LEMMA VersionsInductive ==
    ASSUME TypeOK, TypeOK', VersionsOrdered, [Next]_vars
    PROVE  VersionsOrdered'
<1>1. ASSUME NEW n \in Node, NEW u \in User
      PROVE  EntryOrdered(n, u)'
      <2>1. /\ kv[u] \in Nat /\ kv'[u] \in Nat /\ kv'[u] >= kv[u]
            /\ cache[n][u] <= kv[u] /\ acked[n][u] <= kv[u]
            BY NextGrows DEF TypeOK, Version, VersionsOrdered, EntryOrdered
      <2>2. /\ cache[n][u] \in Nat \cup {-1} /\ cache'[n][u] \in Nat \cup {-1}
            /\ acked[n][u] \in Nat /\ acked'[n][u] \in Nat
            BY DEF TypeOK, Version, Absent
      <2>3. \A r \in Req : /\ req[r].pc # "idle" /\ req[r].user = u
                           => req[r].ver \in Nat /\ req[r].ver <= kv[u]
            BY NumberTypes DEF VersionsOrdered, RequestOrdered
      <2>4. cache'[n][u] <= kv'[u]
            <3>1. CASE cache'[n][u] = cache[n][u] \/ cache'[n][u] = Absent
                  BY <2>1, <2>2, <3>1 DEF Absent
            <3>2. ASSUME NEW r \in Req, Installs(r), req[r].user = u,
                         cache'[n][u] = req[r].ver
                  PROVE  cache'[n][u] <= kv'[u]
                  BY <2>1, <2>3, <3>2 DEF Installs, At
            <3>. QED BY <3>1, <3>2, CacheEffect
      <2>5. acked'[n][u] <= kv'[u]
            <3>1. CASE acked'[n][u] = acked[n][u]
                  BY <2>1, <2>2, <3>1
            <3>2. ASSUME NEW r \in Req, At(r, "publish"), req[r].user = u,
                         acked'[n][u] = req[r].ver
                  PROVE  acked'[n][u] <= kv'[u]
                  BY <2>1, <2>3, <3>2 DEF At
            <3>. QED BY <3>1, <3>2, AckedEffect
      <2>. QED BY <2>4, <2>5 DEF EntryOrdered
<1>2. ASSUME NEW q \in Req
      PROVE  RequestOrdered(q)'
      <2>1. RequestOrdered(q)
            BY DEF VersionsOrdered
      <2>2. ASSUME NEW r \in Req, Served(r)
            PROVE  RequestOrdered(q)'
            <3>1. CASE q = r
                  BY <2>2, <3>1, RequestOrderedStep
            <3>2. CASE q # r
                  BY <2>1, <2>2, <3>2, ServedOthers, ServedGrows,
                     RequestOrderedFrame DEF Others
            <3>. QED BY <3>1, <3>2
      <2>3. CASE Elsewhere
            BY <2>1, <2>3, ElsewhereReq, ElsewhereGrows, RequestOrderedFrame
      <2>4. ASSUME NEW m \in Node, Restart(m)
            PROVE  RequestOrdered(q)'
            BY <2>1, <2>4, RestartEffect, NumberTypes DEF RequestOrdered
      <2>. QED BY <2>2, <2>3, <2>4, NextSplit
<1>. QED BY <1>1, <1>2 DEF VersionsOrdered

-----------------------------------------------------------------------------
(* An invalidation that is still on its way stays so until it bumps the    *)
(* node's generation (or removes the key), or is lost.                     *)
Announced(w, n, u, v) == /\ req[w].pc \in {"bump", "remove", "publish"}
                         /\ req[w].user = u /\ req[w].ver > v
                         /\ req[w].node = n => req[w].pc = "bump"

LEMMA WriterStep ==
    ASSUME TypeOK, NEW w \in Req, NEW r \in Req, Served(r),
           req[w].pc \in {"bump", "remove", "publish"}
    PROVE  \/ req'[w] = req[w]
           \/ r = w /\ req[w].pc = "bump" /\ InvalidateBump(w)
           \/ r = w /\ req[w].pc = "remove" /\ InvalidateRemove(w)
           \/ r = w /\ req[w].pc = "publish" /\ InvalidatePublish(w)
<1>1. CASE r # w
      BY <1>1, ServedOthers DEF Others
<1>2. CASE r = w
      BY <1>2 DEF Served, ReqStep, Begin, Lookup, CurrentGeneration, KVGet,
         FillIfCurrent, KVWrite, InvalidateBump, InvalidateRemove,
         InvalidatePublish, Finish, At
<1>. QED BY <1>1, <1>2

LEMMA BumpEffect ==
    ASSUME TypeOK, NEW w \in Req, InvalidateBump(w)
    PROVE  /\ Others(w) /\ Keeps(w) /\ req'[w].pc = "remove"
           /\ req'[w].ver = req[w].ver
           /\ generation'[req[w].node] = generation[req[w].node] + 1
           /\ generation[req[w].node] \in Nat
           /\ At(w, "bump")
<1>1. req[w].pc = "bump" /\ Goto(w, "remove")
      BY DEF InvalidateBump, At
<1>2. req[w].node \in Node
      BY <1>1, RequestType
<1>. QED BY <1>1, <1>2, GotoEffect DEF InvalidateBump, BumpGeneration, TypeOK, At

LEMMA RemoveEffect ==
    ASSUME TypeOK, NEW w \in Req, InvalidateRemove(w)
    PROVE  /\ Others(w) /\ Keeps(w) /\ req'[w].pc = "publish"
           /\ req'[w].ver = req[w].ver
           /\ cache'[req[w].node][req[w].user] = Absent
           /\ At(w, "remove")
<1>1. req[w].pc = "remove" /\ Goto(w, "publish")
      BY DEF InvalidateRemove, At
<1>2. req[w].node \in Node /\ req[w].user \in User
      BY <1>1, RequestType
<1>. QED BY <1>1, <1>2, GotoEffect DEF InvalidateRemove, Remove, TypeOK, At

LEMMA PublishEffect ==
    ASSUME TypeOK, NEW w \in Req, InvalidatePublish(w), NEW n \in Node,
           n # req[w].node
    PROVE  \/ [to |-> n, user |-> req[w].user, ver |-> req[w].ver] \in sent'
           \/ lost'[n][req[w].user] >= req[w].ver
<1>1. req[w].pc = "publish"
      BY DEF InvalidatePublish, At
<1>2. /\ req[w].node \in Node /\ req[w].user \in User /\ req[w].ver \in Nat
      BY <1>1, RequestType
<1>3. CASE sent' = sent \cup [to : Node \ {req[w].node}, user : {req[w].user},
                              ver : {req[w].ver}]
      BY <1>3
<1>4. CASE Lose(Node \ {req[w].node}, req[w].user, req[w].ver)
      BY <1>2, <1>4, LoseFacts
<1>. QED BY <1>3, <1>4 DEF InvalidatePublish

LEMMA HandleBumpEffect ==
    ASSUME TypeOK, NEW e \in sent, HandleBump(e)
    PROVE  /\ generation'[e.to] = generation[e.to] + 1
           /\ generation[e.to] \in Nat
           /\ e \in handling'
           /\ \A f \in sent : f # e => f \in sent'
           /\ handling \subseteq handling'
  BY NumberTypes DEF HandleBump, BumpGeneration, TypeOK

LEMMA DropEffect ==
    ASSUME TypeOK, NEW e \in sent, DropEvent(e)
    PROVE  /\ lost'[e.to][e.user] >= e.ver
           /\ \A f \in sent : f # e => f \in sent'
           /\ handling' = handling
  BY NumberTypes, LoseFacts DEF DropEvent

LEMMA HandleRemoveEffect ==
    ASSUME TypeOK, NEW e \in handling, HandleRemove(e)
    PROVE  /\ cache'[e.to][e.user] = Absent
           /\ \A f \in handling : f # e => f \in handling'
           /\ sent' = sent
  BY NumberTypes DEF HandleRemove, Remove, TypeOK

(* Steps of requests only ever add events.                                 *)
LEMMA ServedSent ==
    ASSUME NEW r \in Req, Served(r)
    PROVE  sent \subseteq sent' /\ handling' = handling
  BY DEF Served, ReqStep, Begin, Lookup, CurrentGeneration, KVGet,
     FillIfCurrent, KVWrite, InvalidateBump, InvalidateRemove,
     InvalidatePublish, Finish

LEMMA BumpAheadPersists ==
    ASSUME TypeOK, TypeOK', [Next]_vars, NEW n \in Node, NEW u \in User,
           NEW v \in Nat, v < kv[u],
           BumpAhead(n, u, v) \/ lost[n][u] > v,
           \A m \in Node : ~Restart(m)
    PROVE  \/ (BumpAhead(n, u, v) \/ lost[n][u] > v)'
           \/ generation'[n] = generation[n] + 1 /\ generation[n] \in Nat
<1> USE NumberTypes
<1>1. CASE lost[n][u] > v
      <2>1. lost'[n][u] >= lost[n][u] /\ lost'[n][u] \in Nat
            BY NextSplit, ServedGrows, ElsewhereGrows DEF Grows, TypeOK, Version
      <2>. QED BY <1>1, <2>1
<1>2. ASSUME NEW w \in Req, Announced(w, n, u, v)
      PROVE  \/ (BumpAhead(n, u, v) \/ lost[n][u] > v)'
             \/ generation'[n] = generation[n] + 1 /\ generation[n] \in Nat
      <2>0. Announced(w, n, u, v)' => BumpAhead(n, u, v)'
            BY DEF Announced, BumpAhead
      <2>1. CASE req'[w] = req[w]
            BY <1>2, <2>0, <2>1 DEF Announced
      <2>2. CASE InvalidateBump(w)
            BY <1>2, <2>0, <2>2, BumpEffect DEF Announced, Keeps, At
      <2>3. CASE InvalidateRemove(w)
            BY <1>2, <2>0, <2>3, RemoveEffect DEF Announced, Keeps, At
      <2>4. CASE InvalidatePublish(w)
            <3>1. At(w, "publish") /\ req[w].node # n /\ req[w].ver \in Nat
                  BY <1>2, <2>4 DEF Announced, InvalidatePublish, At
            <3>2. CASE [to |-> n, user |-> u, ver |-> req[w].ver] \in sent'
                  BY <1>2, <3>2 DEF Announced, BumpAhead
            <3>3. CASE lost'[n][u] >= req[w].ver
                  BY <1>2, <3>1, <3>3 DEF Announced, TypeOK, Version
            <3>. QED BY <1>2, <2>4, <3>1, <3>2, <3>3, PublishEffect DEF Announced
      <2>5. CASE Elsewhere
            BY <2>1, <2>5, ElsewhereReq
      <2>6. CASE \E r \in Req : Served(r)
            BY <1>2, <2>1, <2>2, <2>3, <2>4, <2>6, WriterStep DEF Announced
      <2>. QED BY <2>5, <2>6, NextSplit
<1>3. ASSUME NEW e \in sent, e.to = n, e.user = u, e.ver > v
      PROVE  \/ (BumpAhead(n, u, v) \/ lost[n][u] > v)'
             \/ generation'[n] = generation[n] + 1 /\ generation[n] \in Nat
      <2>1. CASE e \in sent'
            BY <1>3, <2>1 DEF BumpAhead
      <2>2. CASE \E f \in sent : HandleBump(f)
            BY <1>3, <2>1, <2>2, HandleBumpEffect
      <2>3. CASE \E f \in sent : DropEvent(f)
            <3>1. PICK f \in sent : DropEvent(f)
                  BY <2>3
            <3>2. CASE f = e
                  <4>1. lost'[n][u] >= e.ver /\ e.ver \in Nat
                        BY <1>3, <3>1, <3>2, DropEffect
                  <4>2. lost'[n][u] \in Nat
                        BY DEF TypeOK, Version
                  <4>. QED BY <1>3, <4>1, <4>2
            <3>. QED BY <2>1, <3>1, <3>2, DropEffect
      <2>4. CASE \E f \in handling : HandleRemove(f)
            BY <2>1, <2>4, HandleRemoveEffect
      <2>5. CASE \E r \in Req : Served(r)
            BY <2>1, <2>5, ServedSent
      <2>6. CASE UNCHANGED sent
            BY <2>1, <2>6
      <2>. QED BY <2>2, <2>3, <2>4, <2>5, <2>6, NextSplit DEF Elsewhere, Expire, vars
<1>. QED BY <1>1, <1>2, <1>3 DEF BumpAhead, Announced

LEMMA RemoveAheadPersists ==
    ASSUME TypeOK, TypeOK', [Next]_vars, NEW n \in Node, NEW u \in User,
           NEW v \in Nat, v < kv[u],
           RemoveAhead(n, u, v) \/ lost[n][u] > v,
           \A m \in Node : ~Restart(m)
    PROVE  \/ (RemoveAhead(n, u, v) \/ lost[n][u] > v)'
           \/ cache'[n][u] = Absent
<1> USE NumberTypes
<1>1. ASSUME NEW w \in Req, req[w].pc = "remove", req[w].user = u,
             req[w].ver > v, req[w].node = n
      PROVE  \/ RemoveAhead(n, u, v)'
             \/ cache'[n][u] = Absent
      <2>1. CASE req'[w] = req[w]
            BY <1>1, <2>1 DEF RemoveAhead
      <2>2. CASE InvalidateRemove(w)
            BY <1>1, <2>2, RemoveEffect
      <2>3. CASE Elsewhere
            BY <2>1, <2>3, ElsewhereReq
      <2>. QED BY <1>1, <2>1, <2>2, <2>3, WriterStep, NextSplit
<1>2. ASSUME NEW e \in handling, e.to = n, e.user = u, e.ver > v
      PROVE  \/ RemoveAhead(n, u, v)'
             \/ cache'[n][u] = Absent
      <2>1. CASE e \in handling'
            BY <1>2, <2>1 DEF RemoveAhead
      <2>2. CASE \E f \in sent : HandleBump(f)
            BY <2>1, <2>2, HandleBumpEffect
      <2>3. CASE \E f \in handling : HandleRemove(f)
            BY <1>2, <2>1, <2>3, HandleRemoveEffect
      <2>4. CASE \E r \in Req : Served(r)
            BY <2>1, <2>4, ServedSent
      <2>5. CASE UNCHANGED handling
            BY <2>1, <2>5
      <2>. QED BY <2>2, <2>3, <2>4, <2>5, NextSplit
               DEF Elsewhere, DropEvent, Expire, vars
<1>3. ASSUME NEW w \in Req, Announced(w, n, u, v)
      PROVE  (RemoveAhead(n, u, v) \/ lost[n][u] > v)'
      <2>0. /\ Announced(w, n, u, v)' => RemoveAhead(n, u, v)'
            /\ (/\ req'[w].pc = "remove" /\ req'[w].user = u
                /\ req'[w].ver > v /\ req'[w].node = n) => RemoveAhead(n, u, v)'
            BY DEF Announced, BumpAhead, RemoveAhead
      <2>1. CASE req'[w] = req[w]
            BY <1>3, <2>0, <2>1 DEF Announced
      <2>2. CASE InvalidateBump(w)
            BY <1>3, <2>0, <2>2, BumpEffect DEF Announced, Keeps, At
      <2>3. CASE InvalidateRemove(w)
            BY <1>3, <2>0, <2>3, RemoveEffect DEF Announced, Keeps, At
      <2>4. CASE InvalidatePublish(w)
            <3>1. At(w, "publish") /\ req[w].node # n /\ req[w].ver \in Nat
                  BY <1>3, <2>4 DEF Announced, InvalidatePublish, At
            <3>2. CASE [to |-> n, user |-> u, ver |-> req[w].ver] \in sent'
                  BY <1>3, <3>2 DEF Announced, RemoveAhead, BumpAhead
            <3>3. CASE lost'[n][u] >= req[w].ver
                  BY <1>3, <3>1, <3>3 DEF Announced, TypeOK, Version
            <3>. QED BY <1>3, <2>4, <3>1, <3>2, <3>3, PublishEffect DEF Announced
      <2>5. CASE Elsewhere
            BY <2>1, <2>5, ElsewhereReq
      <2>6. CASE \E r \in Req : Served(r)
            BY <1>3, <2>1, <2>2, <2>3, <2>4, <2>6, WriterStep DEF Announced
      <2>. QED BY <2>5, <2>6, NextSplit
<1>4. ASSUME NEW e \in sent, e.to = n, e.user = u, e.ver > v
      PROVE  (RemoveAhead(n, u, v) \/ lost[n][u] > v)'
      <2>1. CASE e \in sent' \/ e \in handling'
            BY <1>4, <2>1 DEF RemoveAhead, BumpAhead
      <2>2. CASE \E f \in sent : HandleBump(f)
            BY <2>1, <2>2, HandleBumpEffect
      <2>3. CASE \E f \in sent : DropEvent(f)
            <3>1. PICK f \in sent : DropEvent(f)
                  BY <2>3
            <3>2. CASE f = e
                  <4>1. lost'[n][u] >= e.ver /\ e.ver \in Nat
                        BY <1>4, <3>1, <3>2, DropEffect
                  <4>2. lost'[n][u] \in Nat
                        BY DEF TypeOK, Version
                  <4>. QED BY <1>4, <4>1, <4>2
            <3>. QED BY <2>1, <3>1, <3>2, DropEffect
      <2>4. CASE \E f \in handling : HandleRemove(f)
            BY <2>1, <2>4, HandleRemoveEffect
      <2>5. CASE \E r \in Req : Served(r)
            BY <2>1, <2>5, ServedSent
      <2>6. CASE UNCHANGED sent
            BY <2>1, <2>6
      <2>. QED BY <2>2, <2>3, <2>4, <2>5, <2>6, NextSplit DEF Elsewhere, Expire, vars
<1>5. CASE lost[n][u] > v
      <2>1. lost'[n][u] >= lost[n][u] /\ lost'[n][u] \in Nat
            BY NextSplit, ServedGrows, ElsewhereGrows DEF Grows, TypeOK, Version
      <2>. QED BY <1>5, <2>1
<1>. QED BY <1>1, <1>2, <1>3, <1>4, <1>5 DEF RemoveAhead, BumpAhead, Announced

(* A restart either leaves an announcement alone or counts it as lost.     *)
LEMMA RestartPersists ==
    ASSUME TypeOK, TypeOK', NEW m \in Node, Restart(m), NEW n \in Node, n # m,
           NEW u \in User, NEW v \in Nat, v < kv[u]
    PROVE  /\ BumpAhead(n, u, v) \/ lost[n][u] > v =>
                (BumpAhead(n, u, v) \/ lost[n][u] > v)'
           /\ RemoveAhead(n, u, v) \/ lost[n][u] > v =>
                (RemoveAhead(n, u, v) \/ lost[n][u] > v)'
<1> USE NumberTypes
<1>1. lost[n][u] > v => lost'[n][u] > v
      BY RestartEffect
<1>2. ASSUME NEW w \in Req, Announced(w, n, u, v)
      PROVE  (BumpAhead(n, u, v) \/ lost[n][u] > v)'
      <2>1. CASE req[w].node = m
            <3>1. Unannounced(m, u)
                  BY <1>2, <2>1 DEF Announced, Unannounced
            <3>. QED BY <3>1, RestartEffect
      <2>2. CASE req[w].node # m
            BY <1>2, <2>2, RestartEffect DEF Announced, BumpAhead
      <2>. QED BY <2>1, <2>2
<1>3. ASSUME NEW e \in sent, e.to = n, e.user = u, e.ver > v
      PROVE  BumpAhead(n, u, v)'
      BY <1>3, RestartEffect DEF BumpAhead
<1>4. BumpAhead(n, u, v) \/ lost[n][u] > v =>
          (BumpAhead(n, u, v) \/ lost[n][u] > v)'
      BY <1>1, <1>2, <1>3 DEF BumpAhead, Announced
<1>5. ASSUME NEW w \in Req, req[w].pc = "remove", req[w].user = u,
             req[w].ver > v, req[w].node = n
      PROVE  RemoveAhead(n, u, v)'
      BY <1>5, RestartEffect DEF RemoveAhead
<1>6. ASSUME NEW e \in handling, e.to = n, e.user = u, e.ver > v
      PROVE  RemoveAhead(n, u, v)'
      BY <1>6, RestartEffect DEF RemoveAhead
<1>. QED BY <1>1, <1>4, <1>5, <1>6 DEF RemoveAhead

-----------------------------------------------------------------------------
(* How a request comes to hold a value it may install.                     *)
LEMMA FillEffect ==
    ASSUME TypeOK, TypeOK', VersionsOrdered, [Next]_vars, NEW q \in Req, Installs(q)'
    PROVE  \/ /\ KVGet(q) /\ At(q, "kvget") /\ Keeps(q)
              /\ req'[q].ver = kv[req[q].user]
              /\ UNCHANGED <<kv, cache, generation, sent, handling, lost, acked>>
           \/ /\ Installs(q) /\ req'[q] = req[q]
              /\ generation'[req[q].node] = generation[req[q].node]
              /\ ~Restart(req[q].node)
<1>1. CASE req'[q] = req[q] /\ At(q, "fill")
      <2> DEFINE n == req[q].node
      <2>1. /\ n \in Node /\ req[q].started \in Nat
            /\ req[q].started <= generation[n]
            /\ generation[n] \in Nat /\ generation'[n] \in Nat
            BY <1>1, NumberTypes DEF VersionsOrdered, RequestOrdered, At, TypeOK
      <2>2. generation'[n] = req[q].started
            BY <1>1 DEF Installs, StillCurrent
      <2>3. ASSUME NEW m \in Node, Restart(m) PROVE m # n /\ generation'[n] = generation[n]
            BY <1>1, <2>1, <2>3, RestartEffect DEF At
      <2>4. generation'[n] >= generation[n]
            <3>1. CASE \E m \in Node : Restart(m)
                  BY <2>1, <2>3, <3>1
            <3>2. CASE Grows
                  BY <2>1, <3>2 DEF Grows
            <3>. QED BY <3>1, <3>2, NextSplit, ServedGrows, ElsewhereGrows
      <2>. QED BY <1>1, <2>1, <2>2, <2>3, <2>4 DEF Installs, StillCurrent
<1>2. ASSUME NEW r \in Req, Served(r), ~(req'[q] = req[q] /\ At(q, "fill"))
      PROVE  KVGet(q)
      <2>1. req'[q].pc = "fill"
            BY DEF Installs, At
      <2>2. req'[q] # req[q] /\ r = q
            BY <1>2, <2>1, ServedOthers DEF Others, At
      <2>3. CASE Lookup(q)
            BY <2>1, <2>3, AnswerEffect, GotoEffect DEF Lookup, At
      <2>4. CASE FillIfCurrent(q)
            BY <2>1, <2>4, AnswerEffect DEF FillIfCurrent, At
      <2>5. CASE InvalidateBump(q) \/ InvalidateRemove(q)
            BY <2>1, <2>5, BumpEffect, RemoveEffect
      <2>6. CASE InvalidatePublish(q) \/ Finish(q)
            BY <2>1, <2>6, EndEffect DEF InvalidatePublish, Finish
      <2>7. CASE CurrentGeneration(q) \/ KVWrite(q)
            BY <2>1, <2>7, CurrentGenerationEffect, KVWriteEffect
      <2>8. ASSUME NEW n \in Node, NEW u \in User, NEW pc \in {"lookup", "kvset"},
                   Begin(q, n, u, pc)
            PROVE FALSE
            BY <2>1, <2>8, BeginEffect
      <2>. QED BY <1>2, <2>2, <2>3, <2>4, <2>5, <2>6, <2>7, <2>8 DEF Served, ReqStep
<1>3. CASE KVGet(q)
      <2>1. req'[q].pc = "fill"
            BY DEF Installs, At
      <2>. QED BY <1>3, <2>1, KVGetEffect DEF KVGet
<1>4. CASE Elsewhere
      BY <1>1, <1>4, ElsewhereReq DEF Installs, At
<1>5. ASSUME NEW m \in Node, Restart(m) PROVE req'[q] = req[q] /\ At(q, "fill")
      BY <1>5, RestartEffect DEF Installs, At
<1>. QED BY <1>1, <1>2, <1>3, <1>4, <1>5, NextSplit

(* The step of a write that makes every older value out of date excuses    *)
(* each of them.                                                           *)
LEMMA WriteExcuses ==
    ASSUME TypeOK, TypeOK', [Next]_vars, NEW n \in Node, NEW u \in User,
           NEW v \in Nat, v <= kv[u], kv'[u] # kv[u]
    PROVE  (BumpAhead(n, u, v) \/ lost[n][u] > v)'
<1>1. PICK r \in Req : KVWrite(r)
      BY DEF Next, ReqStep, Begin, Lookup, CurrentGeneration, KVGet,
         FillIfCurrent, InvalidateBump, InvalidateRemove, InvalidatePublish,
         Finish, HandleBump, DropEvent, HandleRemove, Expire, Restart, vars
<1>2. req[r].user \in User /\ kv[u] \in Nat
      BY <1>1, KVWriteEffect, NumberTypes DEF At
<1>3. req[r].user = u
      BY <1>1, <1>2, KVWriteEffect DEF TypeOK
<1>4. CASE Keeps(r) /\ req'[r].pc = "bump" /\ req'[r].ver = kv[req[r].user] + 1
      BY <1>2, <1>3, <1>4 DEF BumpAhead, Keeps
<1>5. CASE Lose(Node, req[r].user, kv[req[r].user] + 1)
      <2>1. kv[u] + 1 \in Nat
            BY <1>2
      <2>2. lost'[n][u] >= kv[u] + 1
            BY <1>3, <1>5, <2>1, LoseFacts
      <2>3. lost'[n][u] \in Nat
            BY DEF TypeOK, Version
      <2>. QED BY <1>2, <2>2, <2>3
<1>. QED BY <1>1, <1>4, <1>5, KVWriteEffect

(* A read that would be installed is current, or excused.                  *)
LEMMA FillCurrentInductive ==
    ASSUME TypeOK, TypeOK', VersionsOrdered, [Next]_vars,
           NEW q \in Req, FillCurrent(q)
    PROVE  FillCurrent(q)'
<1> USE NumberTypes
<1> DEFINE n == req[q].node
           u == req[q].user
           v == req[q].ver
<1>1. SUFFICES ASSUME Installs(q)',
                      (req[q].ver < kv[req[q].user])'
               PROVE  (BumpAhead(req[q].node, req[q].user, req[q].ver)
                         \/ lost[req[q].node][req[q].user] > req[q].ver)'
      BY DEF FillCurrent
<1>2. CASE KVGet(q) /\ Keeps(q) /\ At(q, "kvget") /\ req'[q].ver = kv[u] /\ UNCHANGED kv
      BY <1>1, <1>2 DEF Keeps, At
<1>3. CASE /\ Installs(q) /\ req'[q] = req[q]
           /\ generation'[n] = generation[n]
           /\ ~Restart(n)
      <2>1. /\ n \in Node /\ u \in User /\ v \in Nat
            /\ v <= kv[u] /\ kv[u] \in Nat /\ kv'[u] \in Nat
            BY <1>3 DEF Installs, At, VersionsOrdered, RequestOrdered, TypeOK, Version
      <2>2. CASE kv'[u] = kv[u]
            <3>1. BumpAhead(n, u, v) \/ lost[n][u] > v
                  BY <1>1, <1>3, <2>2 DEF FillCurrent
            <3>2. v < kv[u]
                  BY <1>1, <1>3, <2>2
            <3>3. CASE \A m \in Node : ~Restart(m)
                  <4>1. generation'[n] # generation[n] + 1 \/ generation[n] \notin Nat
                        BY <1>3
                  <4>. QED BY <1>3, <2>1, <3>1, <3>2, <3>3, <4>1, BumpAheadPersists
            <3>4. ASSUME NEW m \in Node, Restart(m)
                  PROVE  (BumpAhead(n, u, v) \/ lost[n][u] > v)'
                  <4>1. m # n
                        BY <1>3, <3>4
                  <4>. QED BY <1>3, <2>1, <3>1, <3>2, <3>4, <4>1, RestartPersists
            <3>. QED BY <1>3, <3>3, <3>4
      <2>3. CASE kv'[u] # kv[u]
            BY <1>3, <2>1, <2>3, WriteExcuses
      <2>. QED BY <2>2, <2>3
<1>. QED BY <1>1, <1>2, <1>3, FillEffect

(* An installable read holds nothing its node invalidated or answered.     *)
LEMMA FillSettledInductive ==
    ASSUME TypeOK, TypeOK', VersionsOrdered, [Next]_vars,
           NEW q \in Req, FillSettled(q)
    PROVE  FillSettled(q)'
<1> USE NumberTypes
<1>1. SUFFICES ASSUME Installs(q)'
               PROVE  /\ (req[q].ver >= acked[req[q].node][req[q].user])'
                      /\ \A w \in Req :
                            Invalidated(w, req[q].node, req[q].user)'
                                => req'[q].ver >= req'[w].ver
      BY DEF FillSettled
<1> DEFINE n == req[q].node
           u == req[q].user
           v == req[q].ver
<1>2. CASE /\ KVGet(q) /\ At(q, "kvget") /\ Keeps(q)
           /\ req'[q].ver = kv[req[q].user]
           /\ UNCHANGED <<kv, cache, generation, sent, handling, lost, acked>>
      <2>1. n \in Node /\ u \in User
            BY <1>2 DEF At
      <2>2. acked[n][u] <= kv[u]
            BY <2>1 DEF VersionsOrdered, EntryOrdered
      <2>3. ASSUME NEW w \in Req, Invalidated(w, req[q].node, req[q].user)'
            PROVE  req'[q].ver >= req'[w].ver
            <3>1. w # q
                  BY <1>1, <2>3 DEF Invalidated, Installs, At
            <3>2. req'[w] = req[w]
                  BY <1>2, <3>1, KVGetEffect DEF Others
            <3>. QED BY <1>2, <2>3, <3>2
                     DEF Invalidated, VersionsOrdered, RequestOrdered, Keeps
      <2>. QED BY <1>2, <2>1, <2>2, <2>3 DEF Keeps
<1>3. CASE /\ Installs(q) /\ req'[q] = req[q]
           /\ generation'[n] = generation[n]
      <2>1. /\ n \in Node /\ u \in User /\ v \in Nat /\ v >= acked[n][u]
            /\ \A w \in Req : Invalidated(w, n, u) => v >= req[w].ver
            BY <1>3 DEF Installs, At, FillSettled
      <2>2. v >= acked'[n][u]
            <3>1. ASSUME NEW r \in Req, At(r, "publish"), req[r].node = n,
                         req[r].user = u, acked'[n][u] = req[r].ver
                  PROVE  v >= acked'[n][u]
                  BY <2>1, <3>1 DEF Invalidated, At
            <3>. QED BY <2>1, <3>1, AckedEffect
      <2>3. ASSUME NEW w \in Req, Invalidated(w, n, u)'
            PROVE  v >= req'[w].ver
            <3>0. req'[w].pc \in {"remove", "publish"} /\ req'[w].node = n /\ req'[w].user = u
                  BY <1>3, <2>3 DEF Invalidated
            <3>1. CASE req'[w] = req[w]
                  BY <2>1, <3>0, <3>1 DEF Invalidated
            <3>2. CASE InvalidateBump(w)
                  BY <1>3, <3>0, <3>2, BumpEffect DEF Keeps
            <3>3. CASE InvalidateRemove(w)
                  BY <2>1, <3>0, <3>3, RemoveEffect DEF Keeps, Invalidated, At
            <3>4. CASE Elsewhere
                  BY <3>1, <3>4, ElsewhereReq
            <3>5. ASSUME NEW m \in Node, Restart(m) PROVE req'[w] = req[w]
                  BY <3>0, <3>5, RestartEffect
            <3>6. ASSUME NEW r \in Req, Served(r)
                  PROVE  req'[w] = req[w] \/ InvalidateBump(w) \/ InvalidateRemove(w)
                  <4>1. CASE r # w
                        BY <3>6, <4>1, ServedOthers DEF Others
                  <4>2. CASE Lookup(w)
                        BY <3>0, <4>2, AnswerEffect, GotoEffect DEF Lookup, At
                  <4>3. CASE FillIfCurrent(w)
                        BY <3>0, <4>3, AnswerEffect DEF FillIfCurrent, At
                  <4>4. CASE InvalidatePublish(w) \/ Finish(w)
                        BY <3>0, <4>4, EndEffect DEF InvalidatePublish, Finish
                  <4>5. CASE CurrentGeneration(w) \/ KVWrite(w) \/ KVGet(w)
                        BY <3>0, <4>5, CurrentGenerationEffect, KVWriteEffect, KVGetEffect
                  <4>6. ASSUME NEW m \in Node, NEW x \in User,
                               NEW pc \in {"lookup", "kvset"}, Begin(w, m, x, pc)
                        PROVE FALSE
                        BY <3>0, <4>6, BeginEffect
                  <4>. QED BY <3>6, <4>1, <4>2, <4>3, <4>4, <4>5, <4>6 DEF Served, ReqStep
            <3>. QED BY <3>1, <3>2, <3>3, <3>4, <3>5, <3>6, NextSplit
      <2>. QED BY <1>3, <2>2, <2>3
<1>. QED BY <1>1, <1>2, <1>3, FillEffect

(* Once a save is past its Remove the node holds nothing older.            *)
LEMMA CacheSettledInductive ==
    ASSUME TypeOK, TypeOK', [Next]_vars, NEW w \in Req, CacheSettled(w),
           \A r \in Req : FillSettled(r)
    PROVE  CacheSettled(w)'
<1> USE NumberTypes
<1>1. SUFFICES ASSUME At(w, "publish")',
                      cache'[req'[w].node][req'[w].user] # Absent
               PROVE  cache'[req'[w].node][req'[w].user] >= req'[w].ver
      BY DEF CacheSettled
<1>2. CASE InvalidateRemove(w)
      BY <1>1, <1>2, RemoveEffect DEF Keeps
<1>3. CASE At(w, "publish") /\ req'[w] = req[w]
      <2> DEFINE n == req[w].node
                 u == req[w].user
      <2>1. n \in Node /\ u \in User /\ req[w].ver \in Nat
            BY <1>3 DEF At
      <2>2. CASE cache'[n][u] = cache[n][u]
            BY <1>1, <1>3, <2>2 DEF CacheSettled
      <2>3. ASSUME NEW r \in Req, Installs(r), req[r].node = n, req[r].user = u,
                   cache'[n][u] = req[r].ver
            PROVE  cache'[n][u] >= req[w].ver
            BY <1>3, <2>3 DEF FillSettled, Invalidated, At
      <2>. QED BY <1>1, <1>3, <2>1, <2>2, <2>3, CacheEffect
<1>4. CASE Elsewhere
      BY <1>1, <1>3, <1>4, ElsewhereReq DEF At
<1>5. ASSUME NEW m \in Node, Restart(m) PROVE At(w, "publish") /\ req'[w] = req[w]
      BY <1>1, <1>5, RestartEffect DEF At
<1>6. ASSUME NEW r \in Req, Served(r)
      PROVE  (At(w, "publish") /\ req'[w] = req[w]) \/ InvalidateRemove(w)
      <2>1. CASE r # w
            BY <1>1, <1>6, <2>1, ServedOthers DEF Others, At
      <2>2. CASE Lookup(w)
            BY <1>1, <2>2, AnswerEffect, GotoEffect DEF Lookup, At
      <2>3. CASE FillIfCurrent(w)
            BY <1>1, <2>3, AnswerEffect DEF FillIfCurrent, At
      <2>4. CASE InvalidatePublish(w) \/ Finish(w)
            BY <1>1, <2>4, EndEffect DEF InvalidatePublish, Finish, At
      <2>5. CASE CurrentGeneration(w) \/ KVWrite(w) \/ KVGet(w) \/ InvalidateBump(w)
            BY <1>1, <2>5, CurrentGenerationEffect, KVWriteEffect, KVGetEffect,
               BumpEffect DEF At
      <2>6. ASSUME NEW m \in Node, NEW x \in User,
                   NEW pc \in {"lookup", "kvset"}, Begin(w, m, x, pc)
            PROVE FALSE
            BY <1>1, <2>6, BeginEffect DEF At
      <2>. QED BY <1>6, <2>1, <2>2, <2>3, <2>4, <2>5, <2>6 DEF Served, ReqStep
<1>. QED BY <1>1, <1>2, <1>3, <1>4, <1>5, <1>6, NextSplit

(* A read from the store is at least as new as anything its node answered. *)
LEMMA ReadSettledInductive ==
    ASSUME TypeOK, TypeOK', VersionsOrdered, [Next]_vars, NEW q \in Req,
           ReadSettled(q)
    PROVE  ReadSettled(q)'
<1> USE NumberTypes
<1>1. SUFFICES ASSUME req'[q].pc = "fill"
               PROVE  req'[q].ver >= req'[q].floor
      BY DEF ReadSettled, At
<1>2. CASE req'[q] = req[q]
      BY <1>1, <1>2 DEF ReadSettled, At
<1>3. CASE KVGet(q)
      <2>1. req[q].pc = "kvget" /\ Keeps(q) /\ req'[q].ver = kv[req[q].user]
            BY <1>1, <1>3, KVGetEffect DEF At
      <2> DEFINE n == req[q].node
                 u == req[q].user
      <2>2. /\ req[q].floor <= acked[n][u] /\ acked[n][u] <= kv[u]
            /\ req[q].floor \in Nat /\ acked[n][u] \in Nat /\ kv[u] \in Nat
            BY <2>1 DEF VersionsOrdered, RequestOrdered, EntryOrdered
      <2>. QED BY <2>1, <2>2 DEF Keeps
<1>4. CASE Elsewhere
      BY <1>2, <1>4, ElsewhereReq
<1>5. ASSUME NEW m \in Node, Restart(m) PROVE req'[q] = req[q]
      BY <1>1, <1>5, RestartEffect
<1>6. ASSUME NEW r \in Req, Served(r)
      PROVE  req'[q] = req[q] \/ KVGet(q)
      <2>1. CASE r # q
            BY <1>6, <2>1, ServedOthers DEF Others
      <2>2. CASE Lookup(q)
            BY <1>1, <2>2, AnswerEffect, GotoEffect DEF Lookup, At
      <2>3. CASE FillIfCurrent(q)
            BY <1>1, <2>3, AnswerEffect DEF FillIfCurrent, At
      <2>4. CASE InvalidatePublish(q) \/ Finish(q)
            BY <1>1, <2>4, EndEffect DEF InvalidatePublish, Finish
      <2>5. CASE \/ CurrentGeneration(q) \/ KVWrite(q)
                 \/ InvalidateBump(q) \/ InvalidateRemove(q)
            BY <1>1, <2>5, CurrentGenerationEffect, KVWriteEffect, BumpEffect,
               RemoveEffect
      <2>6. ASSUME NEW m \in Node, NEW x \in User,
                   NEW pc \in {"lookup", "kvset"}, Begin(q, m, x, pc)
            PROVE FALSE
            BY <1>1, <2>6, BeginEffect
      <2>. QED BY <1>6, <2>1, <2>2, <2>3, <2>4, <2>5, <2>6 DEF Served, ReqStep
<1>. QED BY <1>2, <1>3, <1>4, <1>5, <1>6, NextSplit

-----------------------------------------------------------------------------
(* The steps that leave the store alone keep an excuse, unless the entry   *)
(* itself is removed.                                                      *)
LEMMA StaleInductive ==
    ASSUME TypeOK, TypeOK', VersionsOrdered, [Next]_vars,
           \A r \in Req : FillCurrent(r), StaleOnlyWhileInvalidating
    PROVE  StaleOnlyWhileInvalidating'
<1> SUFFICES ASSUME NEW n \in Node, NEW u \in User, NEW v \in Nat,
                    cache'[n][u] = v, v < kv'[u]
             PROVE  (RemoveAhead(n, u, v) \/ lost[n][u] > v)'
    <2>1. ASSUME NEW n \in Node, NEW u \in User,
                 (cache[n][u] # Absent)', (cache[n][u] < kv[u])'
          PROVE  \E v \in Nat : /\ cache'[n][u] = v /\ v < kv'[u]
          BY <2>1 DEF TypeOK, Version, Absent
    <2>2. ASSUME NEW n \in Node, NEW u \in User, NEW v \in Nat,
                 cache'[n][u] = v, (RemoveAhead(n, u, v) \/ lost[n][u] > v)'
          PROVE  (RemoveAhead(n, u, cache[n][u]) \/ lost[n][u] > cache[n][u])'
          BY <2>2 DEF RemoveAhead, BumpAhead
    <2>. QED BY <2>1, <2>2 DEF StaleOnlyWhileInvalidating
<1>1. /\ kv[u] \in Nat /\ kv'[u] \in Nat
      /\ cache[n][u] \in Nat \cup {Absent}
      /\ cache[n][u] <= kv[u]
      BY DEF TypeOK, Version, VersionsOrdered, EntryOrdered
<1>2. CASE cache[n][u] = v /\ kv'[u] = kv[u]
      <2>1. v < kv[u] /\ (RemoveAhead(n, u, v) \/ lost[n][u] > v)
            BY <1>2 DEF StaleOnlyWhileInvalidating, Absent
      <2>2. CASE \A m \in Node : ~Restart(m)
            <3>1. cache'[n][u] # Absent
                  BY DEF Absent
            <3>. QED BY <2>1, <2>2, <3>1, RemoveAheadPersists
      <2>3. ASSUME NEW m \in Node, Restart(m)
            PROVE  (RemoveAhead(n, u, v) \/ lost[n][u] > v)'
            <3>1. m # n
                  BY <2>3, RestartEffect DEF Absent
            <3>. QED BY <2>1, <2>3, <3>1, RestartPersists
      <2>. QED BY <2>2, <2>3
<1>3. CASE cache[n][u] = v /\ kv'[u] # kv[u]
      BY <1>1, <1>3, WriteExcuses DEF RemoveAhead
<1>4. CASE cache[n][u] # v
      <2>1. PICK r \in Req : /\ FillIfCurrent(r) /\ Installs(r) /\ req[r].node = n
                             /\ req[r].user = u /\ req[r].ver = v
            BY <1>4, CacheEffect DEF Absent
      <2>2. UNCHANGED <<kv, generation, sent, handling, lost>>
            BY <2>1 DEF FillIfCurrent
      <2>3. BumpAhead(n, u, v) \/ lost[n][u] > v
            BY <2>1, <2>2 DEF FillCurrent
      <2>4. BumpAhead(n, u, v) => BumpAhead(n, u, v)'
            <3>1. req[r].pc = "fill" /\ Others(r)
                  BY <2>1, ServedOthers DEF Installs, At, Served, ReqStep
            <3>. QED BY <2>2, <3>1 DEF BumpAhead, Others
      <2>. QED BY <2>2, <2>3, <2>4 DEF RemoveAhead
<1>. QED BY <1>2, <1>3, <1>4

LEMMA AnsweredInductive ==
    ASSUME TypeOK, TypeOK', [Next]_vars, AnsweredWriteIsNeverUncached,
           \A r \in Req : FillSettled(r) /\ CacheSettled(r)
    PROVE  AnsweredWriteIsNeverUncached'
<1> USE NumberTypes
<1> SUFFICES ASSUME NEW n \in Node, NEW u \in User, cache'[n][u] # Absent
             PROVE  cache'[n][u] >= acked'[n][u]
    BY DEF AnsweredWriteIsNeverUncached
<1>1. CASE cache'[n][u] = cache[n][u] /\ acked'[n][u] = acked[n][u]
      BY <1>1 DEF AnsweredWriteIsNeverUncached
<1>2. ASSUME NEW r \in Req, InvalidatePublish(r), At(r, "publish"),
             req[r].node = n, req[r].user = u, acked'[n][u] = req[r].ver,
             UNCHANGED cache
      PROVE  cache'[n][u] >= acked'[n][u]
      BY <1>2 DEF CacheSettled
<1>3. ASSUME NEW r \in Req, FillIfCurrent(r), Installs(r), req[r].node = n,
             req[r].user = u, cache'[n][u] = req[r].ver
      PROVE  cache'[n][u] >= acked'[n][u]
      BY <1>3 DEF FillSettled, FillIfCurrent
<1>. QED BY <1>1, <1>2, <1>3, CacheEffect, AckedEffect

LEMMA ReadsOwnInductive ==
    ASSUME TypeOK, TypeOK', VersionsOrdered, [Next]_vars, ReadsOwnNodesWrites,
           AnsweredWriteIsNeverUncached, \A r \in Req : ReadSettled(r)
    PROVE  ReadsOwnNodesWrites'
<1> USE NumberTypes
<1> SUFFICES ASSUME NEW q \in Req, req'[q].pc = "done"
             PROVE  req'[q].ver >= req'[q].floor
    BY DEF ReadsOwnNodesWrites, At
<1>1. CASE req'[q] = req[q]
      BY <1>1 DEF ReadsOwnNodesWrites, At
<1>2. CASE Lookup(q)
      <2>1. req[q].pc = "lookup"
            BY <1>2 DEF Lookup, At
      <2> DEFINE n == req[q].node
                 u == req[q].user
      <2>2. Hit(n, u) /\ Answer(q, cache[n][u])
            BY <1>2, <2>1, GotoEffect DEF Lookup
      <2>3. n \in Node /\ u \in User
            BY <2>1
      <2>4. /\ cache[n][u] >= acked[n][u] /\ acked[n][u] >= req[q].floor
            /\ cache[n][u] \in Nat /\ acked[n][u] \in Nat /\ req[q].floor \in Nat
            BY <2>1, <2>2, <2>3
               DEF Hit, AnsweredWriteIsNeverUncached, VersionsOrdered, RequestOrdered
      <2>5. req'[q].ver = cache[n][u] /\ req'[q].floor = req[q].floor
            BY <2>1, <2>2, AnswerEffect DEF Keeps
      <2>. QED BY <2>4, <2>5
<1>3. CASE FillIfCurrent(q)
      <2>1. req[q].pc = "fill" /\ Answer(q, req[q].ver)
            BY <1>3 DEF FillIfCurrent, At
      <2>. QED BY <2>1, AnswerEffect DEF ReadSettled, At, Keeps
<1>4. CASE Elsewhere
      BY <1>1, <1>4, ElsewhereReq
<1>5. ASSUME NEW m \in Node, Restart(m) PROVE req'[q] = req[q]
      BY <1>5, RestartEffect
<1>6. ASSUME NEW r \in Req, Served(r)
      PROVE  req'[q] = req[q] \/ Lookup(q) \/ FillIfCurrent(q)
      <2>1. CASE r # q
            BY <1>6, <2>1, ServedOthers DEF Others
      <2>2. CASE InvalidatePublish(q) \/ Finish(q)
            BY <2>2, EndEffect DEF InvalidatePublish, Finish
      <2>3. CASE \/ CurrentGeneration(q) \/ KVWrite(q) \/ KVGet(q)
                 \/ InvalidateBump(q) \/ InvalidateRemove(q)
            BY <2>3, CurrentGenerationEffect, KVWriteEffect, KVGetEffect,
               BumpEffect, RemoveEffect
      <2>4. ASSUME NEW m \in Node, NEW x \in User,
                   NEW pc \in {"lookup", "kvset"}, Begin(q, m, x, pc)
            PROVE FALSE
            BY <2>4, BeginEffect
      <2>. QED BY <1>6, <2>1, <2>2, <2>3, <2>4 DEF Served, ReqStep
<1>. QED BY <1>1, <1>2, <1>3, <1>4, <1>5, <1>6, NextSplit

-----------------------------------------------------------------------------
(* The strengthened invariant holds in every reachable state.              *)
THEOREM Invariance == Spec => []IInv
<1>1. Init => IInv
      <2> SUFFICES ASSUME Init PROVE IInv
          OBVIOUS
      <2>1. TypeOK
            BY DEF Init, TypeOK, Version, Absent
      <2>2. \A r \in Req : req[r].pc = "idle"
            BY DEF Init, Idle
      <2>3. \A n \in Node, u \in User : /\ cache[n][u] = Absent
                                        /\ kv[u] = 0 /\ acked[n][u] = 0
            BY DEF Init
      <2>4. VersionsOrdered
            BY <2>2, <2>3 DEF VersionsOrdered, EntryOrdered, RequestOrdered, Absent
      <2>5. /\ StaleOnlyWhileInvalidating
            /\ AnsweredWriteIsNeverUncached
            BY <2>3 DEF StaleOnlyWhileInvalidating, AnsweredWriteIsNeverUncached
      <2>6. \A r \in Req : /\ FillCurrent(r) /\ FillSettled(r)
                           /\ CacheSettled(r) /\ ReadSettled(r)
            BY <2>2 DEF FillCurrent, FillSettled, CacheSettled, ReadSettled,
               Installs, At
      <2>7. ReadsOwnNodesWrites
            BY <2>2 DEF ReadsOwnNodesWrites, At
      <2>. QED BY <2>1, <2>4, <2>5, <2>6, <2>7 DEF IInv
<1>2. IInv /\ [Next]_vars => IInv'
      <2> SUFFICES ASSUME IInv, [Next]_vars PROVE IInv'
          OBVIOUS
      <2>1. TypeOK /\ TypeOK'
            BY TypeOKInductive DEF IInv
      <2>2. VersionsOrdered'
            BY <2>1, VersionsInductive DEF IInv
      <2>3. ASSUME NEW r \in Req
            PROVE  FillCurrent(r)' /\ FillSettled(r)' /\ CacheSettled(r)' /\ ReadSettled(r)'
            BY <2>1, FillCurrentInductive, FillSettledInductive,
               CacheSettledInductive, ReadSettledInductive DEF IInv
      <2>4. StaleOnlyWhileInvalidating'
            BY <2>1, StaleInductive DEF IInv
      <2>5. AnsweredWriteIsNeverUncached' /\ ReadsOwnNodesWrites'
            BY <2>1, AnsweredInductive, ReadsOwnInductive DEF IInv
      <2>. QED BY <2>1, <2>2, <2>3, <2>4, <2>5 DEF IInv
<1>. QED BY <1>1, <1>2, PTL DEF Spec

(* No node ever holds an out-of-date blob unless the invalidation that     *)
(* removes it is still on its way, or was lost.                            *)
THEOREM Staleness == Spec => []StaleOnlyWhileInvalidating
<1>1. IInv => StaleOnlyWhileInvalidating
      BY DEF IInv
<1>. QED BY <1>1, Invariance, PTL

(* A Get returns nothing older than what its node had answered before.     *)
THEOREM ReadYourWrites == Spec => []ReadsOwnNodesWrites
<1>1. IInv => ReadsOwnNodesWrites
      BY DEF IInv
<1>. QED BY <1>1, Invariance, PTL

(* A blob an answered save replaced never comes back to that node's cache. *)
THEOREM AnsweredStays == Spec => []AnsweredWriteIsNeverUncached
<1>1. IInv => AnsweredWriteIsNeverUncached
      BY DEF IInv
<1>. QED BY <1>1, Invariance, PTL

-----------------------------------------------------------------------------
(* The refinement of PreferencesPromise.                                   *)
calls == [r \in Req |-> CallOf(req[r])]

LEMMA CallChanges ==
    ASSUME NEW r \in Req, Others(r)
    PROVE  calls' = [calls EXCEPT ![r] = CallOf(req'[r])]
  BY DEF calls, Others

LEMMA CallOfRequest ==
    ASSUME TypeOK, NEW r \in Req, req[r].pc # "idle"
    PROVE  CallOf(req[r]) =
              [op |-> Op(req[r].pc), node |-> req[r].node, user |-> req[r].user,
               floor |-> req[r].floor,
               ver |-> IF Op(req[r].pc) = "get" THEN 0 ELSE req[r].ver]
  BY DEF CallOf, Idle

LEMMA CallOfIdle ==
    ASSUME TypeOK, NEW r \in Req, req[r].pc = "idle"
    PROVE  CallOf(req[r]) = [op |-> "none"]
  BY DEF CallOf, Idle, TypeOK, Request, PC, GetPC, WritePC

LEMMA Ops ==
    /\ Op("lookup") = "get" /\ Op("generation") = "get"
    /\ Op("kvget") = "get" /\ Op("fill") = "get"
    /\ Op("kvset") = "save" /\ Op("done") = "answered"
    /\ Op("bump") = "stored" /\ Op("remove") = "stored" /\ Op("publish") = "stored"
  BY DEF Op, GetPC

(* A step of a request maps to the step of its call, or to nothing.        *)
LEMMA ServedRefines ==
    ASSUME IInv, IInv', NEW r \in Req, Served(r)
    PROVE  [Promise!Next]_(Promise!vars)
<1> USE Ops, NumberTypes
<1>0. /\ TypeOK /\ TypeOK' /\ VersionsOrdered /\ VersionsOrdered'
      /\ ReadsOwnNodesWrites'
      BY DEF IInv
<1>1. /\ calls' = [calls EXCEPT ![r] = CallOf(req'[r])]
      /\ calls[r] = CallOf(req[r])
      /\ calls \in [Req -> {CallOf(req[q]) : q \in Req}]
      BY <1>0, ServedOthers, CallChanges DEF calls
<1>2. ASSUME UNCHANGED <<kv, acked>>, CallOf(req'[r]) = CallOf(req[r])
      PROVE  UNCHANGED Promise!vars
      <2>1. calls' = calls
            BY <1>1, <1>2
      <2>. QED BY <1>2, <2>1 DEF Promise!vars, calls
<1>3. /\ req[r].pc # "idle" =>
            CallOf(req[r]) =
              [op |-> Op(req[r].pc), node |-> req[r].node, user |-> req[r].user,
               floor |-> req[r].floor,
               ver |-> IF Op(req[r].pc) = "get" THEN 0 ELSE req[r].ver]
      /\ req'[r].pc # "idle" =>
            CallOf(req'[r]) =
              [op |-> Op(req'[r].pc), node |-> req'[r].node, user |-> req'[r].user,
               floor |-> req'[r].floor,
               ver |-> IF Op(req'[r].pc) = "get" THEN 0 ELSE req'[r].ver]
      /\ req[r].pc = "idle" => CallOf(req[r]) = Promise!None
      /\ req'[r].pc = "idle" => CallOf(req'[r]) = Promise!None
      <2>1. req'[r].pc = "idle" => req'[r] = Idle
            BY <1>0 DEF TypeOK, Request, PC, GetPC, WritePC
      <2>. QED BY <1>0, <2>1, CallOfIdle DEF CallOf, Idle, Promise!None
<1>4. ASSUME NEW n \in Node, NEW u \in User, NEW pc \in {"lookup", "kvset"},
             Begin(r, n, u, pc)
      PROVE  Promise!Next
      <2>1. /\ req[r].pc = "idle" /\ req'[r].pc = pc /\ req'[r].node = n
            /\ req'[r].user = u /\ req'[r].ver = 0 /\ req'[r].floor = acked[n][u]
            BY <1>0, <1>4, BeginEffect DEF At
      <2>2. Promise!Arrive(r, n, u, Op(pc))
            BY <1>1, <1>3, <1>4, <2>1 DEF Promise!Arrive, Begin, calls
      <2>. QED BY <1>4, <2>2 DEF Promise!Next
<1>5. CASE Lookup(r) \/ FillIfCurrent(r)
      <2>1. /\ req[r].pc \in {"lookup", "fill"}
            /\ UNCHANGED <<kv, acked>>
            BY <1>5 DEF Lookup, FillIfCurrent, At
      <2>2. CASE req'[r].pc = "done" /\ Keeps(r)
            <3> DEFINE v == req'[r].ver
            <3>1. /\ v \in Nat /\ req[r].floor \in Nat /\ kv[req[r].user] \in Nat
                  /\ req[r].floor <= v /\ v <= kv[req[r].user]
                  BY <1>0, <2>1, <2>2
                     DEF ReadsOwnNodesWrites, At, VersionsOrdered, RequestOrdered, Keeps,
                         TypeOK, Request, Version, Idle
            <3>2. v \in req[r].floor .. kv[req[r].user]
                  BY <3>1
            <3>3. /\ calls[r] = [op |-> "get", node |-> req[r].node,
                                 user |-> req[r].user, floor |-> req[r].floor, ver |-> 0]
                  /\ CallOf(req'[r]) = [op |-> "answered", node |-> req[r].node,
                                 user |-> req[r].user, floor |-> req[r].floor, ver |-> v]
                  BY <1>1, <1>3, <2>1, <2>2 DEF Keeps
            <3> HIDE DEF v
            <3>4. CallOf(req'[r]) = [calls[r] EXCEPT !.op = "answered", !.ver = v]
                  <4> DEFINE x == calls[r]
                             n == req[r].node
                             u == req[r].user
                             l == req[r].floor
                             e == 0
                             y == [op |-> "answered", node |-> n, user |-> u,
                                   floor |-> l, ver |-> e]
                             z == [op |-> "answered", node |-> n, user |-> u,
                                   floor |-> l, ver |-> v]
                  <4>1. x = [op |-> "get", node |-> n, user |-> u,
                             floor |-> l, ver |-> e]
                        BY <3>3
                  <4>2. CallOf(req'[r]) = z
                        BY <3>3
                  <4> HIDE DEF x, n, u, l, e
                  <4>3. [x EXCEPT !.op = "answered"] = y
                        BY <4>1
                  <4>4. [y EXCEPT !.ver = v] = z
                        OBVIOUS
                  <4>5. [x EXCEPT !.op = "answered", !.ver = v]
                           = [[x EXCEPT !.op = "answered"] EXCEPT !.ver = v]
                        OBVIOUS
                  <4>6. [x EXCEPT !.op = "answered", !.ver = v] = z
                        BY <4>3, <4>4, <4>5
                  <4>. QED BY <4>2, <4>6 DEF x
            <3>5. calls[r].op = "get" /\ calls[r].floor = req[r].floor
                  /\ calls[r].user = req[r].user
                  BY <3>3
            <3>6. calls' = [calls EXCEPT ![r] = [calls[r] EXCEPT !.op = "answered", !.ver = v]]
                  BY <1>1, <3>4
            <3>7. Promise!Reply(r)
                  BY <2>1, <3>2, <3>5, <3>6 DEF Promise!Reply, calls
            <3>. QED BY <3>7 DEF Promise!Next
      <2>3. CASE req'[r].pc = "generation" /\ Keeps(r) /\ Lookup(r)
            BY <1>2, <1>3, <2>1, <2>3 DEF Keeps, Lookup, At
      <2>4. \/ req'[r].pc = "done" /\ Keeps(r)
            \/ req'[r].pc = "generation" /\ Keeps(r) /\ Lookup(r)
            BY <1>0, <1>5, <2>1, AnswerEffect, GotoEffect DEF Lookup, FillIfCurrent
      <2>. QED BY <2>2, <2>3, <2>4
<1>6. CASE CurrentGeneration(r)
      <2>1. /\ req[r].pc = "generation" /\ req'[r].pc = "kvget" /\ Keeps(r)
            /\ UNCHANGED <<kv, acked>>
            BY <1>0, <1>6, CurrentGenerationEffect DEF At, CurrentGeneration
      <2>. QED BY <1>2, <1>3, <2>1 DEF Keeps
<1>7. ASSUME UNCHANGED <<kv, acked>>, req'[r].pc = "idle",
             req[r].pc \in {"kvget", "kvset", "done"}
      PROVE  Promise!Next
      <2>1. calls[r].op \in {"get", "save", "answered"}
            BY <1>1, <1>3, <1>7
      <2>2. Promise!Return(r)
            BY <1>1, <1>3, <1>7, <2>1 DEF Promise!Return, calls
      <2>. QED BY <2>2 DEF Promise!Next
<1>8. CASE KVGet(r)
      <2>1. req[r].pc = "kvget" /\ UNCHANGED <<kv, acked>>
            BY <1>8 DEF KVGet, At
      <2>2. CASE req'[r].pc = "idle"
            BY <1>7, <2>1, <2>2
      <2>3. CASE req'[r].pc = "fill" /\ Keeps(r)
            BY <1>2, <1>3, <2>1, <2>3 DEF Keeps
      <2>. QED BY <1>0, <1>8, <2>2, <2>3, KVGetEffect
<1>9. CASE Finish(r)
      <2>1. /\ req[r].pc = "done" /\ req'[r].pc = "idle" /\ UNCHANGED <<kv, acked>>
            BY <1>0, <1>9, EndEffect DEF Finish, At
      <2>. QED BY <1>7, <2>1
<1>10. CASE KVWrite(r)
      <2>1. req[r].pc = "kvset" /\ UNCHANGED acked
            BY <1>10 DEF KVWrite, At
      <2>2. /\ calls[r] = [op |-> "save", node |-> req[r].node,
                           user |-> req[r].user, floor |-> req[r].floor, ver |-> req[r].ver]
            /\ calls[r].op = "save" /\ calls[r].user = req[r].user
            BY <1>1, <1>3, <2>1
      <2>3. CASE UNCHANGED kv /\ req'[r].pc = "idle"
            BY <1>7, <2>1, <2>3
      <2>4. CASE /\ kv[req[r].user] < MaxVersion
                 /\ kv' = [kv EXCEPT ![req[r].user] = @ + 1]
                 /\ req'[r].pc = "idle"
            <3>1. Promise!Store(r)
                  BY <1>1, <1>3, <2>1, <2>2, <2>4 DEF Promise!Store, calls
            <3>. QED BY <3>1 DEF Promise!Next
      <2>5. CASE /\ kv[req[r].user] < MaxVersion
                 /\ kv' = [kv EXCEPT ![req[r].user] = @ + 1]
                 /\ req'[r].pc = "bump" /\ Keeps(r)
                 /\ req'[r].ver = kv[req[r].user] + 1
            <3> DEFINE v == kv[req[r].user] + 1
            <3>1. CallOf(req'[r]) = [op |-> "stored", node |-> req[r].node,
                           user |-> req[r].user, floor |-> req[r].floor, ver |-> v]
                  BY <1>3, <2>5 DEF Keeps
            <3> HIDE DEF v
            <3>2. CallOf(req'[r]) = [calls[r] EXCEPT !.op = "stored", !.ver = v]
                  <4> DEFINE x == calls[r]
                             n == req[r].node
                             u == req[r].user
                             l == req[r].floor
                             e == req[r].ver
                             y == [op |-> "stored", node |-> n, user |-> u,
                                   floor |-> l, ver |-> e]
                             z == [op |-> "stored", node |-> n, user |-> u,
                                   floor |-> l, ver |-> v]
                  <4>1. x = [op |-> "save", node |-> n, user |-> u,
                             floor |-> l, ver |-> e]
                        BY <2>2
                  <4>2. CallOf(req'[r]) = z
                        BY <3>1
                  <4> HIDE DEF x, n, u, l, e
                  <4>3. [x EXCEPT !.op = "stored"] = y
                        BY <4>1
                  <4>4. [y EXCEPT !.ver = v] = z
                        OBVIOUS
                  <4>5. [x EXCEPT !.op = "stored", !.ver = v]
                           = [[x EXCEPT !.op = "stored"] EXCEPT !.ver = v]
                        OBVIOUS
                  <4>6. [x EXCEPT !.op = "stored", !.ver = v] = z
                        BY <4>3, <4>4, <4>5
                  <4>. QED BY <4>2, <4>6 DEF x
            <3>3. calls' = [calls EXCEPT ![r] = [calls[r] EXCEPT !.op = "stored",
                                                                 !.ver = v]]
                  BY <1>1, <3>2
            <3>4. Promise!Store(r)
                  BY <2>1, <2>2, <2>5, <3>3 DEF Promise!Store, calls, v
            <3>. QED BY <3>4 DEF Promise!Next
      <2>6. \/ UNCHANGED kv /\ req'[r].pc = "idle"
            \/ /\ kv[req[r].user] < MaxVersion
               /\ kv' = [kv EXCEPT ![req[r].user] = @ + 1]
               /\ req'[r].pc = "idle"
            \/ /\ kv[req[r].user] < MaxVersion
               /\ kv' = [kv EXCEPT ![req[r].user] = @ + 1]
               /\ req'[r].pc = "bump" /\ Keeps(r)
               /\ req'[r].ver = kv[req[r].user] + 1
            <3>1. \/ UNCHANGED kv
                  \/ /\ kv[req[r].user] < MaxVersion
                     /\ kv' = [kv EXCEPT ![req[r].user] = @ + 1]
                  BY <1>10 DEF KVWrite
            <3>2. kv' = kv => req'[r].pc = "idle"
                  <4>1. kv[req[r].user] \in Nat /\ req[r].user \in User
                        BY <1>0, <2>1
                  <4>2. kv' = [kv EXCEPT ![req[r].user] = @ + 1] => kv' # kv
                        BY <1>0, <4>1 DEF TypeOK
                  <4>. QED BY <1>0, <1>10, <4>2, KVWriteEffect
            <3>. QED BY <1>0, <1>10, <3>1, <3>2, KVWriteEffect
      <2>. QED BY <2>3, <2>4, <2>5, <2>6
<1>11. CASE InvalidateBump(r) \/ InvalidateRemove(r)
      <2>1. UNCHANGED <<kv, acked>>
            BY <1>11 DEF InvalidateBump, InvalidateRemove
      <2>2. /\ Keeps(r) /\ req'[r].ver = req[r].ver
            /\ req[r].pc \in {"bump", "remove"} /\ req'[r].pc \in {"remove", "publish"}
            BY <1>0, <1>11, BumpEffect, RemoveEffect DEF At
      <2>. QED BY <1>2, <1>3, <2>1, <2>2 DEF Keeps
<1>12. CASE InvalidatePublish(r)
      <2>1. /\ req[r].pc = "publish" /\ req'[r].pc = "idle" /\ UNCHANGED kv
            /\ acked' = [acked EXCEPT ![req[r].node][req[r].user] = Max2(@, req[r].ver)]
            BY <1>0, <1>12, EndEffect DEF InvalidatePublish, At
      <2>2. /\ calls[r].op = "stored" /\ calls[r].node = req[r].node
            /\ calls[r].user = req[r].user /\ calls[r].ver = req[r].ver
            BY <1>1, <1>3, <2>1
      <2>3. Promise!Acknowledge(r)
            BY <1>1, <1>3, <2>1, <2>2 DEF Promise!Acknowledge, Max2, calls
      <2>. QED BY <2>3 DEF Promise!Next
<1>. QED BY <1>4, <1>5, <1>6, <1>8, <1>9, <1>10, <1>11, <1>12 DEF Served, ReqStep

(* The cluster of caches implements the promise of one store.              *)
THEOREM Refinement == Spec => ImplementsPromise
<1>1. Init => Promise!Init
      BY DEF Init, Promise!Init, Promise!None, CallOf
<1>2. IInv /\ IInv' /\ [Next]_vars => [Promise!Next]_(Promise!vars)
      <2> SUFFICES ASSUME IInv, IInv', [Next]_vars
                   PROVE  [Promise!Next]_(Promise!vars)
          OBVIOUS
      <2>1. CASE \E r \in Req : Served(r)
            BY <2>1, ServedRefines
      <2>2. CASE Elsewhere
            BY <2>2, ElsewhereReq DEF Promise!vars
      <2>3. ASSUME NEW n \in Node, Restart(n)
            PROVE  Promise!Cut(n)
            <3>0. TypeOK
                  BY DEF IInv
            <3>1. UNCHANGED <<kv, acked>>
                  BY <2>3 DEF Restart
            <3>2. ASSUME NEW r \in Req
                  PROVE  CallOf(req'[r]) =
                            IF CallOf(req[r]) # Promise!None /\ CallOf(req[r]).node = n
                            THEN Promise!None ELSE CallOf(req[r])
                  <4>1. req'[r] = IF Running(r, n) THEN Idle ELSE req[r]
                        BY <2>3 DEF Restart
                  <4>2. CASE req[r].pc = "idle"
                        BY <3>0, <4>1, <4>2, CallOfIdle DEF Running, Promise!None
                  <4>3. CASE req[r].pc # "idle"
                        <5>0. CallOf(req[r]) =
                                [op |-> Op(req[r].pc), node |-> req[r].node,
                                 user |-> req[r].user, floor |-> req[r].floor,
                                 ver |-> IF Op(req[r].pc) = "get" THEN 0
                                         ELSE req[r].ver]
                              BY <3>0, <4>3, CallOfRequest
                        <5>1. /\ CallOf(req[r]).node = req[r].node
                              /\ CallOf(req[r]).op = Op(req[r].pc)
                              BY <5>0
                        <5>2. CallOf(req[r]) # Promise!None
                              <6>1. req[r].pc \in PC
                                    BY <3>0, <4>3, RequestType DEF Request
                              <6>2. Op(req[r].pc) # "none"
                                    BY <6>1, Ops DEF PC, GetPC, WritePC
                              <6>3. Promise!None.op = "none"
                                    BY DEF Promise!None
                              <6>. QED BY <5>1, <6>2, <6>3
                        <5>3. CallOf(Idle) = Promise!None
                              BY DEF CallOf, Promise!None
                        <5>. QED BY <4>1, <4>3, <5>1, <5>2, <5>3 DEF Running
                  <4>. QED BY <4>2, <4>3
            <3>. QED BY <3>1, <3>2 DEF Promise!Cut
      <2>. QED BY <2>1, <2>2, <2>3, NextSplit DEF Promise!Next
<1>. QED BY <1>1, <1>2, Invariance, PTL DEF Spec, Promise!Spec, ImplementsPromise
=============================================================================
