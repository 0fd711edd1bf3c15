------------------------- MODULE PreferencesPromise -------------------------
(***************************************************************************)
(* What the caching preference store promises the handlers that call it    *)
(* (server/preferences_cache.go, lines 25-42), with no cache in it: a Get  *)
(* returns a version that was stored, never one older than the newest save *)
(* its own node had answered when the Get arrived, and possibly older than *)
(* a save answered elsewhere.                                              *)
(***************************************************************************)
EXTENDS Integers

CONSTANTS Node, User, Req, MaxVersion

VARIABLES
    stored,   \* per user: the version the durable store is at
    acked,    \* per node and user: the newest save the node answered
    call      \* the calls in progress

vars == <<stored, acked, call>>

None == [op |-> "none"]

Init ==
    /\ stored = [u \in User |-> 0]
    /\ acked = [n \in Node |-> [u \in User |-> 0]]
    /\ call = [r \in Req |-> None]

Arrive(r, n, u, op) ==
    /\ call[r] = None
    /\ call' = [call EXCEPT ![r] = [op |-> op, node |-> n, user |-> u,
                                    floor |-> acked[n][u], ver |-> 0]]
    /\ UNCHANGED <<stored, acked>>

\* A Get answers: stale perhaps, but not staler than its own node.
Reply(r) ==
    /\ call[r].op = "get"
    /\ \E v \in call[r].floor .. stored[call[r].user] :
          call' = [call EXCEPT ![r] = [@ EXCEPT !.op = "answered", !.ver = v]]
    /\ UNCHANGED <<stored, acked>>

\* A save takes effect once, before it is answered ...
Store(r) ==
    LET u == call[r].user
    IN  /\ call[r].op = "save"
        /\ stored[u] < MaxVersion
        /\ stored' = [stored EXCEPT ![u] = @ + 1]
        /\ \/ call' = [call EXCEPT ![r] = [@ EXCEPT !.op = "stored", !.ver = stored[u] + 1]]
           \/ call' = [call EXCEPT ![r] = None]   \* ... or its caller is told it failed
        /\ UNCHANGED acked

Acknowledge(r) ==
    LET n == call[r].node
        u == call[r].user
    IN  /\ call[r].op = "stored"
        /\ acked' = [acked EXCEPT ![n][u] = IF @ < call[r].ver THEN call[r].ver
                                                               ELSE @]
        /\ call' = [call EXCEPT ![r] = None]
        /\ UNCHANGED stored

Return(r) ==
    /\ call[r].op \in {"answered", "get", "save"}   \* an answer, or an error
    /\ call' = [call EXCEPT ![r] = None]
    /\ UNCHANGED <<stored, acked>>

\* A node goes down with the calls it was serving.
Cut(n) ==
    /\ call' = [r \in Req |-> IF call[r] # None /\ call[r].node = n
                              THEN None ELSE call[r]]
    /\ UNCHANGED <<stored, acked>>

Next ==
    \/ \E r \in Req, n \in Node, u \in User, op \in {"get", "save"} :
          Arrive(r, n, u, op)
    \/ \E r \in Req : Reply(r) \/ Store(r) \/ Acknowledge(r) \/ Return(r)
    \/ \E n \in Node : Cut(n)

Spec == Init /\ [][Next]_vars
=============================================================================
