----------------------------- MODULE MCWebLives -----------------------------
(* What a tab keeps alive while answers are under way, in one run: one map *)
(* (MapInstance) or the panels waiting for answers (CachedClient).  They   *)
(* share no state: `scene` says which of them moves, and the other rests   *)
(* unmounted.                                                              *)
EXTENDS MapInstance, Sequences

CONSTANTS Key, Component, MaxCached, Expires

VARIABLES scene, answers, inflight, comp

Panels == INSTANCE CachedClient

ASSUME PanelsAssumption == Panels!BoundsAssumption

panel_vars == <<answers, inflight, comp>>
lives == <<scene, vars, panel_vars>>

\* No map: the component has not mounted.
NoMap ==
    /\ mounted = FALSE /\ preview = FALSE /\ view = "coord" /\ focus = 0 /\ openAt = FALSE
    /\ focusRef = 0 /\ applied = 0 /\ dirty = {}
    /\ stage = [a \in Attempts |-> "unused"] /\ live = 0
    /\ canvas = [a \in Attempts |-> "none"] /\ detailed = {}
    /\ current = 0 /\ ready = FALSE /\ loaded = FALSE /\ failure = "none" /\ credited = FALSE
    /\ deadlines = {} /\ archive = "unread" /\ engine = "absent"
    /\ picture = "nothing" /\ camera = Nowhere /\ moves = 0

LivesInit ==
    /\ Panels!Init
    /\ \/ scene = "panels" /\ NoMap
       \/ scene = "map" /\ Init

LivesNext ==
    /\ UNCHANGED scene
    /\ \/ scene = "panels" /\ Panels!Next /\ UNCHANGED vars
       \/ scene = "map" /\ Next /\ UNCHANGED panel_vars

LivesSpec == LivesInit /\ [][LivesNext]_lives /\ Panels!Fairness /\ Fairness

-----------------------------------------------------------------------------
(* A panel that stays on a token ends up showing that token's answer, and  *)
(* none ever waits for a reply that is not coming (cached_client.ts).      *)
EveryPanelIsAnswered == Panels!EveryPanelIsAnswered
=============================================================================
