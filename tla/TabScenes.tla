------------------------------ MODULE TabScenes ------------------------------
(* Model values for what a tab keeps, as scenes of one run: the sidebar    *)
(* and the clicks that open it (Sidebar), the links of other plugins       *)
(* (BridgeLinks), the questions all its surfaces share (TabStores).        *)
EXTENDS Sidebar, BridgeLinks, TabStores

CONSTANTS h1, h2

Anchor(origin, path, href, type, payload) ==
    [origin |-> origin, path |-> path, href |-> href, type |-> type, payload |-> payload, page |-> FALSE, rel |-> {}]

\* Links the server writes, links of another site, of another path and of a
\* later build, a payload no panel takes, and a link for the standalone page.
Anchors ==
    {Anchor("own", "decorate", "rooted", "dtg", 1), Anchor("own", "decorate", "absolute", "dtg", 2),
     Anchor("own", "decorate", "rooted", "note", 0), Anchor("own", "decorate", "rooted", "later", 1),
     Anchor("other", "decorate", "absolute", "note", 1), Anchor("own", "other", "rooted", "note", 1),
     Anchor("own", "decorate", "rooted", "note", 1),
     [Anchor("own", "decorate", "rooted", "note", 1) EXCEPT !.page = TRUE, !.rel = {"noopener"}]}

NoColor == [form |-> "other", parts |-> <<0, 0, 0>>]
Grounds ==
    {[root |-> [form |-> "hex3", parts |-> <<15, 15, 15>>], body |-> NoColor],
     [root |-> NoColor, body |-> [form |-> "rgb", parts |-> <<20, 30, 60>>]],
     [root |-> NoColor, body |-> NoColor]}

-----------------------------------------------------------------------------
Asked(token, label, reference) == [type |-> "dtg", token |-> token, label |-> label, reference |-> reference]
LinkRequests == {Asked("a", "", <<>>), Asked("b", "x", <<5>>), Asked("b", "x", <<4>>)}
LinkAnswers ==
    [kind : {"ok"}, wire : {"link", "other"}, reason : {""}]
        \cup [kind : {"refused"}, wire : {"error"}, reason : {"disabled", "novel"}]

-----------------------------------------------------------------------------
Header(tile, min, max) ==
    [whole |-> TRUE, magic |-> TRUE, version |-> 3, tile |-> tile, min |-> min, max |-> max]
FileHeaders == {Header(1, 0, 9), Header(1, 9, 12), Header(2, 9, 12)}

-----------------------------------------------------------------------------
tab_vars == <<sidebar_vars, bridge_vars, store_vars>>
TabSceneNames == {"sidebar", "links", "switches", "areas", "console"}

\* Bound: the second element asks for one thing only.
SecondAsksOne == elements'[h2].request \in {NoRequest, Asked("b", "x", <<5>>)}

TabInit(scene) ==
    /\ SidebarInit /\ LinksInit /\ StoresInit
    /\ scene # "switches" => switches = NO_FEATURES
    /\ scene # "areas" => archives = [a \in Archives |-> NoHeader]

TabNext(scene) ==
    \/ scene = "sidebar" /\ SidebarNext /\ UNCHANGED <<bridge_vars, store_vars>>
    \/ scene = "links" /\ LinksNext /\ SecondAsksOne /\ UNCHANGED <<sidebar_vars, store_vars>>
    \/ /\ scene \in {"switches", "areas", "console"} /\ UNCHANGED <<sidebar_vars, bridge_vars>>
       /\ \/ scene = "switches" /\ FeaturesNext
          \/ scene = "areas" /\ MapsNext
          \/ scene = "console" /\ ConsoleNext
          \/ AdminActs /\ (scene # "areas" => archives' = archives)
          \/ scene # "console" /\ ClockTicks
=============================================================================
