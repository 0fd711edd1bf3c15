--------------------------- MODULE WebPreferences ---------------------------
(***************************************************************************)
(* The preferences of one reader as the browser keeps them: the module     *)
(* store of webapp/src/preferences/store.ts in every open tab, the         *)
(* "Customize your view" editors of HideableEditor.tsx that save through   *)
(* it, and the one blob on the server all of them read and replace.        *)
(*                                                                         *)
(* A blob maps a section to what the reader chose there, 0 being no choice.*)
(* A fetch is sent, handled by the server and answered in separate steps,  *)
(* so requests and answers overtake each other; a fetch may also fail      *)
(* before or after the server has handled it, and an answer that came in   *)
(* order may have a body that does not parse, which `request` reads as the *)
(* settings of a reader who chose nothing.  The server is one node: on     *)
(* a cluster a GET may be answered with an older blob, which is what       *)
(* PreferencesPromise says of its caches, and is not composed here.        *)
(***************************************************************************)
EXTENDS Integers, FiniteSets

CONSTANTS
    Tab,         \* open tabs, each with its own copy of the store
    Editor,      \* mounted editors
    Section,     \* the sections of the blob, one per decorator
    TabOf,       \* the tab an editor is in
    SectionOf,   \* the section it saves
    Picker,      \* the editors with a ZonePicker: dtg/Customize.tsx
    MaxChoice,   \* the choices an editor may offer are 1 .. MaxChoice
    MaxSaves     \* bound on the saves and resets begun

ASSUME EditorAssumption ==
    /\ TabOf \in [Editor -> Tab] /\ SectionOf \in [Editor -> Section] /\ Picker \subseteq Editor
    /\ MaxChoice \in Nat /\ MaxSaves \in Nat

Blob  == [Section -> 0 .. MaxChoice]
Empty == [s \in Section |-> 0]   \* EMPTY_PREFERENCES, and a deleted blob

VARIABLES
    server,   \* the stored blob
    version,  \* the writes it took to get there
    store,    \* per tab: state, loadedAt and writes of store.ts
    load,     \* per tab: the request behind inflight
    editor,   \* per editor: the form and the save under way
    saves     \* the saves begun, for the bound

vars == <<server, version, store, load, editor, saves>>

\* A fetch: on its way, answered with a blob, or failed.
FetchPC == {"none", "sent", "back", "failed"}
Answer  == [blob : Blob, ver : Nat]
NoAnswer == [blob |-> Empty, ver |-> 0]

Store == [shown : Blob, loading : BOOLEAN, error : BOOLEAN, loaded : BOOLEAN,
          at : {"never", "fresh", "stale"},  \* loadedAt against CACHE_TTL_MS
          writes : Nat,
          ver : Nat,               \* ghost: version of the blob shown
          byLoad : BOOLEAN,        \* ghost: a load put it there
          acked : Nat]             \* ghost: newest version a save here was told of
Load  == [pc : FetchPC, startedAt : Nat, answer : Answer]

EditorPC == {"closed", "open", "get", "put"}
EditorRec == [pc : EditorPC,
              form    : 0 .. MaxChoice,  \* what the form holds
              touched : BOOLEAN,
              real    : BOOLEAN,         \* ghost: the form came from a completed read
              value   : 0 .. MaxChoice,  \* what the save under way stores
              fetch   : FetchPC,
              raw     : Blob,            \* current.raw, or the body of the PUT
              parsed  : BOOLEAN,         \* ghost: the body of the re-read parsed
              answer  : Answer,
              since   : SUBSET Section]  \* ghost: sections others wrote since the GET

NoLoad == [pc |-> "none", startedAt |-> 0, answer |-> NoAnswer]
Closed == [pc |-> "closed", form |-> 0, touched |-> FALSE, real |-> FALSE, value |-> 0,
           fetch |-> "none", raw |-> Empty, parsed |-> TRUE, answer |-> NoAnswer, since |-> {}]

-----------------------------------------------------------------------------
Init ==
    /\ server \in Blob
    /\ version = 0
    /\ store = [t \in Tab |-> [shown |-> Empty, loading |-> FALSE, error |-> FALSE,
                               loaded |-> FALSE, at |-> "never", writes |-> 0,
                               ver |-> 0, byLoad |-> FALSE, acked |-> 0]]
    /\ load = [t \in Tab |-> NoLoad]
    /\ editor = [e \in Editor |-> Closed]
    /\ saves = 0

\* What a GET is answered with.
Stored == [blob |-> server, ver |-> version]

\* The editors of tab t after its store became st: a form nobody touched
\* follows the section it edits.
Synced(t, st) ==
    [e \in Editor |->
        IF TabOf[e] = t /\ editor[e].pc # "closed" /\ ~editor[e].touched
        THEN [editor[e] EXCEPT !.form = st.shown[SectionOf[e]], !.real = st.loaded]
        ELSE editor[e]]

-----------------------------------------------------------------------------
(* A panel or a hover card mounts: loadPreferences.                        *)
LoadPreferences(t) ==
    /\ store[t].at # "fresh"
    /\ load[t].pc = "none"
    /\ store' = [store EXCEPT ![t] = [@ EXCEPT !.loading = TRUE, !.error = FALSE]]
    /\ load' = [load EXCEPT ![t] = [NoLoad EXCEPT !.pc = "sent",
                                                  !.startedAt = store[t].writes]]
    /\ UNCHANGED <<server, version, editor, saves>>

\* What is read out of an answer: a body that does not parse is null.
AsParsed(blob) == {blob, Empty}

(* The server answers the load's GET, or the fetch fails.                  *)
ServeLoad(t) ==
    /\ load[t].pc = "sent"
    /\ \/ \E blob \in AsParsed(Stored.blob) :
              load' = [load EXCEPT ![t] = [@ EXCEPT !.pc = "back", !.answer = [Stored EXCEPT !.blob = blob]]]
       \/ load' = [load EXCEPT ![t] = [@ EXCEPT !.pc = "failed"]]
    /\ UNCHANGED <<server, version, store, editor, saves>>

LoadAlwaysWins(t) == FALSE

\* A write finished in this tab while the load was in the air.
Outrun(t) == store[t].writes # load[t].startedAt

\* The last good blob is kept; the defaults stand in until there is one.
AfterFailure(st) == IF st.at = "never" THEN [st EXCEPT !.shown = Empty] ELSE st

(* The load settles: then, catch and finally.                              *)
FinishLoad(t) ==
    LET l == load[t]
        st == IF l.pc = "back"
              THEN [store[t] EXCEPT !.shown = l.answer.blob, !.loading = FALSE,
                        !.error = FALSE, !.loaded = TRUE, !.at = "fresh",
                        !.ver = l.answer.ver, !.byLoad = TRUE]
              ELSE [AfterFailure(store[t]) EXCEPT !.loading = FALSE, !.error = TRUE,
                        !.loaded = (store[t].at # "never")]
    IN  /\ l.pc \in {"back", "failed"}
        /\ load' = [load EXCEPT ![t] = NoLoad]
        /\ \/ Outrun(t) /\ UNCHANGED <<store, editor>>
           \/ /\ ~Outrun(t)
              /\ store' = [store EXCEPT ![t] = st]
              /\ editor' = Synced(t, st)
        /\ UNCHANGED <<server, version, saves>>

(* CACHE_TTL_MS passes.                                                    *)
Age(t) ==
    /\ store[t].at = "fresh"
    /\ store' = [store EXCEPT ![t] = [@ EXCEPT !.at = "stale"]]
    /\ UNCHANGED <<server, version, load, editor, saves>>

-----------------------------------------------------------------------------
(* HideableEditor mounts with what the store holds.                        *)
OpenEditor(e) ==
    LET st == store[TabOf[e]]
    IN  /\ editor[e].pc = "closed"
        /\ editor' = [editor EXCEPT ![e] = [Closed EXCEPT !.pc = "open",
                                            !.form = st.shown[SectionOf[e]],
                                            !.real = st.loaded]]
        /\ UNCHANGED <<server, version, store, load, saves>>

SealedWhileBusy(e) == editor[e].pc # "open"

\* Nothing is editable while busy or loading, or before a read succeeded.
Sealed(e) ==
    editor[e].pc # "open" \/ store[TabOf[e]].loading \/ ~store[TabOf[e]].loaded

\* The zone picker is disabled only while busy or loading.  A load starts as
\* the editor mounts, so one has been answered or has failed.
PickerOpen(e) ==
    LET st == store[TabOf[e]]
    IN  e \in Picker /\ editor[e].pc = "open" /\ ~st.loading /\ (st.loaded \/ st.error)

(* toggle: the form takes another value.                                   *)
Toggle(e) ==
    /\ Sealed(e) => PickerOpen(e)
    /\ \E v \in 0 .. MaxChoice :
          /\ v # editor[e].form
          /\ editor' = [editor EXCEPT ![e] = [@ EXCEPT !.form = v, !.touched = TRUE]]
    /\ UNCHANGED <<server, version, store, load, saves>>

(* onSave and onReset: a reset is the save of the section's zero value.    *)
(* The re-read is sent.                                                    *)
BeginSave(e) ==
    /\ ~Sealed(e)
    /\ saves < MaxSaves
    /\ saves' = saves + 1
    /\ \E v \in {editor[e].form, 0} :
          editor' = [editor EXCEPT ![e] = [@ EXCEPT !.pc = "get", !.fetch = "sent", !.value = v]]
    /\ UNCHANGED <<server, version, store, load>>

(* The server answers the re-read.                                         *)
ServeGet(e) ==
    /\ editor[e].pc = "get" /\ editor[e].fetch = "sent"
    /\ \/ \E parsed \in BOOLEAN :
              editor' = [editor EXCEPT ![e] = [@ EXCEPT !.fetch = "back", !.parsed = parsed, !.since = {},
                                                   !.raw = IF parsed THEN Stored.blob ELSE Empty]]
       \/ editor' = [editor EXCEPT ![e] = [@ EXCEPT !.fetch = "failed"]]
    /\ UNCHANGED <<server, version, store, load, saves>>

WithSectionOfCache(raw, e) == [store[TabOf[e]].shown EXCEPT ![SectionOf[e]] = editor[e].value]

WithSection(raw, e) == [raw EXCEPT ![SectionOf[e]] = editor[e].value]

(* savePreferencesSection: the answer of the re-read becomes the body of   *)
(* the write.  A DELETE, when nothing is chosen, stores the empty blob.    *)
SendPut(e) ==
    /\ editor[e].pc = "get" /\ editor[e].fetch = "back"
    /\ editor' = [editor EXCEPT ![e] = [@ EXCEPT !.pc = "put", !.fetch = "sent",
                                                 !.raw = WithSection(editor[e].raw, e)]]
    /\ UNCHANGED <<server, version, store, load, saves>>

\* A save that has a body to write, from its re-read to its PUT.
HoldsBody(d) ==
    (editor[d].pc = "get" /\ editor[d].fetch = "back") \/ (editor[d].pc = "put" /\ editor[d].fetch = "sent")

\* The other saves under way, told that the sections in S changed.
WrittenUnder(S) ==
    [d \in Editor |-> IF HoldsBody(d)
                      THEN [editor[d] EXCEPT !.since = @ \cup S]
                      ELSE editor[d]]

\* The editor once its body has left it.
BodySent(e) == [editor[e] EXCEPT !.raw = Empty, !.value = 0, !.parsed = TRUE, !.since = {}]

(* The server stores the body; the answer comes back or is lost.           *)
ServePut(e) ==
    LET body == editor[e].raw
        changed == {s \in Section : server[s] # body[s]}
    IN  /\ editor[e].pc = "put" /\ editor[e].fetch = "sent"
        /\ \/ /\ server' = body
              /\ version' = version + 1
              /\ \/ \E blob \in AsParsed(body) :
                       editor' = [WrittenUnder(changed) EXCEPT ![e] = [BodySent(e) EXCEPT
                           !.fetch = "back", !.answer = [blob |-> blob, ver |-> version + 1]]]
                 \/ editor' = [WrittenUnder(changed) EXCEPT ![e] = [BodySent(e) EXCEPT !.fetch = "failed"]]
           \/ /\ editor' = [editor EXCEPT ![e] = [BodySent(e) EXCEPT !.fetch = "failed"]]
              /\ UNCHANGED <<server, version>>
        /\ UNCHANGED <<store, load, saves>>

LoadingAsBefore(st) == st.loading

LoadingAfterSave(st) == FALSE

(* The save is done: the store takes the answer and the editor closes.     *)
FinishSave(e) ==
    LET t == TabOf[e]
        a == editor[e].answer
        st == [store[t] EXCEPT !.shown = a.blob, !.error = FALSE,
                   !.loading = LoadingAfterSave(store[t]), !.loaded = TRUE, !.at = "fresh", !.writes = @ + 1,
                   !.ver = a.ver, !.byLoad = FALSE,
                   !.acked = IF store[t].acked < a.ver THEN a.ver ELSE store[t].acked]
    IN  /\ editor[e].pc = "put" /\ editor[e].fetch = "back"
        /\ store' = [store EXCEPT ![t] = st]
        /\ editor' = [Synced(t, st) EXCEPT ![e] = Closed]
        /\ UNCHANGED <<server, version, load, saves>>

Failed(e) == editor[e].pc \in {"get", "put"} /\ editor[e].fetch = "failed"

(* The save failed: the form is kept, with what went wrong.                *)
FailSave(e) ==
    /\ Failed(e)
    /\ editor' = [editor EXCEPT ![e] = [Closed EXCEPT !.pc = "open", !.form = editor[e].form,
                                !.touched = editor[e].touched, !.real = editor[e].real]]
    /\ UNCHANGED <<server, version, store, load, saves>>

(* Back, or the panel is replaced.  A save under way goes on without it,   *)
(* which is left out: it ends as FinishSave does.                          *)
CloseEditor(e) ==
    /\ editor[e].pc = "open"
    /\ editor' = [editor EXCEPT ![e] = Closed]
    /\ UNCHANGED <<server, version, store, load, saves>>

-----------------------------------------------------------------------------
\* What the browser does by itself once a promise has settled.
Settle ==
    \/ \E t \in Tab : FinishLoad(t)
    \/ \E e \in Editor : SendPut(e) \/ FinishSave(e) \/ FailSave(e)

\* What the network and the server do.
Serve ==
    \/ \E t \in Tab : ServeLoad(t)
    \/ \E e \in Editor : ServeGet(e) \/ ServePut(e)

Reader ==
    \/ \E t \in Tab : LoadPreferences(t)
    \/ \E e \in Editor : OpenEditor(e) \/ Toggle(e) \/ BeginSave(e) \/ CloseEditor(e)

Next == Settle \/ Serve \/ Reader \/ \E t \in Tab : Age(t)

Spec == Init /\ [][Next]_vars

-----------------------------------------------------------------------------
TypeOK ==
    /\ server \in Blob /\ version \in Nat
    /\ store \in [Tab -> Store]
    /\ load \in [Tab -> Load]
    /\ editor \in [Editor -> EditorRec]
    /\ saves \in 0 .. MaxSaves

(* What the `writes` counter is for: a load still in flight when a save    *)
(* lands never puts back the answer of a read older than one a save here   *)
(* was told of.                                                            *)
LoadsNeverRevertASave ==
    TypeOK /\ \A t \in Tab : store[t].byLoad => store[t].ver >= store[t].acked

(* No save is derived from settings that no read brought: every section    *)
(* written comes from a form that a completed read filled in (one whose    *)
(* body did not parse counts as completed, store.ts:163).                  *)
SavesComeFromARead ==
    \A e \in Editor : editor[e].pc \in {"get", "put"} => editor[e].real

BlobKept ==
    \A t \in Tab :
        store[t].loaded /\ store'[t].shown # store[t].shown => store'[t].loaded /\ ~store'[t].error

SectionsKept ==
    \A e \in Editor :
        editor[e].pc = "put" /\ editor[e].fetch = "sent" /\ version' # version /\ editor'[e].fetch # "sent" =>
            \A s \in Section \ {SectionOf[e]} :
                server'[s] # server[s] => s \in editor[e].since \/ ~editor[e].parsed

(* Saving one section leaves the others alone, except those that another   *)
(* save wrote between this one's re-read and its write, the window that    *)
(* savePreferencesSection documents, and except when the body of the       *)
(* re-read did not parse: that save clears the others                      *)
(* (SavesLeaveOthersAlone).  And a read that fails takes no blob off the   *)
(* screen; one that is answered without a body that parses does.           *)
OtherSectionsKept == [][SectionsKept /\ BlobKept]_vars

(* What is shown as under way is: a panel that shows a load has a request  *)
(* out whose answer will be taken, no save having outrun it, and an editor *)
(* that is busy has the fetch of its save out, so that whatever settles it *)
(* ends the wait.  Nothing bounds the wait itself (store.ts:146 gives its  *)
(* fetch no abort signal).                                                 *)
WaitsAreForRequests ==
    /\ \A t \in Tab : store[t].loading => load[t].pc # "none" /\ ~Outrun(t)
    /\ \A e \in Editor : editor[e].pc \in {"get", "put"} => editor[e].fetch # "none"

(* "Saves ONE decorator's settings, leaving every other decorator's alone" *)
(* (store.ts:235): the body that a save has out holds what the server does *)
(* in every section it spares, those that another save wrote since this    *)
(* one's re-read excepted.                                                 *)
SavesLeaveOthersAlone ==
    \A e \in Editor :
        editor[e].pc = "put" /\ editor[e].fetch = "sent" =>
            \A s \in Section \ {SectionOf[e]} : editor[e].raw[s] = server[s] \/ s \in editor[e].since
=============================================================================
