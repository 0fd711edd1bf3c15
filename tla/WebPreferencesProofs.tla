------------------------ MODULE WebPreferencesProofs ------------------------
(***************************************************************************)
(* Proofs about WebPreferences, for any tabs, editors, sections, choices   *)
(* and saves: a load never reverts a save, no save is made from settings   *)
(* that were never read, and a save leaves the other sections alone.       *)
(*                                                                         *)
(* The inductive invariant says what holds of a fetch that is in the air:  *)
(* a load that no write of its tab has outrun brings nothing older than    *)
(* what a save there was told of, and a panel waits for no other           *)
(* (TabCurrent); the body a save has re-read is the stored one but for the *)
(* sections written since, unless it did not parse (BodyCurrent); and      *)
(* a form that may be saved was filled in by a completed read (FormRead).  *)
(***************************************************************************)
EXTENDS WebPreferences, TLAPS

(* The write counter tells a load that a save has overtaken from one that  *)
(* answers for every save the tab knows of.                                *)
TabCurrent(st, l, newest) ==
    /\ st.acked <= newest
    /\ l.startedAt <= st.writes
    /\ l.pc = "back" /\ l.startedAt = st.writes => l.answer.ver >= st.acked
    /\ st.byLoad => st.ver >= st.acked
    /\ st.loaded => st.at # "never"
    /\ st.loading => l.pc # "none" /\ l.startedAt = st.writes

(* The save of x has a body in the air, which holds the stored value of    *)
(* every section it spares, unless another save wrote that section since,  *)
(* or its re-read was answered with a body that did not parse.             *)
BodyCurrent(e, x, stored) ==
    (x.pc = "get" /\ x.fetch = "back") \/ (x.pc = "put" /\ x.fetch = "sent") =>
        \A s \in Section : \/ x.pc = "put" /\ s = SectionOf[e]
                           \/ x.raw[s] = stored[s]
                           \/ s \in x.since \/ ~x.parsed

(* Once its tab has read the settings, or it was touched, a form is real;  *)
(* and only such a form is saved.                                          *)
FormRead(e, x, st) ==
    e \in Picker \/ (/\ x.pc # "closed" /\ (x.touched \/ st.loaded) => x.real
                     /\ x.pc \in {"get", "put"} => x.real /\ st.loaded)

EditorCurrent(e, x) ==
    /\ x.answer.ver <= version
    /\ BodyCurrent(e, x, server)
    /\ FormRead(e, x, store[TabOf[e]])
    /\ x.pc \in {"get", "put"} => x.fetch # "none"

IInv ==
    /\ TypeOK
    /\ \A t \in Tab : TabCurrent(store[t], load[t], version)
    /\ \A e \in Editor : EditorCurrent(e, editor[e])

-----------------------------------------------------------------------------
(* Where an editor is, and the values its fields have.                     *)
LEMMA Places ==
    ASSUME NEW e \in Editor
    PROVE  TabOf[e] \in Tab /\ SectionOf[e] \in Section
BY EditorAssumption

(* Nobody has chosen anything in an empty blob.                            *)
LEMMA Nothing ==
    /\ Empty \in Blob /\ 0 \in 0 .. MaxChoice /\ NoAnswer \in Answer
    /\ NoLoad \in Load /\ Closed \in EditorRec
<1>1. 0 \in 0 .. MaxChoice
      BY EditorAssumption
<1>2. Empty \in Blob
      BY <1>1 DEF Empty, Blob
<1>3. NoAnswer \in Answer
      BY <1>2 DEF NoAnswer, Answer
<1>. QED BY <1>1, <1>2, <1>3 DEF NoLoad, Load, Closed, EditorRec, FetchPC, EditorPC

(* An action of one editor, which moves nothing but it.                    *)
LEMMA OneEditor ==
    ASSUME IInv, NEW e \in Editor, NEW x \in EditorRec,
           editor' = [editor EXCEPT ![e] = x], UNCHANGED <<server, version, store, load>>,
           saves' \in 0 .. MaxSaves,
           EditorCurrent(e, x)
    PROVE  IInv'
<1>1. TypeOK'
      BY DEF IInv, TypeOK
<1>2. \A d \in Editor : editor'[d] = IF d = e THEN x ELSE editor[d]
      BY DEF IInv, TypeOK
<1>3. \A d \in Editor : EditorCurrent(d, editor[d])
      BY DEF IInv
<1>4. ASSUME NEW d \in Editor PROVE EditorCurrent(d, editor[d])'
      BY <1>2, <1>3 DEF EditorCurrent, BodyCurrent, FormRead
<1>5. ASSUME NEW t \in Tab PROVE TabCurrent(store[t], load[t], version)'
      BY DEF IInv, TabCurrent
<1>. QED BY <1>1, <1>4, <1>5 DEF IInv

(* An action on a tab's store or load that no editor sees.                 *)
LEMMA OneTab ==
    ASSUME IInv, NEW t \in Tab, NEW st \in Store, NEW l \in Load,
           store' = [store EXCEPT ![t] = st], load' = [load EXCEPT ![t] = l],
           UNCHANGED <<server, version, editor, saves>>,
           st.loaded = store[t].loaded,
           TabCurrent(st, l, version)
    PROVE  IInv'
<1>1. TypeOK'
      BY DEF IInv, TypeOK
<1>2. \A u \in Tab : /\ store'[u] = IF u = t THEN st ELSE store[u]
                     /\ load'[u] = IF u = t THEN l ELSE load[u]
      BY DEF IInv, TypeOK
<1>3. ASSUME NEW u \in Tab PROVE TabCurrent(store[u], load[u], version)'
      BY <1>2 DEF IInv, TabCurrent
<1>4. ASSUME NEW e \in Editor PROVE EditorCurrent(e, editor[e])'
      <2>1. EditorCurrent(e, editor[e]) /\ TabOf[e] \in Tab
            BY Places DEF IInv
      <2>2. store'[TabOf[e]].loaded = store[TabOf[e]].loaded
            BY <2>1, <1>2
      <2>. QED BY <2>1, <2>2 DEF EditorCurrent, BodyCurrent, FormRead
<1>. QED BY <1>1, <1>3, <1>4 DEF IInv

(* What an editor does by itself.                                          *)
LEMMA EditorKeeps ==
    ASSUME IInv, NEW e \in Editor,
           \/ OpenEditor(e) \/ Toggle(e) \/ BeginSave(e) \/ CloseEditor(e)
           \/ ServeGet(e) \/ SendPut(e) \/ FailSave(e)
    PROVE  IInv'
<1>0. /\ editor[e] \in EditorRec /\ editor \in [Editor -> EditorRec]
      /\ store[TabOf[e]] \in Store /\ server \in Blob /\ version \in Nat /\ saves \in 0 .. MaxSaves
      /\ EditorCurrent(e, editor[e]) /\ TabOf[e] \in Tab /\ SectionOf[e] \in Section
      BY Places DEF IInv, TypeOK
<1>t. /\ editor[e].pc \in EditorPC /\ editor[e].form \in 0 .. MaxChoice /\ editor[e].touched \in BOOLEAN
      /\ editor[e].real \in BOOLEAN /\ editor[e].raw \in Blob /\ editor[e].since \in SUBSET Section
      /\ store[TabOf[e]].shown \in Blob /\ store[TabOf[e]].shown[SectionOf[e]] \in 0 .. MaxChoice
      /\ store[TabOf[e]].loaded \in BOOLEAN
      BY <1>0 DEF EditorRec, Store, Blob
<1>1. CASE OpenEditor(e)
      <2> DEFINE x == [Closed EXCEPT !.pc = "open", !.form = store[TabOf[e]].shown[SectionOf[e]],
                                     !.real = store[TabOf[e]].loaded]
      <2>1. x \in EditorRec
            BY <1>t, Nothing DEF EditorRec, EditorPC
      <2>2. EditorCurrent(e, x)
            BY <1>0, <1>t DEF EditorCurrent, BodyCurrent, FormRead, Closed, NoAnswer
      <2>3. editor' = [editor EXCEPT ![e] = x] /\ UNCHANGED <<server, version, store, load, saves>>
            BY <1>1 DEF OpenEditor
      <2>. QED BY <1>0, <2>1, <2>2, <2>3, OneEditor
<1>2. CASE Toggle(e)
      <2>1. PICK v \in 0 .. MaxChoice : editor' = [editor EXCEPT ![e] = [@ EXCEPT !.form = v, !.touched = TRUE]]
            BY <1>2 DEF Toggle
      <2> DEFINE x == [editor[e] EXCEPT !.form = v, !.touched = TRUE]
      <2>2. x \in EditorRec
            BY <1>0 DEF EditorRec
      <2>3. /\ x.pc = editor[e].pc /\ x.real = editor[e].real /\ x.answer = editor[e].answer
            /\ x.fetch = editor[e].fetch /\ x.raw = editor[e].raw /\ x.since = editor[e].since
            BY <1>0 DEF EditorRec
      <2>4. e \in Picker \/ (editor[e].pc = "open" /\ store[TabOf[e]].loaded)
            BY <1>2 DEF Toggle, Sealed, PickerOpen
      <2>5. EditorCurrent(e, x)
            BY <1>0, <2>3, <2>4 DEF EditorCurrent, BodyCurrent, FormRead
      <2>6. editor' = [editor EXCEPT ![e] = x] /\ UNCHANGED <<server, version, store, load, saves>>
            BY <1>0, <1>2, <2>1 DEF Toggle
      <2>. QED BY <1>0, <2>2, <2>5, <2>6, OneEditor
<1>3. CASE BeginSave(e)
      <2>1. PICK v \in {editor[e].form, 0} :
                editor' = [editor EXCEPT ![e] = [@ EXCEPT !.pc = "get", !.fetch = "sent", !.value = v]]
            BY <1>3 DEF BeginSave
      <2> DEFINE x == [editor[e] EXCEPT !.pc = "get", !.fetch = "sent", !.value = v]
      <2>2. v \in 0 .. MaxChoice
            BY <1>t, Nothing
      <2>3. x \in EditorRec
            BY <1>0, <2>2 DEF EditorRec, EditorPC, FetchPC
      <2>4. /\ x.pc = "get" /\ x.real = editor[e].real /\ x.answer = editor[e].answer
            /\ x.fetch = "sent" /\ x.touched = editor[e].touched
            BY <1>0 DEF EditorRec
      <2>5. editor[e].pc = "open" /\ store[TabOf[e]].loaded
            BY <1>3 DEF BeginSave, Sealed
      <2>6. EditorCurrent(e, x)
            BY <1>0, <2>4, <2>5 DEF EditorCurrent, BodyCurrent, FormRead
      <2>7. saves' \in 0 .. MaxSaves
            BY <1>0, <1>3, EditorAssumption DEF BeginSave
      <2>8. editor' = [editor EXCEPT ![e] = x] /\ UNCHANGED <<server, version, store, load>>
            BY <1>0, <1>3, <2>1 DEF BeginSave
      <2>. QED BY <2>3, <2>6, <2>7, <2>8, OneEditor
<1>4. CASE CloseEditor(e)
      <2>1. EditorCurrent(e, Closed)
            BY <1>0 DEF EditorCurrent, BodyCurrent, FormRead, Closed, NoAnswer
      <2>2. editor' = [editor EXCEPT ![e] = Closed] /\ UNCHANGED <<server, version, store, load, saves>>
            BY <1>4 DEF CloseEditor
      <2>. QED BY <1>0, <2>1, <2>2, Nothing, OneEditor
<1>5. CASE ServeGet(e)
      <2>1. editor[e].pc = "get" /\ editor[e].fetch = "sent" /\ UNCHANGED <<server, version, store, load, saves>>
            BY <1>5 DEF ServeGet
      <2>2. PICK parsed \in BOOLEAN :
                \/ editor' = [editor EXCEPT ![e] = [editor[e] EXCEPT !.fetch = "back", !.parsed = parsed,
                        !.since = {}, !.raw = IF parsed THEN server ELSE Empty]]
                \/ editor' = [editor EXCEPT ![e] = [editor[e] EXCEPT !.fetch = "failed"]]
            BY <1>0, <1>5 DEF ServeGet, Stored
      <2>6. PICK x : /\ editor' = [editor EXCEPT ![e] = x]
                     /\ \/ x = [editor[e] EXCEPT !.fetch = "back", !.parsed = parsed,
                                   !.since = {}, !.raw = IF parsed THEN server ELSE Empty]
                        \/ x = [editor[e] EXCEPT !.fetch = "failed"]
            BY <2>2
      <2>3. x \in EditorRec
            BY <1>0, <2>6, Nothing DEF EditorRec, FetchPC
      <2>4. /\ x.pc = "get" /\ x.real = editor[e].real /\ x.answer = editor[e].answer
            /\ x.touched = editor[e].touched
            /\ x.fetch = "failed" \/ (x.fetch = "back" /\ (x.raw = server \/ ~x.parsed))
            BY <1>0, <2>1, <2>6 DEF EditorRec
      <2>5. EditorCurrent(e, x)
            BY <1>0, <2>1, <2>4 DEF EditorCurrent, BodyCurrent, FormRead
      <2>. QED BY <1>0, <2>1, <2>6, <2>3, <2>5, OneEditor
<1>6. CASE SendPut(e)
      <2> DEFINE body == WithSection(editor[e].raw, e)
                 x == [editor[e] EXCEPT !.pc = "put", !.fetch = "sent", !.raw = body]
      <2>1. /\ editor[e].pc = "get" /\ editor[e].fetch = "back"
            /\ UNCHANGED <<server, version, store, load, saves>>
            BY <1>6 DEF SendPut
      <2>2. body \in Blob /\ \A s \in Section \ {SectionOf[e]} : body[s] = editor[e].raw[s]
            BY <1>0, <1>t DEF WithSection, Blob, EditorRec
      <2>3. editor' = [editor EXCEPT ![e] = x]
            BY <1>0, <1>6 DEF SendPut
      <2>. HIDE DEF body
      <2>4. x \in EditorRec
            BY <1>0, <2>2 DEF EditorRec, FetchPC, EditorPC
      <2>5. /\ x.pc = "put" /\ x.real = editor[e].real /\ x.answer = editor[e].answer
            /\ x.touched = editor[e].touched /\ x.raw = body /\ x.since = editor[e].since
            /\ x.parsed = editor[e].parsed /\ x.fetch = "sent"
            BY <1>0 DEF EditorRec
      <2>6. EditorCurrent(e, x)
            BY <1>0, <2>1, <2>2, <2>5 DEF EditorCurrent, BodyCurrent, FormRead
      <2>. QED BY <1>0, <2>1, <2>3, <2>4, <2>6, OneEditor
<1>7. CASE FailSave(e)
      <2> DEFINE x == [Closed EXCEPT !.pc = "open", !.form = editor[e].form,
                                     !.touched = editor[e].touched, !.real = editor[e].real]
      <2>1. x \in EditorRec
            BY <1>t, Nothing DEF EditorRec, EditorPC
      <2>2. editor[e].pc \in {"get", "put"}
            BY <1>7 DEF FailSave, Failed
      <2>3. EditorCurrent(e, x)
            BY <1>0, <1>t, <2>2 DEF EditorCurrent, BodyCurrent, FormRead, Closed, NoAnswer
      <2>4. editor' = [editor EXCEPT ![e] = x] /\ UNCHANGED <<server, version, store, load, saves>>
            BY <1>7 DEF FailSave
      <2>. QED BY <1>0, <2>1, <2>3, <2>4, OneEditor
<1>. QED BY <1>1, <1>2, <1>3, <1>4, <1>5, <1>6, <1>7

(* A load that is asked for, handled or lost, and a blob that ages.        *)
LEMMA TabKeeps ==
    ASSUME IInv, NEW t \in Tab, LoadPreferences(t) \/ ServeLoad(t) \/ Age(t)
    PROVE  IInv'
<1>0. /\ store[t] \in Store /\ load[t] \in Load /\ store \in [Tab -> Store] /\ load \in [Tab -> Load]
      /\ server \in Blob /\ version \in Nat
      /\ TabCurrent(store[t], load[t], version)
      BY DEF IInv, TypeOK
<1>t. /\ store[t].writes \in Nat /\ store[t].ver \in Nat /\ store[t].acked \in Nat
      /\ load[t].startedAt \in Nat /\ load[t].answer.ver \in Nat
      BY <1>0 DEF Store, Load, Answer
<1>1. CASE LoadPreferences(t)
      <2> DEFINE st == [store[t] EXCEPT !.loading = TRUE, !.error = FALSE]
                 l  == [NoLoad EXCEPT !.pc = "sent", !.startedAt = store[t].writes]
      <2>1. st \in Store
            BY <1>0 DEF Store
      <2>2. l \in Load
            BY <1>t, Nothing DEF Load, FetchPC
      <2>3. /\ st.acked = store[t].acked /\ st.writes = store[t].writes /\ st.byLoad = store[t].byLoad
            /\ st.ver = store[t].ver /\ st.loaded = store[t].loaded /\ st.at = store[t].at
            BY <1>0 DEF Store
      <2>4. l.pc = "sent" /\ l.startedAt = store[t].writes
            BY DEF NoLoad
      <2>5. TabCurrent(st, l, version)
            BY <1>0, <1>t, <2>3, <2>4 DEF TabCurrent
      <2>6. /\ store' = [store EXCEPT ![t] = st] /\ load' = [load EXCEPT ![t] = l]
            /\ UNCHANGED <<server, version, editor, saves>>
            BY <1>0, <1>1 DEF LoadPreferences
      <2>. QED BY <2>1, <2>2, <2>3, <2>5, <2>6, OneTab
<1>2. CASE ServeLoad(t)
      <2>0. PICK blob \in Blob :
                \/ load' = [load EXCEPT ![t] = [load[t] EXCEPT !.pc = "back", !.answer = [Stored EXCEPT !.blob = blob]]]
                \/ load' = [load EXCEPT ![t] = [load[t] EXCEPT !.pc = "failed"]]
            BY <1>0, <1>2, Nothing DEF ServeLoad, AsParsed, Stored
      <2> DEFINE a == [Stored EXCEPT !.blob = blob]
      <2>1. PICK l \in {[load[t] EXCEPT !.pc = "back", !.answer = a], [load[t] EXCEPT !.pc = "failed"]} :
                load' = [load EXCEPT ![t] = l]
            BY <2>0
      <2>2. a \in Answer /\ a.ver = version
            BY <1>0 DEF Stored, Answer
      <2>. HIDE DEF a
      <2>3. l \in Load
            BY <1>0, <2>2 DEF Load, FetchPC
      <2>4. l.startedAt = load[t].startedAt /\ (l.pc = "back" => l.answer = a) /\ l.pc # "none"
            BY <1>0 DEF Load
      <2>5. TabCurrent(store[t], l, version)
            BY <1>0, <1>t, <2>2, <2>4 DEF TabCurrent
      <2>6. store' = [store EXCEPT ![t] = store[t]] /\ UNCHANGED <<server, version, editor, saves>>
            BY <1>0, <1>2 DEF ServeLoad
      <2>. QED BY <1>0, <2>1, <2>3, <2>5, <2>6, OneTab
<1>3. CASE Age(t)
      <2> DEFINE st == [store[t] EXCEPT !.at = "stale"]
      <2>1. st \in Store
            BY <1>0 DEF Store
      <2>2. /\ st.acked = store[t].acked /\ st.writes = store[t].writes /\ st.byLoad = store[t].byLoad
            /\ st.ver = store[t].ver /\ st.loaded = store[t].loaded /\ st.at = "stale"
            /\ st.loading = store[t].loading
            BY <1>0 DEF Store
      <2>3. TabCurrent(st, load[t], version)
            BY <1>0, <2>2 DEF TabCurrent
      <2>4. /\ store' = [store EXCEPT ![t] = st] /\ load' = [load EXCEPT ![t] = load[t]]
            /\ UNCHANGED <<server, version, editor, saves>>
            BY <1>0, <1>3 DEF Age
      <2>. QED BY <1>0, <2>1, <2>2, <2>3, <2>4, OneTab
<1>. QED BY <1>1, <1>2, <1>3

-----------------------------------------------------------------------------
(* The editors of a tab whose store became st: an untouched form follows   *)
(* it, and what is in the air is not disturbed.                            *)
LEMMA Follows ==
    ASSUME IInv, NEW t \in Tab, NEW st \in Store, store[t].loaded => st.loaded,
           store' = [store EXCEPT ![t] = st], UNCHANGED <<server, version>>,
           NEW d \in Editor, NEW x, x = Synced(t, st)[d]
    PROVE  x \in EditorRec /\ EditorCurrent(d, x)'
<1>1. /\ editor[d] \in EditorRec /\ store \in [Tab -> Store] /\ EditorCurrent(d, editor[d])
      /\ TabOf[d] \in Tab /\ SectionOf[d] \in Section
      BY Places DEF IInv, TypeOK
<1>2. \A u \in Tab : store'[u] = IF u = t THEN st ELSE store[u]
      BY <1>1
<1>3. st.shown[SectionOf[d]] \in 0 .. MaxChoice /\ st.loaded \in BOOLEAN
      BY <1>1 DEF Store, Blob
<1>4. CASE TabOf[d] = t /\ editor[d].pc # "closed" /\ ~editor[d].touched
      <2>1. x = [editor[d] EXCEPT !.form = st.shown[SectionOf[d]], !.real = st.loaded]
            BY <1>4 DEF Synced
      <2>2. x \in EditorRec
            BY <1>1, <1>3, <2>1 DEF EditorRec
      <2>3. /\ x.pc = editor[d].pc /\ x.real = st.loaded /\ x.answer = editor[d].answer
            /\ x.fetch = editor[d].fetch /\ x.raw = editor[d].raw /\ x.since = editor[d].since
            /\ x.touched = editor[d].touched /\ x.parsed = editor[d].parsed
            BY <1>1, <2>1 DEF EditorRec
      <2>4. EditorCurrent(d, x)'
            BY <1>1, <1>2, <1>4, <2>3 DEF EditorCurrent, BodyCurrent, FormRead
      <2>. QED BY <2>2, <2>4
<1>5. CASE ~(TabOf[d] = t /\ editor[d].pc # "closed" /\ ~editor[d].touched)
      <2>1. x = editor[d]
            BY <1>5 DEF Synced
      <2>2. EditorCurrent(d, x)'
            BY <1>1, <1>2, <1>5, <2>1 DEF EditorCurrent, BodyCurrent, FormRead
      <2>. QED BY <1>1, <2>1, <2>2
<1>. QED BY <1>4, <1>5

(* A load settles.  One that a save outran is thrown away; another one has *)
(* an answer no older than what a save here was told of, or none.          *)
LEMMA FinishLoadKeeps ==
    ASSUME IInv, NEW t \in Tab, FinishLoad(t)
    PROVE  IInv'
<1>0. /\ store[t] \in Store /\ load[t] \in Load /\ store \in [Tab -> Store] /\ load \in [Tab -> Load]
      /\ server \in Blob /\ version \in Nat
      /\ TabCurrent(store[t], load[t], version)
      BY DEF IInv, TypeOK
<1>t. /\ store[t].writes \in Nat /\ store[t].ver \in Nat /\ store[t].acked \in Nat
      /\ store[t].shown \in Blob /\ store[t].loaded \in BOOLEAN
      /\ load[t].startedAt \in Nat /\ load[t].answer.ver \in Nat /\ load[t].answer.blob \in Blob
      BY <1>0 DEF Store, Load, Answer
<1>l. NoLoad \in Load /\ NoLoad.startedAt = 0 /\ NoLoad.pc = "none"
      BY Nothing DEF NoLoad
<1>1. CASE Outrun(t)
      <2>1. TabCurrent(store[t], NoLoad, version)
            BY <1>0, <1>1, <1>t, <1>l DEF TabCurrent, Outrun
      <2>2. /\ store' = [store EXCEPT ![t] = store[t]] /\ load' = [load EXCEPT ![t] = NoLoad]
            /\ UNCHANGED <<server, version, editor, saves>>
            BY <1>0, <1>1 DEF FinishLoad
      <2>. QED BY <1>0, <1>l, <2>1, <2>2, OneTab
<1>2. CASE ~Outrun(t)
      <2> DEFINE good == [store[t] EXCEPT !.shown = load[t].answer.blob, !.loading = FALSE,
                             !.error = FALSE, !.loaded = TRUE, !.at = "fresh",
                             !.ver = load[t].answer.ver, !.byLoad = TRUE]
                 bad  == [AfterFailure(store[t]) EXCEPT !.loading = FALSE, !.error = TRUE,
                             !.loaded = (store[t].at # "never")]
                 st   == IF load[t].pc = "back" THEN good ELSE bad
      <2>1. /\ store' = [store EXCEPT ![t] = st] /\ load' = [load EXCEPT ![t] = NoLoad]
            /\ editor' = Synced(t, st) /\ UNCHANGED <<server, version, saves>>
            BY <1>2 DEF FinishLoad
      <2>2. /\ good \in Store /\ good.loaded = TRUE
            /\ (load[t].pc = "back" => TabCurrent(good, NoLoad, version))
            <3>1. good \in Store
                  BY <1>0, <1>t DEF Store
            <3>2. /\ good.acked = store[t].acked /\ good.writes = store[t].writes
                  /\ good.ver = load[t].answer.ver /\ good.loaded = TRUE /\ good.at = "fresh"
                  /\ good.loading = FALSE
                  BY <1>0 DEF Store
            <3>. QED BY <1>0, <1>t, <1>l, <1>2, <3>1, <3>2 DEF TabCurrent, Outrun
      <2>3. bad \in Store /\ (store[t].loaded => bad.loaded) /\ TabCurrent(bad, NoLoad, version)
            <3> DEFINE kept == AfterFailure(store[t])
            <3>1. kept \in Store
                  BY <1>0, Nothing DEF AfterFailure, Store
            <3>2. /\ kept.acked = store[t].acked /\ kept.writes = store[t].writes /\ kept.ver = store[t].ver
                  /\ kept.byLoad = store[t].byLoad /\ kept.at = store[t].at
                  BY <1>0 DEF AfterFailure, Store
            <3>. HIDE DEF kept
            <3>3. bad = [kept EXCEPT !.loading = FALSE, !.error = TRUE, !.loaded = (store[t].at # "never")]
                  BY DEF kept
            <3>4. (store[t].at # "never") \in BOOLEAN
                  OBVIOUS
            <3>5. bad \in Store
                  BY <3>1, <3>3, <3>4 DEF Store
            <3>6. /\ bad.acked = store[t].acked /\ bad.writes = store[t].writes /\ bad.ver = store[t].ver
                  /\ bad.byLoad = store[t].byLoad /\ bad.at = store[t].at /\ (bad.loaded <=> store[t].at # "never")
                  /\ bad.loading = FALSE
                  BY <3>1, <3>2, <3>3 DEF Store
            <3>. HIDE DEF bad
            <3>. QED BY <1>0, <1>t, <1>l, <3>5, <3>6 DEF TabCurrent
      <2>. HIDE DEF good, bad
      <2>4. st \in Store /\ (store[t].loaded => st.loaded) /\ TabCurrent(st, NoLoad, version)
            BY <2>2, <2>3
      <2>. HIDE DEF st
      <2>5. \A d \in Editor : editor'[d] \in EditorRec /\ EditorCurrent(d, editor[d])'
            <3> SUFFICES ASSUME NEW d \in Editor
                         PROVE  editor'[d] \in EditorRec /\ EditorCurrent(d, editor[d])'
                OBVIOUS
            <3>1. PICK x : x = Synced(t, st)[d]
                  OBVIOUS
            <3>2. x \in EditorRec /\ EditorCurrent(d, x)'
                  BY <2>1, <2>4, <3>1, Follows
            <3>3. editor'[d] = x
                  BY <2>1, <3>1
            <3>. QED BY <3>2, <3>3 DEF EditorCurrent
      <2>6. TypeOK'
            <3>1. editor' \in [Editor -> EditorRec]
                  BY <2>1, <2>5 DEF Synced
            <3>. QED BY <1>l, <2>1, <2>4, <3>1 DEF IInv, TypeOK
      <2>7. \A u \in Tab : TabCurrent(store[u], load[u], version)'
            BY <1>0, <2>1, <2>4 DEF IInv, TabCurrent
      <2>. QED BY <2>5, <2>6, <2>7 DEF IInv
<1>. QED BY <1>1, <1>2

\* What a save is once the server has stored its body.
Answered(e, x) ==
    /\ x \in EditorRec /\ x.answer.ver <= version + 1
    /\ x.pc = "put" /\ x.real = editor[e].real /\ x.fetch \in {"back", "failed"}
    /\ x.touched = editor[e].touched

(* The server stores a body, or does not: either way the answer may be     *)
(* lost.  The other saves in the air are told which sections changed.      *)
LEMMA ServePutKeeps ==
    ASSUME IInv, NEW e \in Editor, ServePut(e)
    PROVE  IInv'
<1> DEFINE body == editor[e].raw
           changed == {s \in Section : server[s] # body[s]}
<1>0. /\ editor[e] \in EditorRec /\ editor \in [Editor -> EditorRec] /\ body \in Blob
      /\ server \in Blob /\ version \in Nat /\ saves \in 0 .. MaxSaves
      /\ EditorCurrent(e, editor[e])
      /\ editor[e].pc = "put" /\ editor[e].fetch = "sent" /\ UNCHANGED <<store, load, saves>>
      BY DEF IInv, TypeOK, ServePut, EditorRec
<1>s. /\ BodySent(e) \in EditorRec
      /\ BodySent(e).pc = "put" /\ BodySent(e).real = editor[e].real /\ BodySent(e).answer = editor[e].answer
      /\ BodySent(e).touched = editor[e].touched
      BY <1>0, Nothing DEF BodySent, EditorRec
<1>1. CASE /\ editor' = [editor EXCEPT ![e] = [BodySent(e) EXCEPT !.fetch = "failed"]]
           /\ UNCHANGED <<server, version>>
      <2> DEFINE x == [BodySent(e) EXCEPT !.fetch = "failed"]
      <2>1. x \in EditorRec
            BY <1>s DEF EditorRec, FetchPC
      <2>2. /\ x.pc = editor[e].pc /\ x.real = editor[e].real /\ x.answer = editor[e].answer
            /\ x.fetch = "failed" /\ x.touched = editor[e].touched
            BY <1>0, <1>s DEF EditorRec
      <2>3. EditorCurrent(e, x)
            BY <1>0, <2>2 DEF EditorCurrent, BodyCurrent, FormRead
      <2>4. editor' = [editor EXCEPT ![e] = x]
            BY <1>0, <1>1
      <2>. QED BY <1>0, <1>1, <2>1, <2>3, <2>4, OneEditor
<1>a. ASSUME NEW blob \in Blob
      PROVE  LET a == [blob |-> blob, ver |-> version + 1]
                 x == [BodySent(e) EXCEPT !.fetch = "back", !.answer = a]
             IN  Answered(e, x)
      <2> DEFINE a == [blob |-> blob, ver |-> version + 1]
                 x == [BodySent(e) EXCEPT !.fetch = "back", !.answer = a]
      <2>1. a \in Answer /\ a.ver = version + 1
            BY <1>0 DEF Answer
      <2>. HIDE DEF a
      <2>2. x \in EditorRec
            BY <1>s, <2>1 DEF EditorRec, FetchPC
      <2>3. /\ x.pc = "put" /\ x.real = editor[e].real /\ x.answer = a /\ x.fetch = "back"
            /\ x.touched = editor[e].touched
            BY <1>s DEF EditorRec
      <2>. QED BY <1>0, <2>1, <2>2, <2>3 DEF Answered, a
<1>b. Answered(e, [BodySent(e) EXCEPT !.fetch = "failed"])
      <2> DEFINE x == [BodySent(e) EXCEPT !.fetch = "failed"]
      <2>1. x \in EditorRec
            BY <1>s DEF EditorRec, FetchPC
      <2>2. /\ x.pc = "put" /\ x.real = editor[e].real /\ x.answer = editor[e].answer
            /\ x.fetch = "failed" /\ x.touched = editor[e].touched
            BY <1>s DEF EditorRec
      <2>3. editor[e].answer.ver \in Nat /\ editor[e].answer.ver <= version
            BY <1>0 DEF EditorRec, Answer, EditorCurrent
      <2>. QED BY <1>0, <2>1, <2>2, <2>3 DEF Answered
<1>2. ASSUME NEW x, Answered(e, x), server' = body, version' = version + 1,
             editor' = [WrittenUnder(changed) EXCEPT ![e] = x]
      PROVE  IInv'
      <2>2. /\ x \in EditorRec /\ x.answer.ver <= version + 1
            /\ x.pc = "put" /\ x.real = editor[e].real /\ x.fetch \in {"back", "failed"}
            /\ x.touched = editor[e].touched
            BY <1>2 DEF Answered
      <2>4. editor' = [d \in Editor |-> IF d = e THEN x ELSE WrittenUnder(changed)[d]]
            BY <1>2 DEF WrittenUnder
      <2>5. changed \in SUBSET Section
            OBVIOUS
      <2>6. ASSUME NEW d \in Editor, d # e
            PROVE  editor'[d] \in EditorRec /\ EditorCurrent(d, editor[d])'
            <3>1. editor[d] \in EditorRec /\ EditorCurrent(d, editor[d]) /\ editor[d].answer.ver \in Nat
                  <4>1. editor[d] \in EditorRec /\ EditorCurrent(d, editor[d])
                        BY DEF IInv, TypeOK
                  <4>. QED BY <4>1 DEF EditorRec, Answer
            <3>2. CASE HoldsBody(d)
                  <4>1. editor'[d] = [editor[d] EXCEPT !.since = @ \cup changed]
                        BY <2>4, <2>6, <3>2 DEF WrittenUnder
                  <4>2. editor'[d] \in EditorRec
                        BY <2>5, <3>1, <4>1 DEF EditorRec
                  <4>3. LET y == editor'[d]
                        IN  /\ y.pc = editor[d].pc /\ y.real = editor[d].real /\ y.answer = editor[d].answer
                            /\ y.fetch = editor[d].fetch /\ y.touched = editor[d].touched /\ y.raw = editor[d].raw
                            /\ y.since = editor[d].since \cup changed /\ y.parsed = editor[d].parsed
                        BY <3>1, <4>1 DEF EditorRec
                  <4>4. BodyCurrent(d, editor[d], server)'
                        BY <1>2, <3>1, <4>3 DEF EditorCurrent, BodyCurrent
                  <4>5. FormRead(d, editor[d], store[TabOf[d]])'
                        BY <1>0, <3>1, <4>3 DEF EditorCurrent, FormRead
                  <4>6. editor'[d].answer.ver <= version'
                        <5>1. editor'[d].answer.ver = editor[d].answer.ver /\ editor[d].answer.ver <= version
                              BY <3>1, <4>3 DEF EditorCurrent
                        <5>. QED BY <1>0, <1>2, <3>1, <5>1
                  <4>7. editor'[d].fetch # "none"
                        BY <3>1, <3>2, <4>3 DEF EditorCurrent, HoldsBody
                  <4>. QED BY <4>2, <4>4, <4>5, <4>6, <4>7 DEF EditorCurrent
            <3>3. CASE ~HoldsBody(d)
                  <4>1. editor'[d] = editor[d]
                        BY <2>4, <2>6, <3>3 DEF WrittenUnder
                  <4>2. BodyCurrent(d, editor[d], server)'
                        BY <3>3, <4>1 DEF BodyCurrent, HoldsBody
                  <4>3. FormRead(d, editor[d], store[TabOf[d]])'
                        BY <1>0, <3>1, <4>1 DEF EditorCurrent, FormRead
                  <4>4. editor'[d].answer.ver <= version'
                        BY <1>0, <1>2, <3>1, <4>1 DEF EditorCurrent
                  <4>5. editor'[d].pc \in {"get", "put"} => editor'[d].fetch # "none"
                        BY <3>1, <4>1 DEF EditorCurrent
                  <4>. QED BY <3>1, <4>1, <4>2, <4>3, <4>4, <4>5 DEF EditorCurrent
            <3>. QED BY <3>2, <3>3
      <2>7. EditorCurrent(e, editor[e])' /\ editor'[e] \in EditorRec
            <3>1. editor'[e] = x
                  BY <2>4
            <3>2. editor'[e].answer.ver <= version'
                  BY <1>2, <2>2, <3>1
            <3>3. BodyCurrent(e, editor[e], server)'
                  BY <2>2, <3>1 DEF BodyCurrent
            <3>4. FormRead(e, editor[e], store[TabOf[e]])'
                  BY <1>0, <2>2, <3>1 DEF EditorCurrent, FormRead
            <3>. QED BY <2>2, <3>1, <3>2, <3>3, <3>4 DEF EditorCurrent
      <2>8. TypeOK'
            <3>1. editor' \in [Editor -> EditorRec]
                  BY <2>4, <2>6, <2>7
            <3>. QED BY <1>0, <1>2, <3>1 DEF IInv, TypeOK
      <2>9. ASSUME NEW t \in Tab PROVE TabCurrent(store[t], load[t], version)'
            <3>1. store[t].acked \in Nat /\ TabCurrent(store[t], load[t], version)
                  BY DEF IInv, TypeOK, Store
            <3>. QED BY <1>0, <1>2, <3>1 DEF TabCurrent
      <2>. QED BY <2>6, <2>7, <2>8, <2>9 DEF IInv
<1>3. AsParsed(body) \subseteq Blob
      BY <1>0, Nothing DEF AsParsed
<1>4. \/ /\ editor' = [editor EXCEPT ![e] = [BodySent(e) EXCEPT !.fetch = "failed"]]
         /\ UNCHANGED <<server, version>>
      \/ /\ server' = body /\ version' = version + 1
         /\ \E x : Answered(e, x) /\ editor' = [WrittenUnder(changed) EXCEPT ![e] = x]
      BY <1>3, <1>a, <1>b DEF ServePut
<1>. QED BY <1>1, <1>2, <1>4

(* A save ends in the store of its tab, whose loads in the air it outruns. *)
LEMMA FinishSaveKeeps ==
    ASSUME IInv, NEW e \in Editor, FinishSave(e)
    PROVE  IInv'
<1> DEFINE t == TabOf[e]
           a == editor[e].answer
           top == IF store[t].acked < a.ver THEN a.ver ELSE store[t].acked
           st == [store[t] EXCEPT !.shown = a.blob, !.error = FALSE,
                     !.loading = LoadingAfterSave(store[t]), !.loaded = TRUE, !.at = "fresh", !.writes = @ + 1,
                     !.ver = a.ver, !.byLoad = FALSE, !.acked = top]
<1>0. /\ t \in Tab /\ store[t] \in Store /\ load[t] \in Load /\ store \in [Tab -> Store]
      /\ a \in Answer /\ version \in Nat
      /\ TabCurrent(store[t], load[t], version) /\ EditorCurrent(e, editor[e])
      BY Places DEF IInv, TypeOK, EditorRec
<1>t. /\ store[t].writes \in Nat /\ store[t].acked \in Nat /\ load[t].startedAt \in Nat
      /\ a.ver \in Nat /\ a.blob \in Blob /\ top \in Nat /\ top <= version
      BY <1>0 DEF Store, Load, Answer, TabCurrent, EditorCurrent
<1>1. /\ store' = [store EXCEPT ![t] = st] /\ editor' = [Synced(t, st) EXCEPT ![e] = Closed]
      /\ UNCHANGED <<server, version, load, saves>>
      BY DEF FinishSave
<1>m. store[t].writes + 1 \in Nat /\ LoadingAfterSave(store[t]) = FALSE
      BY <1>t DEF LoadingAfterSave
<1>. HIDE DEF t, a, top
<1>2. st \in Store
      BY <1>0, <1>t, <1>m DEF Store
<1>3. /\ st.acked = top /\ st.writes = store[t].writes + 1 /\ st.byLoad = FALSE /\ st.loaded = TRUE
      /\ st.at = "fresh" /\ st.loading = FALSE
      BY <1>0, <1>m DEF Store
<1>. HIDE DEF st
<1>. USE DEF t
<1>4. TabCurrent(st, load[t], version)
      BY <1>0, <1>t, <1>3 DEF TabCurrent
<1>5. \A d \in Editor : editor'[d] \in EditorRec /\ EditorCurrent(d, editor[d])'
      <2> SUFFICES ASSUME NEW d \in Editor
                   PROVE  editor'[d] \in EditorRec /\ EditorCurrent(d, editor[d])'
          OBVIOUS
      <2>1. CASE d = e
            <3>1. editor'[d] = Closed
                  BY <1>1, <2>1 DEF Synced
            <3>. QED BY <1>0, <1>1, <3>1, Nothing DEF EditorCurrent, BodyCurrent, FormRead, Closed, NoAnswer
      <2>2. CASE d # e
            <3>1. PICK x : x = Synced(t, st)[d]
                  OBVIOUS
            <3>2. x \in EditorRec /\ EditorCurrent(d, x)'
                  BY <1>0, <1>1, <1>2, <1>3, <3>1, Follows
            <3>3. editor'[d] = x
                  BY <1>1, <2>2, <3>1 DEF Synced
            <3>. QED BY <3>2, <3>3 DEF EditorCurrent
      <2>. QED BY <2>1, <2>2
<1>6. TypeOK'
      <2>1. editor' \in [Editor -> EditorRec]
            BY <1>1, <1>5 DEF Synced
      <2>. QED BY <1>1, <1>2, <2>1 DEF IInv, TypeOK
<1>7. \A u \in Tab : TabCurrent(store[u], load[u], version)'
      BY <1>0, <1>1, <1>4 DEF IInv, TypeOK, TabCurrent
<1>. QED BY <1>5, <1>6, <1>7 DEF IInv

(* The invariant holds at first, no step breaks it, so it always holds.    *)
LEMMA Invariance == Spec => []IInv
<1>1. Init => IInv
      <2> SUFFICES ASSUME Init PROVE IInv
          OBVIOUS
      <2>1. TypeOK
            BY Nothing, EditorAssumption DEF Init, TypeOK, Store
      <2>2. \A t \in Tab : TabCurrent(store[t], load[t], version)
            BY DEF Init, TabCurrent, NoLoad
      <2>3. \A e \in Editor : EditorCurrent(e, editor[e])
            BY DEF Init, EditorCurrent, BodyCurrent, FormRead, Closed, NoAnswer
      <2>. QED BY <2>1, <2>2, <2>3 DEF IInv
<1>2. IInv /\ [Next]_vars => IInv'
      <2> SUFFICES ASSUME IInv, [Next]_vars PROVE IInv'
          OBVIOUS
      <2>1. CASE UNCHANGED vars
            BY <2>1 DEF vars, IInv, TypeOK, TabCurrent, EditorCurrent, BodyCurrent, FormRead
      <2>2. CASE Settle
            BY <2>2, FinishLoadKeeps, FinishSaveKeeps, EditorKeeps DEF Settle
      <2>3. CASE Serve
            BY <2>3, TabKeeps, ServePutKeeps, EditorKeeps DEF Serve
      <2>4. CASE Reader
            BY <2>4, TabKeeps, EditorKeeps DEF Reader
      <2>5. CASE \E t \in Tab : Age(t)
            BY <2>5, TabKeeps
      <2>. QED BY <2>1, <2>2, <2>3, <2>4, <2>5 DEF Next
<1>. QED BY <1>1, <1>2, PTL DEF Spec

-----------------------------------------------------------------------------
(* However loads and saves cross in the air, a load never puts back a blob *)
(* older than one that a save of its tab was told of.                      *)
THEOREM LoadsYieldToSaves == Spec => []LoadsNeverRevertASave
<1>1. IInv => LoadsNeverRevertASave
      BY DEF IInv, TabCurrent, LoadsNeverRevertASave
<1>. QED BY <1>1, Invariance, PTL

(* Whatever a panel or an editor waits for is out, and no save has outrun  *)
(* the load that a panel waits for.                                        *)
THEOREM WaitsAreMet == Spec => []WaitsAreForRequests
<1>1. IInv => WaitsAreForRequests
      BY DEF IInv, TabCurrent, EditorCurrent, WaitsAreForRequests, Outrun
<1>. QED BY <1>1, Invariance, PTL

\* What an editor without a zone picker saves was read.
SealedFormsWereRead ==
    \A e \in Editor \ Picker : editor[e].pc \in {"get", "put"} => editor[e].real

(* Only a form that a completed read filled in is saved, by every editor   *)
(* that HideableEditor seals: all of them, where none has a zone picker.   *)
THEOREM SavesAreOfWhatWasRead == Spec => [](SealedFormsWereRead /\ (Picker = {} => SavesComeFromARead))
<1>1. IInv => SealedFormsWereRead
      BY DEF IInv, EditorCurrent, FormRead, SealedFormsWereRead
<1>2. SealedFormsWereRead => (Picker = {} => SavesComeFromARead)
      BY DEF SealedFormsWereRead, SavesComeFromARead
<1>. QED BY <1>1, <1>2, Invariance, PTL

(* A save changes no other section than its own, but for those another     *)
(* save wrote between its read and its write, and but for a re-read whose  *)
(* body did not parse; and no load that fails takes a blob that was read   *)
(* off the screen.                                                         *)
THEOREM OthersAreKept == Spec => OtherSectionsKept
<1>1. ASSUME IInv, Next PROVE SectionsKept
      <2> SUFFICES ASSUME NEW e \in Editor, editor[e].pc = "put", editor[e].fetch = "sent",
                          version' # version, editor'[e].fetch # "sent",
                          NEW s \in Section \ {SectionOf[e]}, server'[s] # server[s]
                   PROVE  s \in editor[e].since \/ ~editor[e].parsed
          BY DEF SectionsKept
      <2>1. PICK d \in Editor : ServePut(d)
            BY <1>1 DEF Next, Settle, Serve, Reader, FinishLoad, SendPut, FinishSave, FailSave,
               ServeLoad, ServeGet, LoadPreferences, OpenEditor, Toggle, BeginSave, CloseEditor, Age
      <2>2. editor \in [Editor -> EditorRec] /\ editor[e] \in EditorRec /\ BodyCurrent(e, editor[e], server)
            BY <1>1 DEF IInv, TypeOK, EditorCurrent
      <2>3. server' = editor[d].raw
            BY <2>1 DEF ServePut
      <2>4. d = e
            <3> SUFFICES ASSUME d # e PROVE FALSE
                OBVIOUS
            <3>1. PICK S : \E x : editor' = [WrittenUnder(S) EXCEPT ![d] = x]
                  BY <2>1 DEF ServePut
            <3>2. editor'[e] = [editor[e] EXCEPT !.since = @ \cup S]
                  BY <3>1 DEF WrittenUnder, HoldsBody
            <3>. QED BY <2>2, <3>2 DEF EditorRec
      <2>. QED BY <2>2, <2>3, <2>4 DEF BodyCurrent
<1>2. ASSUME IInv, Next PROVE BlobKept
      <2> SUFFICES ASSUME NEW t \in Tab, store[t].loaded, store'[t].shown # store[t].shown
                   PROVE  store'[t].loaded /\ ~store'[t].error
          BY DEF BlobKept
      <2>0. /\ store[t] \in Store /\ store \in [Tab -> Store] /\ store[t].at # "never"
            BY <1>2 DEF IInv, TypeOK, TabCurrent
      <2>1. \/ \E u \in Tab : LoadPreferences(u) \/ FinishLoad(u) \/ Age(u)
            \/ \E e \in Editor : FinishSave(e)
            BY <1>2 DEF Next, Settle, Serve, Reader, SendPut, FailSave, ServePut,
               ServeLoad, ServeGet, OpenEditor, Toggle, BeginSave, CloseEditor
      <2>2. ASSUME NEW u \in Tab, LoadPreferences(u) \/ Age(u) PROVE FALSE
            <3>1. PICK st : /\ store' = [store EXCEPT ![u] = st]
                            /\ \/ st = [store[u] EXCEPT !.loading = TRUE, !.error = FALSE]
                               \/ st = [store[u] EXCEPT !.at = "stale"]
                  BY <2>2 DEF LoadPreferences, Age
            <3>2. CASE u = t
                  BY <2>0, <3>1, <3>2 DEF Store
            <3>3. CASE u # t
                  BY <2>0, <3>1, <3>3
            <3>. QED BY <3>2, <3>3
      <2>3. ASSUME NEW u \in Tab, FinishLoad(u) PROVE store'[t].loaded /\ ~store'[t].error
            <3>1. PICK st : /\ store' = [store EXCEPT ![u] = st] \/ store' = store
                            /\ \/ st = [store[u] EXCEPT !.shown = load[u].answer.blob, !.loading = FALSE,
                                          !.error = FALSE, !.loaded = TRUE, !.at = "fresh",
                                          !.ver = load[u].answer.ver, !.byLoad = TRUE]
                               \/ st = [AfterFailure(store[u]) EXCEPT !.loading = FALSE, !.error = TRUE,
                                          !.loaded = (store[u].at # "never")]
                  BY <2>3 DEF FinishLoad
            <3>2. u = t
                  BY <2>0, <3>1
            <3>3. AfterFailure(store[u]) = store[t]
                  BY <2>0, <3>2 DEF AfterFailure
            <3>4. store'[t] = st /\ st.shown # store[t].shown
                  BY <2>0, <3>1, <3>2
            <3>5. CASE st = [store[t] EXCEPT !.loading = FALSE, !.error = TRUE, !.loaded = (store[t].at # "never")]
                  <4>1. st.shown = store[t].shown
                        BY <2>0, <3>5 DEF Store
                  <4>. QED BY <3>4, <4>1
            <3>6. CASE st = [store[t] EXCEPT !.shown = load[u].answer.blob, !.loading = FALSE,
                                !.error = FALSE, !.loaded = TRUE, !.at = "fresh",
                                !.ver = load[u].answer.ver, !.byLoad = TRUE]
                  BY <2>0, <3>4, <3>6 DEF Store
            <3>. QED BY <3>1, <3>2, <3>3, <3>5, <3>6
      <2>4. ASSUME NEW e \in Editor, FinishSave(e) PROVE store'[t].loaded /\ ~store'[t].error
            <3>1. PICK st : /\ store' = [store EXCEPT ![TabOf[e]] = st]
                            /\ st = [store[TabOf[e]] EXCEPT !.shown = editor[e].answer.blob, !.error = FALSE,
                                       !.loading = LoadingAfterSave(store[TabOf[e]]), !.loaded = TRUE,
                                       !.at = "fresh", !.writes = @ + 1, !.ver = editor[e].answer.ver,
                                       !.byLoad = FALSE,
                                       !.acked = IF store[TabOf[e]].acked < editor[e].answer.ver
                                                 THEN editor[e].answer.ver ELSE store[TabOf[e]].acked]
                  BY <2>4 DEF FinishSave
            <3>2. TabOf[e] = t
                  BY <2>0, <3>1
            <3>. QED BY <2>0, <3>1, <3>2 DEF Store
      <2>. QED BY <2>1, <2>2, <2>3, <2>4
<1>3. IInv /\ [Next]_vars => [SectionsKept /\ BlobKept]_vars
      BY <1>1, <1>2
<1>. QED BY <1>3, Invariance, PTL DEF Spec, OtherSectionsKept
=============================================================================
