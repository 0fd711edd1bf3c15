----------------------------- MODULE LookupProofs -----------------------------
(***************************************************************************)
(* Proofs about what is looked up for a token: the server's datasets, and  *)
(* what the web app makes of its answers about an indicator and an         *)
(* airfield.  The three share nothing.                                     *)
(*                                                                         *)
(* CyberDatasets, for any number of callers, configuration hooks, set      *)
(* values and changes: every open file has one owner who will close it and *)
(* nobody reads a closed one (HandlesAreOwned), what is served was opened  *)
(* since the last reload (ServedSinceReload), and the files served never   *)
(* go back in time (FilesNeverGoBack).  The inductive invariant says who   *)
(* holds which set value at which step of its life, and what the           *)
(* generation counter tells apart: an opener that is not overtaken still   *)
(* finds no set installed, a refresh that is not overtaken still finds     *)
(* one, and is the only one.                                               *)
(*                                                                         *)
(* CyberView, for any indicators, shapes and links the reader admits, and  *)
(* whatever the server says: the card over a token claims of its indicator *)
(* what the panel claims, and the panel leads only where it may            *)
(* (IndicatorIsTheOneAsked).  The invariant says that a ready surface's    *)
(* answer was judged for the indicator it is shown as (ReadIsReady), and   *)
(* that this is the surface's own unless an effect or the surface's own    *)
(* request is still to come (ListensToItsOwn).                             *)
(*                                                                         *)
(* AirfieldView, for any links, codes, positions and answers: the panel,   *)
(* the map and the card show the airfield asked for, at one place          *)
(* (AirfieldIsTheOneAsked).  The invariant says of a ready answer that it  *)
(* read and answered the question (AnswerIsRead), and of the reader who    *)
(* left for the position that it was the answer's (LedToThePlace).         *)
(***************************************************************************)
EXTENDS CyberDatasets, LookupViews, FiniteSetTheorems, TLAPS

-----------------------------------------------------------------------------
\* The datasets of the server.
Fetching == {"read", "install"}             \* a set value is in the hands of its opener
Busy     == OpenPC \cup {"dirs"}            \* a refresh is under way

(* A goroutine holds a set value from its scan until it is done with it.   *)
HoldsFromTheScan ==
    /\ \A c \in Caller : caller[c].set = NoSet <=> caller[c].pc \in {"idle", "lock", "waiting", "scan"}
    /\ \A w \in Worker : worker[w].set = NoSet <=> worker[w].pc \in {"idle", "reload", "dirs", "scan"}

(* No goroutine carries a generation that is still to come.                *)
GenerationsPast ==
    /\ \A c \in Caller : caller[c].gen <= generation
    /\ \A w \in Worker : worker[w].gen <= generation

(* The set value s, opened by a goroutine at step `at` for generation g,   *)
(* is that goroutine's alone to the process: not served, no timer's.       *)
Fetched(s, at, g) ==
    /\ sets[s].state = IF at = "read" THEN "opening" ELSE "open"
    /\ sets[s].gen = g
    /\ s # set /\ s \notin timers

CallersFetchAlone ==
    \A c \in Caller : caller[c].pc \in Fetching =>
        /\ Fetched(caller[c].set, caller[c].pc, caller[c].gen)
        /\ \A d \in Caller : caller[d].set = caller[c].set => d = c
        /\ \A w \in Worker : worker[w].set # caller[c].set

WorkersFetchAlone ==
    \A w \in Worker : worker[w].pc \in Fetching =>
        /\ Fetched(worker[w].set, worker[w].pc, worker[w].gen)
        /\ \A v \in Worker : worker[v].set = worker[w].set => v = w
        /\ \A c \in Caller : caller[c].set # worker[w].set

(* A timer waits for a set that is still open.                             *)
TimersHoldOpenSets == \A s \in timers : sets[s].state = "open"

(* The first open is one goroutine's, and while it is not overtaken there  *)
(* is no set it would displace.                                            *)
OneOpener ==
    \A c \in Caller : caller[c].pc \in OpenPC =>
        opening = c /\ (caller[c].gen = generation => set = NoSet)

(* A refresh that is not overtaken has a set to displace, has a flag set   *)
(* for it, and is the only one.                                            *)
RefreshIsTheOnlyOne ==
    /\ \A w \in Worker : worker[w].pc \in Busy /\ worker[w].gen = generation =>
          /\ set # NoSet /\ refreshing
          /\ \A v \in Worker : worker[v].pc \in Busy /\ worker[v].gen = generation => v = w
    /\ refreshing => \E w \in Worker : worker[w].pc \in Busy /\ worker[w].gen = generation

(* Files are read as they are at the time, so the ones a refresh is about  *)
(* to install are no older than those it displaces.                        *)
RefreshIsNewer ==
    /\ \A s \in SetId : sets[s].data <= disk
    /\ \A w \in Worker : worker[w].pc = "install" /\ worker[w].gen = generation =>
          sets[set].data <= sets[worker[w].set].data

(* Who holds what: the first half of the inductive invariant.              *)
Ownership ==
    /\ HoldsFromTheScan
    /\ CallersFetchAlone
    /\ WorkersFetchAlone
    /\ TimersHoldOpenSets
    /\ InstalledStaysOpen
    /\ NoHandleLeaks
    /\ NoReadOfClosedFiles

(* Who is overtaken: the second half.                                      *)
Generations ==
    /\ GenerationsPast
    /\ OneOpener
    /\ RefreshIsTheOnlyOne
    /\ RefreshIsNewer
    /\ ServedSinceReload

IInv == TypeOK /\ Ownership /\ Generations

-----------------------------------------------------------------------------
(* What a step makes of the record of a caller...                          *)
LEMMA CallerUpdates ==
    ASSUME NEW r \in CallerRec, NEW pc \in CallerPC, NEW dirs \in Nat, NEW gen \in Nat,
           NEW s \in SetId \cup {NoSet}, NEW on \in Caller \cup {NoCaller}
    PROVE  /\ [r EXCEPT !.pc = pc] \in CallerRec
           /\ [r EXCEPT !.pc = pc, !.dirs = dirs] \in CallerRec
           /\ [r EXCEPT !.pc = pc, !.dirs = dirs, !.set = s] \in CallerRec
           /\ [r EXCEPT !.pc = pc, !.on = on] \in CallerRec
           /\ [r EXCEPT !.pc = pc, !.gen = gen] \in CallerRec
           /\ IdleCaller \in CallerRec
BY DEF CallerRec, IdleCaller, CallerPC

(* ...of the record of a worker...                                         *)
LEMMA WorkerUpdates ==
    ASSUME NEW r \in WorkerRec, NEW pc \in WorkerPC, NEW dirs \in Nat, NEW gen \in Nat,
           NEW s \in SetId \cup {NoSet}
    PROVE  /\ [r EXCEPT !.pc = pc] \in WorkerRec
           /\ [r EXCEPT !.pc = pc, !.dirs = dirs] \in WorkerRec
           /\ [r EXCEPT !.pc = pc, !.dirs = dirs, !.set = s] \in WorkerRec
           /\ [r EXCEPT !.pc = pc, !.dirs = dirs, !.gen = gen] \in WorkerRec
           /\ [r EXCEPT !.pc = pc, !.gen = gen] \in WorkerRec
           /\ IdleWorker \in WorkerRec
BY DEF WorkerRec, IdleWorker, WorkerPC

(* ...and of a set value is again such a record.                           *)
LEMMA SetUpdates ==
    ASSUME NEW r \in SetRec, NEW d \in Nat, NEW dirs \in Nat, NEW gen \in Nat,
           NEW st \in {"none", "closing", "closed"}
    PROVE  /\ [r EXCEPT !.state = "open", !.data = d] \in SetRec
           /\ [state |-> "opening", dirs |-> dirs, seen |-> d, data |-> 0, gen |-> gen] \in SetRec
           /\ Blank(st) \in SetRec
BY DEF SetRec, Blank

(* The steps by name.                                                      *)
LEMMA PCs ==
    /\ {"idle", "lock", "waiting", "scan", "read", "install", "close", "have", "reading"} \subseteq CallerPC
    /\ {"idle", "reload", "dirs", "scan", "read", "install"} \subseteq WorkerPC
BY DEF CallerPC, WorkerPC, OpenPC

(* Every step keeps each variable within its type.                         *)
LEMMA TypeOKInductive == TypeOK /\ [Next]_vars => TypeOK'
<1> SUFFICES ASSUME TypeOK, [Next]_vars PROVE TypeOK'
    OBVIOUS
<1> USE PCs DEF TypeOK, shared
<1>0. /\ \A c \in Caller : /\ caller[c] \in CallerRec /\ caller[c].dirs \in Nat
                           /\ caller[c].gen \in Nat /\ caller[c].set \in SetId \cup {NoSet}
      /\ \A w \in Worker : /\ worker[w] \in WorkerRec /\ worker[w].dirs \in Nat
                           /\ worker[w].gen \in Nat /\ worker[w].set \in SetId \cup {NoSet}
      /\ conf \in Nat /\ disk \in Nat
      BY BoundsAssumption DEF CallerRec, WorkerRec
<1>1. ASSUME NEW c \in Caller, Call(c) PROVE TypeOK'
      BY <1>1, <1>0, CallerUpdates DEF Call
<1>2. ASSUME NEW c \in Caller, ServeCached(c) PROVE TypeOK'
      <2>1. [caller[c] EXCEPT !.pc = "have", !.dirs = 0, !.set = set] \in CallerRec
            BY <1>0, CallerUpdates
      <2>2. \A w \in Worker : [worker[w] EXCEPT !.pc = "scan", !.dirs = caller[c].dirs,
                                                !.gen = generation] \in WorkerRec
            BY <1>0, WorkerUpdates
      <2>3. worker' \in [Worker -> WorkerRec]
            BY <1>2, <2>2 DEF ServeCached
      <2>4. fresh' \in BOOLEAN /\ refreshing' \in BOOLEAN
            BY <1>2 DEF ServeCached
      <2>. QED BY <1>2, <2>1, <2>3, <2>4 DEF ServeCached
<1>3. ASSUME NEW c \in Caller, WaitForOpening(c) PROVE TypeOK'
      BY <1>3, <1>0, CallerUpdates DEF WaitForOpening
<1>4. ASSUME NEW c \in Caller, StartOpening(c) PROVE TypeOK'
      BY <1>4, <1>0, CallerUpdates DEF StartOpening
<1>5. ASSUME NEW c \in Caller, CallerScans(c) PROVE TypeOK'
      <2>1. \A s \in SetId : [caller[c] EXCEPT !.pc = "read", !.dirs = 0, !.set = s] \in CallerRec
            BY <1>0, CallerUpdates
      <2>2. [state |-> "opening", dirs |-> caller[c].dirs, seen |-> disk, data |-> 0,
             gen |-> caller[c].gen] \in SetRec
            BY <1>0 DEF SetRec
      <2>. QED BY <1>5, <2>1, <2>2 DEF CallerScans, ScanCandidates
<1>6. ASSUME NEW c \in Caller, CallerOpens(c) PROVE TypeOK'
      <2>2. \A s \in SetId : [sets[s] EXCEPT !.state = "open", !.data = disk] \in SetRec
            BY <1>0 DEF SetRec
      <2>. QED BY <1>6, <1>0, <2>2, CallerUpdates DEF CallerOpens, OpenFiles
<1>7. ASSUME NEW c \in Caller, EndOpening(c) PROVE TypeOK'
      <2>1. timers' \subseteq SetId /\ sets' = sets
            BY <1>7, <1>0 DEF EndOpening, Retire
      <2>2. set' \in SetId \cup {NoSet} /\ fresh' \in BOOLEAN
            BY <1>7, <1>0 DEF EndOpening
      <2>. QED BY <1>7, <1>0, <2>1, <2>2, CallerUpdates DEF EndOpening
<1>8. ASSUME NEW c \in Caller, CloseChannel(c) PROVE TypeOK'
      BY <1>8, <1>0, CallerUpdates DEF CloseChannel
<1>9. ASSUME NEW c \in Caller, StartRead(c) \/ EndRead(c) \/ Done(c) PROVE TypeOK'
      <2>1. CASE StartRead(c)
            BY <2>1, <1>0, CallerUpdates DEF StartRead
      <2>2. CASE EndRead(c)
            BY <2>2, <1>0, CallerUpdates DEF EndRead
      <2>3. CASE Done(c)
            BY <2>3, <1>0, CallerUpdates DEF Done
      <2>. QED BY <1>9, <2>1, <2>2, <2>3
<1>10. ASSUME NEW w \in Worker, Configure(w) PROVE TypeOK'
      <2>1. conf' \in 0 .. MaxConf
            BY <1>10, BoundsAssumption DEF Configure
      <2>2. worker' \in [Worker -> WorkerRec]
            BY <1>10, <1>0, WorkerUpdates DEF Configure
      <2>. QED BY <1>10, <2>1, <2>2 DEF Configure
<1>11. ASSUME NEW w \in Worker, Reload(w) PROVE TypeOK'
      <2>1. NextGeneration \in Nat
            BY DEF NextGeneration
      <2>2. generation' \in Nat
            BY <1>11, <2>1 DEF Reload
      <2>3. refreshing' \in BOOLEAN
            BY <1>11 DEF Reload
      <2>4. IdleWorker \in WorkerRec /\ [worker[w] EXCEPT !.pc = "dirs", !.gen = NextGeneration] \in WorkerRec
            BY <1>0, <2>1, WorkerUpdates
      <2>5. worker' \in [Worker -> WorkerRec]
            BY <1>11, <2>4 DEF Reload
      <2>. QED BY <1>11, <2>2, <2>3, <2>5 DEF Reload
<1>12. ASSUME NEW w \in Worker, ReadDirs(w) PROVE TypeOK'
      BY <1>12, <1>0, WorkerUpdates DEF ReadDirs
<1>13. ASSUME NEW w \in Worker, WorkerScans(w) PROVE TypeOK'
      <2>1. \A s \in SetId : [worker[w] EXCEPT !.pc = "read", !.dirs = 0, !.set = s] \in WorkerRec
            BY <1>0, WorkerUpdates
      <2>2. [state |-> "opening", dirs |-> worker[w].dirs, seen |-> disk, data |-> 0,
             gen |-> worker[w].gen] \in SetRec
            BY <1>0 DEF SetRec
      <2>. QED BY <1>13, <2>1, <2>2 DEF WorkerScans, ScanCandidates
<1>14. ASSUME NEW w \in Worker, WorkerOpens(w) PROVE TypeOK'
      <2>2. \A s \in SetId : [sets[s] EXCEPT !.state = "open", !.data = disk] \in SetRec
            BY <1>0 DEF SetRec
      <2>. QED BY <1>14, <1>0, <2>2, WorkerUpdates DEF WorkerOpens, OpenFiles
<1>15. ASSUME NEW w \in Worker, EndRefresh(w) PROVE TypeOK'
      <2>1. timers' \subseteq SetId
            BY <1>15 DEF EndRefresh, Retire, CloseNow
      <2>2. set' \in SetId \cup {NoSet} /\ fresh' \in BOOLEAN /\ refreshing' \in BOOLEAN
            BY <1>15, <1>0 DEF EndRefresh
      <2>3. sets' \in [SetId -> SetRec]
            BY <1>15, SetUpdates DEF EndRefresh, Retire, CloseNow
      <2>. QED BY <1>15, <1>0, <2>1, <2>2, <2>3, WorkerUpdates DEF EndRefresh
<1>16. ASSUME NEW s \in SetId, GraceEnds(s) \/ Close(s) PROVE TypeOK'
      BY <1>16, SetUpdates DEF GraceEnds, Close
<1>17. CASE Forget
      <2>1. generation' \in Nat
            BY <1>17 DEF Forget, NextGeneration
      <2>2. timers' \subseteq SetId /\ set' = NoSet /\ sets' = sets
            BY <1>17 DEF Forget, Retire, Uninstall
      <2>3. fresh' \in BOOLEAN /\ refreshing' \in BOOLEAN
            BY <1>17 DEF Forget
      <2>. QED BY <1>17, <2>1, <2>2, <2>3 DEF Forget
<1>18. CASE Expire
      BY <1>18 DEF Expire
<1>19. CASE ChangeFiles
      BY <1>19, BoundsAssumption DEF ChangeFiles
<1>20. CASE UNCHANGED vars
      BY <1>20 DEF vars
<1>. QED BY <1>1, <1>2, <1>3, <1>4, <1>5, <1>6, <1>7, <1>8, <1>9, <1>10, <1>11, <1>12, <1>13,
            <1>14, <1>15, <1>16, <1>17, <1>18, <1>19, <1>20 DEF Next, CallerStep, WorkerStep

-----------------------------------------------------------------------------
(* What a step makes of one caller, one worker, one set value, as far as   *)
(* the invariant looks at it; the others stay as they are.                 *)
CallerBecomes(c, pc, s, gen) ==
    /\ caller'[c].pc = pc /\ caller'[c].set = s /\ caller'[c].gen = gen
    /\ \A d \in Caller : d # c => caller'[d] = caller[d]

WorkerBecomes(w, pc, s, gen) ==
    /\ worker'[w].pc = pc /\ worker'[w].set = s /\ worker'[w].gen = gen
    /\ \A v \in Worker : v # w => worker'[v] = worker[v]

SetBecomes(s, state, gen, data) ==
    /\ sets'[s].state = state /\ sets'[s].gen = gen /\ sets'[s].data = data
    /\ \A r \in SetId : r # s => sets'[r] = sets[r]

(* The types that the steps below need.                                    *)
LEMMA Fields ==
    ASSUME TypeOK
    PROVE  /\ \A c \in Caller : /\ caller[c].pc \in CallerPC /\ caller[c].gen \in Nat
                                /\ caller[c].set \in SetId \cup {NoSet}
           /\ \A w \in Worker : /\ worker[w].pc \in WorkerPC /\ worker[w].gen \in Nat
                                /\ worker[w].set \in SetId \cup {NoSet}
           /\ \A s \in SetId : sets[s].data \in Nat /\ sets[s].gen \in Nat
           /\ set \in SetId \cup {NoSet} /\ NoSet \notin SetId
           /\ generation \in Nat /\ disk \in Nat /\ timers \subseteq SetId
BY BoundsAssumption, NilAssumption DEF TypeOK, CallerRec, WorkerRec, SetRec

(* Closing the channel lets the opener and the waiters go on.              *)
LEMMA Woken ==
    ASSUME TypeOK, NEW c \in Caller, CloseChannel(c)
    PROVE  /\ caller[c].pc = "close" /\ caller'[c].pc = "have"
           /\ \A d \in Caller :
                 /\ caller'[d].set = caller[d].set /\ caller'[d].gen = caller[d].gen
                 /\ d # c => \/ caller'[d].pc = caller[d].pc
                             \/ caller[d].pc = "waiting" /\ caller'[d].pc = "lock"
           /\ UNCHANGED <<set, generation, refreshing, opening, disk, worker, sets, timers>>
<1>1. /\ caller[c].pc = "close"
      /\ UNCHANGED <<set, generation, refreshing, opening, disk, worker, sets, timers>>
      BY Zenon DEF CloseChannel, shared
<1>2. ASSUME NEW d \in Caller
      PROVE  /\ d = c => caller'[d] = [caller[d] EXCEPT !.pc = "have"]
             /\ d # c => \/ caller'[d] = caller[d]
                         \/ /\ caller[d].pc = "waiting"
                            /\ caller'[d] = [caller[d] EXCEPT !.pc = "lock", !.on = NoCaller]
      BY DEF CloseChannel, WokenBy, Waiting
<1>3. \A d \in Caller : caller[d] \in CallerRec
      BY DEF TypeOK
<1>4. caller'[c].pc = "have"
      BY <1>2, <1>3 DEF CallerRec
<1>5. ASSUME NEW d \in Caller
      PROVE  /\ caller'[d].set = caller[d].set /\ caller'[d].gen = caller[d].gen
             /\ d # c => \/ caller'[d].pc = caller[d].pc
                         \/ caller[d].pc = "waiting" /\ caller'[d].pc = "lock"
      BY <1>2, <1>3 DEF CallerRec
<1>. QED BY <1>1, <1>4, <1>5, Zenon

(* The steps of a caller.                                                  *)
LEMMA CallerKeeps ==
    ASSUME IInv, NEW c \in Caller,
           CallerStep(c) \/ Call(c) \/ StartRead(c) \/ Done(c)
    PROVE  Ownership' /\ Generations'
<1> USE Fields DEF IInv, Ownership, Generations, HoldsFromTheScan, CallersFetchAlone,
           WorkersFetchAlone, TimersHoldOpenSets, InstalledStaysOpen, NoHandleLeaks,
           NoReadOfClosedFiles, GenerationsPast, OneOpener, RefreshIsTheOnlyOne,
           RefreshIsNewer, ServedSinceReload, Fetched, Fetching, Busy, OpenPC,
           CallerBecomes, WorkerBecomes, SetBecomes
<1>1. CASE Call(c)
      <2>1. /\ CallerBecomes(c, "lock", NoSet, caller[c].gen)
            /\ UNCHANGED <<set, generation, refreshing, opening, disk, worker, sets, timers>>
            BY <1>1 DEF Call, shared, TypeOK, CallerRec
      <2>2. Ownership'
            BY <1>1, <2>1 DEF Call
      <2>3. Generations'
            BY <1>1, <2>1 DEF Call
      <2>. QED BY <2>2, <2>3
<1>2. CASE ServeCached(c)
      <2>0. /\ caller[c].pc = "lock" /\ set # NoSet
            /\ caller' = [caller EXCEPT ![c] = [@ EXCEPT !.pc = "have", !.dirs = 0, !.set = set]]
            /\ UNCHANGED <<set, generation, opening, disk, sets, timers>>
            BY <1>2, Zenon DEF ServeCached
      <2>1. /\ caller[c].pc = "lock" /\ set # NoSet
            /\ CallerBecomes(c, "have", set, caller[c].gen)
            /\ UNCHANGED <<set, generation, opening, disk, sets, timers>>
            BY <2>0 DEF TypeOK, CallerRec
      <2>2. CASE UNCHANGED <<refreshing, worker>>
            <3>1. Ownership'
                  BY <2>1, <2>2
            <3>2. Generations'
                  BY <2>1, <2>2
            <3>. QED BY <3>1, <3>2
      <2>3. CASE ~UNCHANGED <<refreshing, worker>>
            <3>1. PICK w \in Worker : /\ ~refreshing /\ refreshing'
                                      /\ worker[w].pc = "idle"
                                      /\ worker' = [worker EXCEPT ![w] = [@ EXCEPT !.pc = "scan",
                                                       !.dirs = caller[c].dirs, !.gen = generation]]
                  BY <1>2, <2>3 DEF ServeCached
            <3>2. WorkerBecomes(w, "scan", NoSet, generation)
                  BY <3>1 DEF TypeOK, WorkerRec
            <3>3. Ownership'
                  BY <2>1, <3>1, <3>2
            <3>4. Generations'
                  BY <2>1, <3>1, <3>2
            <3>. QED BY <3>3, <3>4
      <2>. QED BY <2>2, <2>3
<1>3. CASE WaitForOpening(c)
      <2>1. /\ CallerBecomes(c, "waiting", NoSet, caller[c].gen)
            /\ UNCHANGED <<set, generation, refreshing, opening, disk, worker, sets, timers>>
            BY <1>3 DEF WaitForOpening, shared, TypeOK, CallerRec
      <2>2. Ownership'
            BY <1>3, <2>1 DEF WaitForOpening
      <2>3. Generations'
            BY <1>3, <2>1 DEF WaitForOpening
      <2>. QED BY <2>2, <2>3
<1>4. CASE StartOpening(c)
      <2>1. /\ CallerBecomes(c, "scan", NoSet, generation)
            /\ set = NoSet /\ opening = NoCaller /\ opening' = c
            /\ UNCHANGED <<set, generation, refreshing, disk, worker, sets, timers>>
            BY <1>4 DEF StartOpening, NoOpening, TypeOK, CallerRec
      <2>2. Ownership'
            BY <1>4, <2>1, NilAssumption
      <2>3. Generations'
            BY <1>4, <2>1, NilAssumption
      <2>. QED BY <2>2, <2>3
<1>5. CASE CallerScans(c)
      <2>1. PICK s \in SetId : /\ Unused(s)
                               /\ CallerBecomes(c, "read", s, caller[c].gen)
                               /\ SetBecomes(s, "opening", caller[c].gen, 0)
            BY <1>5 DEF CallerScans, ScanCandidates, TypeOK, CallerRec, SetRec
      <2>2. /\ caller[c].pc = "scan"
            /\ UNCHANGED <<set, generation, refreshing, opening, disk, worker, timers>>
            BY <1>5 DEF CallerScans, shared
      <2>3. Ownership'
            <3>1. HoldsFromTheScan'
                  BY <2>1, <2>2
            <3>0. /\ \A d \in Caller : caller[d].set # s
                  /\ \A v \in Worker : worker[v].set # s
                  /\ s # set /\ s \notin timers
                  BY <2>1, <2>2 DEF Unused, WorkerPC
            <3>2. CallersFetchAlone'
                  BY <2>1, <2>2, <3>0
            <3>3. WorkersFetchAlone'
                  BY <2>1, <2>2, <3>0
            <3>4. NoHandleLeaks'
                  BY <2>1, <2>2 DEF Unused
            <3>5. (TimersHoldOpenSets /\ InstalledStaysOpen /\ NoReadOfClosedFiles)'
                  BY <2>1, <2>2 DEF Unused
            <3>. QED BY <3>1, <3>2, <3>3, <3>4, <3>5 DEF Ownership
      <2>4. Generations'
            BY <2>1, <2>2 DEF Unused
      <2>. QED BY <2>3, <2>4
<1>6. CASE CallerOpens(c)
      <2>1. /\ caller[c].pc = "read" /\ caller[c].set \in SetId
            /\ CallerBecomes(c, "install", caller[c].set, caller[c].gen)
            /\ SetBecomes(caller[c].set, "open", sets[caller[c].set].gen, disk)
            /\ UNCHANGED <<set, generation, refreshing, opening, disk, worker, timers>>
            BY <1>6 DEF CallerOpens, OpenFiles, shared, TypeOK, CallerRec, SetRec
      <2>2. Ownership'
            BY <1>6, <2>1
      <2>3. Generations'
            BY <1>6, <2>1
      <2>. QED BY <2>2, <2>3
<1>7. CASE EndOpening(c)
      <2>1. /\ caller[c].pc = "install" /\ caller[c].set \in SetId
            /\ CallerBecomes(c, "close", caller[c].set, 0)
            /\ opening' = NoCaller
            /\ UNCHANGED <<generation, refreshing, disk, worker, sets>>
            BY <1>7 DEF EndOpening, Retire, TypeOK, CallerRec
      <2>2. CASE NotOvertaken(caller[c].gen)
            <3>1. /\ caller[c].gen = generation /\ set = NoSet
                  /\ set' = caller[c].set /\ timers' = timers
                  BY <1>7, <2>1, <2>2 DEF EndOpening, NotOvertaken
            <3>2. Ownership'
                  BY <2>1, <3>1
            <3>3. Generations'
                  BY <2>1, <3>1
            <3>. QED BY <3>2, <3>3
      <2>3. CASE ~NotOvertaken(caller[c].gen)
            <3>1. set' = set /\ timers' = timers \cup {caller[c].set}
                  BY <1>7, <2>1, <2>3 DEF EndOpening, Retire
            <3>2. Ownership'
                  BY <2>1, <3>1
            <3>3. Generations'
                  BY <2>1, <3>1
            <3>. QED BY <3>2, <3>3
      <2>. QED BY <2>2, <2>3
<1>8. CASE CloseChannel(c)
      <2>1. /\ caller[c].pc = "close" /\ caller'[c].pc = "have"
            /\ \A d \in Caller :
                  /\ caller'[d].set = caller[d].set /\ caller'[d].gen = caller[d].gen
                  /\ d # c => \/ caller'[d].pc = caller[d].pc
                              \/ caller[d].pc = "waiting" /\ caller'[d].pc = "lock"
            /\ UNCHANGED <<set, generation, refreshing, opening, disk, worker, sets, timers>>
            BY <1>8, Woken
      <2>2. Ownership'
            <3>1. HoldsFromTheScan'
                  BY <2>1
            <3>2. CallersFetchAlone'
                  BY <2>1
            <3>3. WorkersFetchAlone'
                  BY <2>1
            <3>4. NoHandleLeaks'
                  BY <2>1
            <3>5. (TimersHoldOpenSets /\ InstalledStaysOpen /\ NoReadOfClosedFiles)'
                  BY <2>1
            <3>. QED BY <3>1, <3>2, <3>3, <3>4, <3>5 DEF Ownership
      <2>3. Generations'
            <3>1. OneOpener'
                  BY <2>1
            <3>2. RefreshIsTheOnlyOne'
                  BY <2>1
            <3>3. (GenerationsPast /\ RefreshIsNewer /\ ServedSinceReload)'
                  BY <2>1
            <3>. QED BY <3>1, <3>2, <3>3 DEF Generations
      <2>. QED BY <2>2, <2>3
<1>9. CASE StartRead(c)
      <2>1. /\ caller[c].pc = "have" /\ sets[caller[c].set].state = "open"
            /\ CallerBecomes(c, "reading", caller[c].set, caller[c].gen)
            /\ UNCHANGED <<set, generation, refreshing, opening, disk, worker, sets, timers>>
            BY <1>9 DEF StartRead, MayRead, shared, TypeOK, CallerRec
      <2>2. Ownership'
            BY <1>9, <2>1
      <2>3. Generations'
            BY <1>9, <2>1
      <2>. QED BY <2>2, <2>3
<1>10. CASE EndRead(c)
      <2>1. /\ caller[c].pc = "reading"
            /\ CallerBecomes(c, "have", caller[c].set, caller[c].gen)
            /\ UNCHANGED <<set, generation, refreshing, opening, disk, worker, sets, timers>>
            BY <1>10 DEF EndRead, shared, TypeOK, CallerRec
      <2>2. Ownership'
            BY <1>10, <2>1
      <2>3. Generations'
            BY <1>10, <2>1
      <2>. QED BY <2>2, <2>3
<1>11. CASE Done(c)
      <2>1. /\ caller[c].pc = "have"
            /\ CallerBecomes(c, "idle", NoSet, 0)
            /\ UNCHANGED <<set, generation, refreshing, opening, disk, worker, sets, timers>>
            BY <1>11 DEF Done, IdleCaller, shared, TypeOK, CallerRec
      <2>2. Ownership'
            BY <1>11, <2>1
      <2>3. Generations'
            BY <1>11, <2>1
      <2>. QED BY <2>2, <2>3
<1>. QED BY <1>1, <1>2, <1>3, <1>4, <1>5, <1>6, <1>7, <1>8, <1>9, <1>10, <1>11 DEF CallerStep

(* The steps of a configuration hook and of a refresh.                     *)
LEMMA WorkerKeeps ==
    ASSUME IInv, NEW w \in Worker, WorkerStep(w) \/ Configure(w)
    PROVE  Ownership' /\ Generations'
<1> USE Fields DEF IInv, Ownership, Generations, HoldsFromTheScan, CallersFetchAlone,
           WorkersFetchAlone, TimersHoldOpenSets, InstalledStaysOpen, NoHandleLeaks,
           NoReadOfClosedFiles, GenerationsPast, OneOpener, RefreshIsTheOnlyOne,
           RefreshIsNewer, ServedSinceReload, Fetched, Fetching, Busy, OpenPC,
           CallerBecomes, WorkerBecomes, SetBecomes
<1>1. CASE Configure(w)
      <2>1. /\ worker[w].pc = "idle"
            /\ WorkerBecomes(w, "reload", NoSet, worker[w].gen)
            /\ UNCHANGED <<set, generation, refreshing, opening, disk, caller, sets, timers>>
            BY <1>1 DEF Configure, shared, TypeOK, WorkerRec
      <2>2. Ownership'
            BY <1>1, <2>1
      <2>3. Generations'
            BY <1>1, <2>1
      <2>. QED BY <2>2, <2>3
<1>2. CASE Reload(w)
      <2>1. /\ worker[w].pc = "reload"
            /\ UNCHANGED <<set, opening, disk, caller, sets, timers>>
            BY <1>2 DEF Reload
      <2>2. CASE set = NoSet
            <3>1. WorkerBecomes(w, "idle", NoSet, 0) /\ UNCHANGED <<generation, refreshing>>
                  BY <1>2, <2>2 DEF Reload, IdleWorker, TypeOK, WorkerRec
            <3>2. Ownership'
                  BY <2>1, <3>1
            <3>3. Generations'
                  BY <2>1, <3>1
            <3>. QED BY <3>2, <3>3
      <2>3. CASE set # NoSet
            <3>0. /\ generation' = generation + 1 /\ refreshing'
                  /\ worker' = [worker EXCEPT ![w] = [@ EXCEPT !.pc = "dirs", !.gen = generation + 1]]
                  BY <1>2, <2>3, Zenon DEF Reload, NextGeneration
            <3>1. /\ WorkerBecomes(w, "dirs", NoSet, generation + 1)
                  /\ generation' = generation + 1 /\ refreshing'
                  BY <2>1, <3>0 DEF TypeOK, WorkerRec
            <3>2. Ownership'
                  BY <2>1, <3>1
            <3>3. Generations'
                  BY <2>1, <2>3, <3>1
            <3>. QED BY <3>2, <3>3
      <2>. QED BY <2>2, <2>3
<1>3. CASE ReadDirs(w)
      <2>1. /\ worker[w].pc = "dirs"
            /\ WorkerBecomes(w, "scan", NoSet, worker[w].gen)
            /\ UNCHANGED <<set, generation, refreshing, opening, disk, caller, sets, timers>>
            BY <1>3 DEF ReadDirs, shared, TypeOK, WorkerRec
      <2>2. Ownership'
            BY <1>3, <2>1
      <2>3. Generations'
            BY <1>3, <2>1
      <2>. QED BY <2>2, <2>3
<1>4. CASE WorkerScans(w)
      <2>1. PICK s \in SetId : /\ Unused(s)
                               /\ WorkerBecomes(w, "read", s, worker[w].gen)
                               /\ SetBecomes(s, "opening", worker[w].gen, 0)
            BY <1>4 DEF WorkerScans, ScanCandidates, TypeOK, WorkerRec, SetRec
      <2>2. /\ worker[w].pc = "scan"
            /\ UNCHANGED <<set, generation, refreshing, opening, disk, caller, timers>>
            BY <1>4 DEF WorkerScans, shared
      <2>3. Ownership'
            <3>1. HoldsFromTheScan'
                  BY <2>1, <2>2
            <3>0. /\ \A d \in Caller : caller[d].set # s
                  /\ \A v \in Worker : worker[v].set # s
                  /\ s # set /\ s \notin timers
                  BY <2>1, <2>2 DEF Unused, WorkerPC
            <3>2. CallersFetchAlone'
                  BY <2>1, <2>2, <3>0
            <3>3. WorkersFetchAlone'
                  BY <2>1, <2>2, <3>0
            <3>4. NoHandleLeaks'
                  BY <2>1, <2>2 DEF Unused
            <3>5. (TimersHoldOpenSets /\ InstalledStaysOpen /\ NoReadOfClosedFiles)'
                  BY <2>1, <2>2 DEF Unused
            <3>. QED BY <3>1, <3>2, <3>3, <3>4, <3>5 DEF Ownership
      <2>4. Generations'
            BY <2>1, <2>2 DEF Unused
      <2>. QED BY <2>3, <2>4
<1>5. CASE WorkerOpens(w)
      <2>1. /\ worker[w].pc = "read" /\ worker[w].set \in SetId
            /\ WorkerBecomes(w, "install", worker[w].set, worker[w].gen)
            /\ SetBecomes(worker[w].set, "open", sets[worker[w].set].gen, disk)
            /\ UNCHANGED <<set, generation, refreshing, opening, disk, caller, timers>>
            BY <1>5 DEF WorkerOpens, OpenFiles, shared, TypeOK, WorkerRec, SetRec
      <2>2. Ownership'
            BY <1>5, <2>1
      <2>3. Generations'
            BY <1>5, <2>1
      <2>. QED BY <2>2, <2>3
<1>6. CASE EndRefresh(w)
      <2>1. /\ worker[w].pc = "install" /\ worker[w].set \in SetId
            /\ WorkerBecomes(w, "idle", NoSet, 0)
            /\ UNCHANGED <<generation, opening, disk, caller>>
            BY <1>6 DEF EndRefresh, IdleWorker, TypeOK, WorkerRec
      <2>2. CASE ~NotOvertaken(worker[w].gen)
            <3>1. /\ worker[w].gen # generation
                  /\ SetBecomes(worker[w].set, "closed", 0, 0)
                  /\ UNCHANGED <<set, refreshing, timers>>
                  BY <1>6, <2>1, <2>2 DEF EndRefresh, NotOvertaken, CloseNow, Blank, TypeOK
            <3>2. Ownership'
                  BY <2>1, <3>1
            <3>3. Generations'
                  BY <2>1, <3>1
            <3>. QED BY <3>2, <3>3
      <2>3. CASE NotOvertaken(worker[w].gen)
            <3>1. /\ worker[w].gen = generation /\ set # NoSet /\ refreshing
                  /\ set' = worker[w].set /\ ~refreshing'
                  /\ timers' = timers \cup {set} /\ sets' = sets
                  BY <1>6, <2>1, <2>3 DEF EndRefresh, NotOvertaken, Retire
            <3>2. Ownership'
                  BY <2>1, <3>1
            <3>3. Generations'
                  BY <2>1, <3>1
            <3>. QED BY <3>2, <3>3
      <2>. QED BY <2>2, <2>3
<1>. QED BY <1>1, <1>2, <1>3, <1>4, <1>5, <1>6 DEF WorkerStep

(* What happens without either: timers, a forget, time and files.          *)
LEMMA OthersKeep ==
    ASSUME IInv, \/ \E s \in SetId : GraceEnds(s) \/ Close(s)
                 \/ Forget \/ Expire \/ ChangeFiles \/ UNCHANGED vars
    PROVE  Ownership' /\ Generations'
<1> USE Fields DEF IInv, Ownership, Generations, HoldsFromTheScan, CallersFetchAlone,
           WorkersFetchAlone, TimersHoldOpenSets, InstalledStaysOpen, NoHandleLeaks,
           NoReadOfClosedFiles, GenerationsPast, OneOpener, RefreshIsTheOnlyOne,
           RefreshIsNewer, ServedSinceReload, Fetched, Fetching, Busy, OpenPC,
           CallerBecomes, WorkerBecomes, SetBecomes
<1>1. ASSUME NEW s \in SetId, GraceEnds(s) PROVE Ownership' /\ Generations'
      <2>1. /\ s \in timers /\ timers' = timers \ {s}
            /\ SetBecomes(s, "closing", 0, 0)
            /\ UNCHANGED <<set, generation, refreshing, opening, disk, caller, worker>>
            BY <1>1 DEF GraceEnds, Blank, shared, TypeOK
      <2>2. Ownership'
            BY <2>1
      <2>3. Generations'
            BY <2>1
      <2>. QED BY <2>2, <2>3
<1>2. ASSUME NEW s \in SetId, Close(s) PROVE Ownership' /\ Generations'
      <2>1. /\ sets[s].state = "closing"
            /\ \A c \in Caller : ~(caller[c].set = s /\ caller[c].pc = "reading")
            /\ SetBecomes(s, "closed", 0, 0)
            /\ UNCHANGED <<set, generation, refreshing, opening, disk, caller, worker, timers>>
            BY <1>2 DEF Close, Unread, Readers, Blank, shared, TypeOK
      <2>2. Ownership'
            BY <2>1
      <2>3. Generations'
            BY <2>1
      <2>. QED BY <2>2, <2>3
<1>3. CASE Forget
      <2>1. /\ set' = NoSet /\ ~refreshing' /\ generation' = generation + 1
            /\ timers' = timers \cup ({set} \ {NoSet})
            /\ UNCHANGED <<opening, disk, caller, worker, sets>>
            BY <1>3 DEF Forget, Uninstall, Retire, NextGeneration
      <2>2. Ownership'
            BY <2>1
      <2>3. Generations'
            BY <2>1
      <2>. QED BY <2>2, <2>3
<1>4. CASE Expire \/ ChangeFiles \/ UNCHANGED vars
      <2>1. /\ disk' \in {disk, disk + 1}
            /\ UNCHANGED <<set, generation, refreshing, opening, caller, worker, sets, timers>>
            BY <1>4 DEF Expire, ChangeFiles, shared, vars
      <2>2. Ownership'
            BY <2>1
      <2>3. Generations'
            BY <2>1
      <2>. QED BY <2>2, <2>3
<1>. QED BY <1>1, <1>2, <1>3, <1>4

-----------------------------------------------------------------------------
(* The invariant holds at first, no step breaks it, so it always holds.    *)
LEMMA Invariance == Spec => []IInv
<1>1. Init => IInv
      <2> SUFFICES ASSUME Init PROVE IInv
          OBVIOUS
      <2>1. TypeOK
            <3>1. IdleCaller \in CallerRec /\ IdleWorker \in WorkerRec /\ Blank("none") \in SetRec
                  BY DEF CallerRec, WorkerRec, SetRec, CallerPC, WorkerPC, IdleCaller, IdleWorker, Blank
            <3>2. fresh \in BOOLEAN /\ refreshing \in BOOLEAN
                  BY DEF Init
            <3>. QED BY <3>1, <3>2, BoundsAssumption DEF Init, TypeOK
      <2>2. /\ set = NoSet /\ generation = 0 /\ refreshing = FALSE /\ timers = {} /\ disk = 0
            /\ \A c \in Caller : caller[c].pc = "idle" /\ caller[c].set = NoSet /\ caller[c].gen = 0
            /\ \A w \in Worker : worker[w].pc = "idle" /\ worker[w].set = NoSet /\ worker[w].gen = 0
            /\ \A s \in SetId : sets[s].state = "none" /\ sets[s].data = 0
            BY DEF Init, IdleCaller, IdleWorker, Blank
      <2>3. Ownership
            BY <2>2 DEF Ownership, HoldsFromTheScan, CallersFetchAlone, WorkersFetchAlone, Fetching,
                   TimersHoldOpenSets, InstalledStaysOpen, NoHandleLeaks, NoReadOfClosedFiles
      <2>4. Generations
            BY <2>2 DEF Generations, GenerationsPast, OneOpener, RefreshIsTheOnlyOne, RefreshIsNewer,
                   ServedSinceReload, OpenPC, Busy
      <2>. QED BY <2>1, <2>3, <2>4 DEF IInv
<1>2. IInv /\ [Next]_vars => IInv'
      <2> SUFFICES ASSUME IInv, [Next]_vars PROVE IInv'
          OBVIOUS
      <2>1. TypeOK'
            BY TypeOKInductive DEF IInv
      <2>2. Ownership' /\ Generations'
            BY CallerKeeps, WorkerKeeps, OthersKeep DEF Next
      <2>. QED BY <2>1, <2>2 DEF IInv
<1>. QED BY <1>1, <1>2, PTL DEF Spec

(* One goroutine is refreshing when the flag is set, and none otherwise.   *)
LEMMA FlagIsOwned == ASSUME RefreshIsTheOnlyOne PROVE RefreshFlagIsOwned
<1>1. CASE refreshing
      <2>1. PICK w \in Worker : worker[w].pc \in Busy /\ worker[w].gen = generation
            BY <1>1 DEF RefreshIsTheOnlyOne
      <2>2. Refreshing = {w}
            BY <2>1 DEF RefreshIsTheOnlyOne, Refreshing, Busy
      <2>3. Cardinality({w}) = 1
            BY FS_Singleton
      <2>. QED BY <1>1, <2>2, <2>3 DEF RefreshFlagIsOwned
<1>2. CASE ~refreshing
      <2>1. Refreshing = {}
            BY <1>2 DEF RefreshIsTheOnlyOne, Refreshing, Busy
      <2>. QED BY <1>2, <2>1, FS_EmptySet DEF RefreshFlagIsOwned
<1>. QED BY <1>1, <1>2

(* Whatever callers, configuration changes and forgets do in whatever      *)
(* order, every open file has one owner who will close it, nobody reads or *)
(* serves a closed one, and one refresh at most can still install.         *)
THEOREM OwnedHandles == Spec => []HandlesAreOwned
<1>1. IInv => HandlesAreOwned
      BY FlagIsOwned DEF IInv, Ownership, Generations, HandlesAreOwned
<1>. QED BY <1>1, Invariance, PTL

(* No open or refresh that a reload overtook leaves its set as the one     *)
(* that is served.                                                         *)
THEOREM ReloadWins == Spec => []ServedSinceReload
<1>1. IInv => ServedSinceReload
      BY DEF IInv, Generations
<1>. QED BY <1>1, Invariance, PTL

(* A step that installs a set installs newer files than it displaces, and  *)
(* only the timer of its grace closes a set that a caller holds.           *)
LEMMA StepNeverGoesBack ==
    ASSUME IInv, [Next]_vars
    PROVE  /\ set # NoSet /\ set' # NoSet => sets'[set'].data >= sets[set].data
           /\ HeldSetsGetTheirGrace
<1> DEFINE Newer == set # NoSet /\ set' # NoSet => sets'[set'].data >= sets[set].data
<1> SUFFICES Newer /\ HeldSetsGetTheirGrace
    OBVIOUS
<1>0. TypeOK
      BY DEF IInv
<1>u. ASSUME UNCHANGED <<set, sets>> PROVE Newer /\ HeldSetsGetTheirGrace
      BY <1>u, <1>0, Fields DEF HeldSetsGetTheirGrace
<1>1. ASSUME NEW c \in Caller, CallerStep(c) \/ Call(c) \/ StartRead(c) \/ Done(c)
      PROVE  Newer /\ HeldSetsGetTheirGrace
      <2>1. CASE CallerScans(c)
            <3>1. PICK s \in SetId : Unused(s) /\ \A r \in SetId : r # s => sets'[r] = sets[r]
                  BY <2>1, <1>0 DEF CallerScans, ScanCandidates, TypeOK
            <3>2. set' = set
                  BY <2>1 DEF CallerScans, shared
            <3>. QED BY <3>1, <3>2, <1>0, Fields DEF IInv, Ownership, InstalledStaysOpen, Unused, HeldSetsGetTheirGrace
      <2>2. CASE CallerOpens(c)
            <3>1. /\ caller[c].pc = "read" /\ set' = set
                  /\ \A r \in SetId : r # caller[c].set => sets'[r] = sets[r]
                  BY <2>2, <1>0 DEF CallerOpens, OpenFiles, shared, TypeOK
            <3>2. caller[c].set # set /\ \A d \in Caller : caller[d].set = caller[c].set => d = c
                  BY <3>1 DEF IInv, Ownership, CallersFetchAlone, Fetching, Fetched
            <3>. QED BY <3>1, <3>2, <1>0, Fields DEF HeldSetsGetTheirGrace
      <2>3. CASE EndOpening(c)
            <3>1. sets' = sets
                  BY <2>3 DEF EndOpening, Retire
            <3>2. set # NoSet => set' = set
                  BY <2>3 DEF EndOpening, NotOvertaken, IInv, Generations, OneOpener, OpenPC
            <3>. QED BY <3>1, <3>2, <1>0, Fields DEF HeldSetsGetTheirGrace
      <2>4. CASE ~CallerScans(c) /\ ~CallerOpens(c) /\ ~EndOpening(c)
            <3>1. UNCHANGED <<set, sets>>
                  <4>1. CASE ServeCached(c)
                        BY <4>1, Zenon DEF ServeCached
                  <4>2. CASE ~ServeCached(c)
                        BY <1>1, <2>4, <4>2 DEF CallerStep, WaitForOpening, StartOpening, CloseChannel,
                              EndRead, Call, StartRead, Done, shared
                  <4>. QED BY <4>1, <4>2
            <3>. QED BY <3>1, <1>u
      <2>. QED BY <2>1, <2>2, <2>3, <2>4
<1>2. ASSUME NEW w \in Worker, WorkerStep(w) \/ Configure(w)
      PROVE  Newer /\ HeldSetsGetTheirGrace
      <2>1. CASE WorkerScans(w)
            <3>1. PICK s \in SetId : Unused(s) /\ \A r \in SetId : r # s => sets'[r] = sets[r]
                  BY <2>1, <1>0 DEF WorkerScans, ScanCandidates, TypeOK
            <3>2. set' = set
                  BY <2>1 DEF WorkerScans, shared
            <3>. QED BY <3>1, <3>2, <1>0, Fields DEF IInv, Ownership, InstalledStaysOpen, Unused, HeldSetsGetTheirGrace
      <2>2. CASE WorkerOpens(w)
            <3>1. /\ worker[w].pc = "read" /\ set' = set
                  /\ \A r \in SetId : r # worker[w].set => sets'[r] = sets[r]
                  BY <2>2, <1>0 DEF WorkerOpens, OpenFiles, shared, TypeOK
            <3>2. worker[w].set # set /\ \A d \in Caller : caller[d].set # worker[w].set
                  BY <3>1 DEF IInv, Ownership, WorkersFetchAlone, Fetching, Fetched
            <3>. QED BY <3>1, <3>2, <1>0, Fields DEF HeldSetsGetTheirGrace
      <2>3. CASE EndRefresh(w)
            <3>0. /\ worker[w].pc = "install" /\ worker[w].set # set
                  /\ \A d \in Caller : caller[d].set # worker[w].set
                  BY <2>3 DEF EndRefresh, IInv, Ownership, WorkersFetchAlone, Fetching, Fetched
            <3>1. CASE worker[w].gen = generation
                  <4>1. set' = worker[w].set /\ sets' = sets
                        BY <2>3, <3>1 DEF EndRefresh, NotOvertaken, Retire
                  <4>2. sets[set].data <= sets[worker[w].set].data
                        BY <3>0, <3>1 DEF IInv, Generations, RefreshIsNewer
                  <4>. QED BY <4>1, <4>2, <1>0, Fields DEF HeldSetsGetTheirGrace
            <3>2. CASE worker[w].gen # generation
                  <4>1. set' = set /\ \A r \in SetId : r # worker[w].set => sets'[r] = sets[r]
                        BY <2>3, <3>2, <1>0 DEF EndRefresh, NotOvertaken, CloseNow, TypeOK
                  <4>. QED BY <4>1, <3>0, <1>0, Fields DEF HeldSetsGetTheirGrace
            <3>. QED BY <3>1, <3>2
      <2>4. CASE ~WorkerScans(w) /\ ~WorkerOpens(w) /\ ~EndRefresh(w)
            <3>1. UNCHANGED <<set, sets>>
                  BY <1>2, <2>4 DEF WorkerStep, Reload, ReadDirs, Configure, shared
            <3>. QED BY <3>1, <1>u
      <2>. QED BY <2>1, <2>2, <2>3, <2>4
<1>3. ASSUME NEW s \in SetId, GraceEnds(s) \/ Close(s)
      PROVE  Newer /\ HeldSetsGetTheirGrace
      <2>1. /\ set' = set /\ (s \in timers \/ sets[s].state = "closing")
            /\ \A r \in SetId : r # s => sets'[r] = sets[r]
            BY <1>3, <1>0 DEF GraceEnds, Close, shared, TypeOK
      <2>. QED BY <2>1, <1>0, Fields DEF IInv, Ownership, InstalledStaysOpen, HeldSetsGetTheirGrace
<1>4. CASE Forget
      <2>1. set' = NoSet /\ sets' = sets
            BY <1>4 DEF Forget, Uninstall, Retire
      <2>. QED BY <2>1 DEF HeldSetsGetTheirGrace
<1>5. CASE Expire \/ ChangeFiles \/ UNCHANGED vars
      BY <1>5, <1>u DEF Expire, ChangeFiles, shared, vars
<1>. QED BY <1>1, <1>2, <1>3, <1>4, <1>5 DEF Next

(* The files served never go back in time, nor away under a caller.        *)
THEOREM NoGoingBack == Spec => FilesNeverGoBack
<1>1. /\ IInv /\ [Next]_vars
      => [/\ set # NoSet /\ set' # NoSet => sets'[set'].data >= sets[set].data
          /\ HeldSetsGetTheirGrace]_vars
      BY StepNeverGoesBack
<1>. QED BY <1>1, Invariance, PTL DEF Spec, FilesNeverGoBack

-----------------------------------------------------------------------------
\* An indicator on its surfaces.
\* Only an answer that read, and was about the indicator it was told for,
\* is shown.
ReadIsReady(s) == s.status = "ready" => Outcome(s.by, s.reply) = "ready"

\* Unless its effect is still to run, a surface listens to its own request
\* or to none, and shows another's answer, or none yet, only while it does.
ListensToItsOwn(s) ==
    /\ ~s.fresh => s.waits \subseteq {s.of}
    /\ s.by # s.of \/ s.status = "loading" => s.fresh \/ s.waits = {s.of}

AsSurface(s) ==
    s = [of |-> s.of, by |-> s.by, status |-> s.status, reply |-> s.reply, fresh |-> s.fresh, waits |-> s.waits]

SurfaceInv(s) == AsSurface(s) /\ ReadIsReady(s) /\ ListensToItsOwn(s)
CardsOwn(s) == s.waits \subseteq {s.of} /\ s.by = s.of

CyberViewInv ==
    /\ DOMAIN indicator = Surfaces
    /\ \A v \in Surfaces : SurfaceInv(indicator[v]) /\ indicator[v].waits \subseteq asking
    /\ CardsOwn(indicator["card"])

(* What load settles with, and what it finds in the cache, is judged for   *)
(* the indicator it is told for.                                           *)
LEMMA AnsweredIsJudged ==
    ASSUME NEW i, NEW reply
    PROVE  /\ Loaded(i, reply).status = "ready" => Outcome(i, Loaded(i, reply).reply) = "ready"
           /\ Loaded(i, reply).status \in {"ready", "rejected", "failed"}
           /\ FromCache(i).status = "ready" => Outcome(i, FromCache(i).reply) = "ready"
           /\ remembered[i] # 0 => FromCache(i).status \in {"ready", "rejected", "failed"}
  <1>1. ASSUME NEW n
        PROVE  /\ Loaded(i, n).status = "ready" => Outcome(i, Loaded(i, n).reply) = "ready"
               /\ Loaded(i, n).status = Outcome(i, n)
    BY DEF Loaded
  <1>2. \A n : Outcome(i, n) \in {"ready", "rejected", "failed"}
    BY DEF Outcome
  <1>3. FromCache(i) = IF remembered[i] = 0 THEN [status |-> "loading", reply |-> 0] ELSE Loaded(i, remembered[i])
    BY DEF FromCache
  <1>4. CASE remembered[i] = 0
    <2>1. FromCache(i).status = "loading"
      BY <1>3, <1>4
    <2> QED BY <1>1, <1>2, <1>4, <2>1
  <1>5. CASE remembered[i] # 0
    <2>1. FromCache(i) = Loaded(i, remembered[i])
      BY <1>3, <1>5
    <2> QED BY <1>1, <1>2, <2>1
  <1> QED BY <1>4, <1>5

(* A surface drawn for i, from the cache.                                  *)
LEMMA RenderedIsRead ==
    ASSUME NEW i, NEW waits
    PROVE  LET s == Rendered(i, waits)
           IN  SurfaceInv(s) /\ s.of = i /\ s.by = i /\ s.fresh /\ s.waits = waits
  <1> DEFINE s == Rendered(i, waits)
             status == FromCache(i).status
             reply == FromCache(i).reply
  <1>1. status = "ready" => Outcome(i, reply) = "ready"
    BY AnsweredIsJudged
  <1>2. s = [of |-> i, by |-> i, status |-> status, reply |-> reply, fresh |-> TRUE, waits |-> waits]
    BY DEF Rendered
  <1> HIDE DEF s, status, reply
  <1>3. s.of = i /\ s.by = i /\ s.status = status /\ s.reply = reply /\ s.fresh = TRUE /\ s.waits = waits
    BY <1>2
  <1>4. AsSurface(s)
    BY <1>2, <1>3 DEF AsSurface
  <1>5. SurfaceInv(s)
    BY <1>1, <1>3, <1>4 DEF SurfaceInv, ReadIsReady, ListensToItsOwn
  <1> QED BY <1>3, <1>5 DEF s

LEMMA ToldFields ==
    ASSUME NEW s, AsSurface(s), NEW i, NEW verdict
    PROVE  Told(s, i, verdict) = [of |-> s.of, by |-> i, status |-> verdict.status, reply |-> verdict.reply,
                                  fresh |-> s.fresh, waits |-> {}]
  <1> DEFINE told == Told(s, i, verdict)
  <1>1. told = [f \in DOMAIN s |-> IF f = "by" THEN i ELSE IF f = "status" THEN verdict.status
                                   ELSE IF f = "reply" THEN verdict.reply ELSE IF f = "waits" THEN {} ELSE s[f]]
    BY DEF Told
  <1>2. DOMAIN s = {"of", "by", "status", "reply", "fresh", "waits"}
    BY DEF AsSurface
  <1> HIDE DEF told
  <1> QED BY <1>1, <1>2 DEF told

(* A surface told of i.                                                    *)
LEMMA ToldIsRead ==
    ASSUME NEW s, AsSurface(s), NEW i, NEW verdict, verdict.status \in {"ready", "rejected", "failed"},
           verdict.status = "ready" => Outcome(i, verdict.reply) = "ready", s.fresh \/ s.of = i
    PROVE  LET told == Told(s, i, verdict)
           IN  SurfaceInv(told) /\ told.of = s.of /\ told.by = i /\ told.fresh = s.fresh /\ told.waits = {}
  <1> DEFINE told == Told(s, i, verdict)
  <1>1. told = [of |-> s.of, by |-> i, status |-> verdict.status, reply |-> verdict.reply,
                fresh |-> s.fresh, waits |-> {}]
    BY ToldFields
  <1> HIDE DEF told
  <1>2. /\ told.of = s.of /\ told.by = i /\ told.status = verdict.status /\ told.reply = verdict.reply
        /\ told.fresh = s.fresh /\ told.waits = {}
    BY <1>1
  <1>3. AsSurface(told)
    BY <1>1, <1>2 DEF AsSurface
  <1>4. ReadIsReady(told)
    BY <1>2 DEF ReadIsReady
  <1>5. ListensToItsOwn(told)
    BY <1>2 DEF ListensToItsOwn
  <1> QED BY <1>2, <1>3, <1>4, <1>5 DEF SurfaceInv, told

(* A surface whose effect ran shows its own answer or waits for it.        *)
LEMMA EffectIsOwn ==
    ASSUME NEW s, SurfaceInv(s)
    PROVE  LET after == AfterEffect(s)
           IN  /\ SurfaceInv(after) /\ after.of = s.of /\ ~after.fresh
               /\ after.by = s.by \/ after.by = s.of
               /\ after.waits \subseteq {s.of}
               /\ ~s.fresh => after = s
               /\ s.fresh => after.waits = IF remembered[s.of] = 0 THEN {s.of} ELSE {}
  <1> DEFINE after == AfterEffect(s)
  <1>0. AsSurface(s) /\ ReadIsReady(s) /\ ListensToItsOwn(s)
    BY DEF SurfaceInv
  <1>1. CASE ~s.fresh
    <2>1. after = s
      BY <1>1 DEF AfterEffect
    <2> QED BY <1>0, <1>1, <2>1 DEF ListensToItsOwn
  <1>2. CASE s.fresh /\ remembered[s.of] = 0
    <2>1. after = [s EXCEPT !.fresh = FALSE, !.waits = {s.of}]
      BY <1>2 DEF AfterEffect
    <2>2. after = [of |-> s.of, by |-> s.by, status |-> s.status, reply |-> s.reply, fresh |-> FALSE, waits |-> {s.of}]
      BY <1>0, <2>1 DEF AsSurface
    <2> HIDE DEF after
    <2>3. /\ after.of = s.of /\ after.by = s.by /\ after.status = s.status /\ after.reply = s.reply
          /\ after.fresh = FALSE /\ after.waits = {s.of}
      BY <2>2
    <2>4. AsSurface(after)
      BY <2>2, <2>3 DEF AsSurface
    <2>5. SurfaceInv(after)
      BY <1>0, <2>3, <2>4 DEF SurfaceInv, ReadIsReady, ListensToItsOwn
    <2> QED BY <1>2, <2>3, <2>5 DEF after
  <1>3. CASE s.fresh /\ remembered[s.of] # 0
    <2> DEFINE told == Told(s, s.of, FromCache(s.of))
    <2>1. after = [told EXCEPT !.fresh = FALSE]
      BY <1>3 DEF AfterEffect
    <2>2. SurfaceInv(told) /\ told.of = s.of /\ told.by = s.of /\ told.waits = {}
      BY <1>0, <1>3, AnsweredIsJudged, ToldIsRead
    <2>3. FromCache(s.of).status # "loading"
      BY <1>3, AnsweredIsJudged
    <2>4. told.status = FromCache(s.of).status
      BY <1>0 DEF Told, AsSurface
    <2> HIDE DEF told, after
    <2>5. after = [of |-> s.of, by |-> s.of, status |-> told.status, reply |-> told.reply, fresh |-> FALSE, waits |-> {}]
      BY <2>1, <2>2 DEF SurfaceInv, AsSurface
    <2>6. /\ after.of = s.of /\ after.by = s.of /\ after.status = told.status /\ after.reply = told.reply
          /\ after.fresh = FALSE /\ after.waits = {}
      BY <2>5
    <2>7. AsSurface(after)
      BY <2>5, <2>6 DEF AsSurface
    <2>8. SurfaceInv(after)
      BY <2>2, <2>3, <2>4, <2>6, <2>7 DEF SurfaceInv, ReadIsReady, ListensToItsOwn
    <2> QED BY <1>3, <2>6, <2>8 DEF after
  <1> QED BY <1>1, <1>2, <1>3

(* No surface is ready before it is opened.                                *)
LEMMA CyberViewBegins == CyberViewInit => CyberViewInv
  <1>1. SurfaceInv(NothingOpen) /\ CardsOwn(NothingOpen) /\ NothingOpen.waits = {}
    BY DEF NothingOpen, SurfaceInv, AsSurface, ReadIsReady, ListensToItsOwn, CardsOwn
  <1> SUFFICES ASSUME CyberViewInit PROVE CyberViewInv
    OBVIOUS
  <1>2. DOMAIN indicator = Surfaces /\ \A v \in Surfaces : indicator[v] = NothingOpen
    BY DEF CyberViewInit
  <1> QED BY <1>1, <1>2 DEF CyberViewInv, Surfaces

(* A surface drawn anew, which listens to no more than it did.             *)
LEMMA SurfaceChanges ==
    ASSUME CyberViewInv, NEW i, NEW u \in Surfaces, NEW listens, listens \subseteq asking,
           u = "card" => listens = {}, asking' = asking,
           indicator' = [indicator EXCEPT ![u] = Rendered(i, listens)]
    PROVE  CyberViewInv'
  <1>0. /\ DOMAIN indicator = Surfaces
        /\ \A v \in Surfaces : SurfaceInv(indicator[v]) /\ indicator[v].waits \subseteq asking
        /\ CardsOwn(indicator["card"])
    BY DEF CyberViewInv
  <1>1. \A v \in Surfaces : indicator'[v] = IF v = u THEN Rendered(i, listens) ELSE indicator[v]
    BY <1>0
  <1>2. DOMAIN indicator' = Surfaces
    BY <1>0
  <1>3. LET s == Rendered(i, listens)
        IN  SurfaceInv(s) /\ s.of = i /\ s.by = i /\ s.waits = listens
    BY RenderedIsRead
  <1>4. CardsOwn(indicator'["card"])
    BY <1>0, <1>1, <1>3 DEF CardsOwn, Surfaces
  <1>5. \A v \in Surfaces : SurfaceInv(indicator'[v]) /\ indicator'[v].waits \subseteq asking'
    BY <1>0, <1>1, <1>3
  <1> QED BY <1>2, <1>4, <1>5 DEF CyberViewInv, SurfaceInv, AsSurface, ReadIsReady, ListensToItsOwn, CardsOwn, Outcome

(* A click, a hover, an effect, an answer and a link in the panel keep it. *)
LEMMA CyberViewKeeps == CyberViewInv /\ [CyberViewNext]_cyber_view_vars => CyberViewInv'
  <1> SUFFICES ASSUME CyberViewInv, [CyberViewNext]_cyber_view_vars PROVE CyberViewInv'
    OBVIOUS
  <1>0. /\ DOMAIN indicator = Surfaces
        /\ \A v \in Surfaces : SurfaceInv(indicator[v]) /\ indicator[v].waits \subseteq asking
        /\ CardsOwn(indicator["card"])
    BY DEF CyberViewInv
  <1>2. ASSUME NEW i \in Indicators, Click(i) \/ Follow(i) PROVE CyberViewInv'
    <2> DEFINE listens == indicator["panel"].waits
    <2>1. indicator' = [indicator EXCEPT !["panel"] = Rendered(i, listens)] /\ asking' = asking
      BY <1>2 DEF Click, Follow, Select
    <2>2. "panel" \in Surfaces /\ ("panel" = "card" => listens = {})
      BY DEF Surfaces
    <2>3. listens \subseteq asking
      BY <1>0, <2>2
    <2> QED BY <2>1, <2>2, <2>3, SurfaceChanges
  <1>3. ASSUME NEW i \in Indicators, Hover(i) PROVE CyberViewInv'
    <2>1. indicator' = [indicator EXCEPT !["card"] = Rendered(i, {})] /\ asking' = asking
      BY <1>3 DEF Hover
    <2> DEFINE listens == {}
    <2>2. "card" \in Surfaces /\ ("card" = "card" => listens = {})
      BY DEF Surfaces
    <2>3. listens \subseteq asking
      OBVIOUS
    <2>4. indicator' = [indicator EXCEPT !["card"] = Rendered(i, listens)]
      BY <2>1
    <2> HIDE DEF listens
    <2> QED BY <2>1, <2>2, <2>3, <2>4, SurfaceChanges
  <1>4. ASSUME NEW i \in Indicators, NEW reply \in DOMAIN Replies, SettleLookup(i, reply) PROVE CyberViewInv'
    <2> DEFINE verdict == Loaded(i, reply)
    <2>1. /\ DOMAIN indicator' = Surfaces
          /\ \A v \in Surfaces : indicator'[v] =
                IF i \in indicator[v].waits THEN Told(indicator[v], i, verdict) ELSE indicator[v]
          /\ asking' = asking \ {i}
      BY <1>4 DEF SettleLookup
    <2>2. /\ verdict.status \in {"ready", "rejected", "failed"}
          /\ verdict.status = "ready" => Outcome(i, verdict.reply) = "ready"
      BY AnsweredIsJudged
    <2> HIDE DEF verdict
    <2>3. ASSUME NEW v \in Surfaces
          PROVE  /\ SurfaceInv(indicator'[v]) /\ indicator'[v].waits \subseteq asking'
                 /\ v = "card" => CardsOwn(indicator'[v])
      <3>1. CASE i \in indicator[v].waits
        <4>1. indicator[v].fresh \/ indicator[v].of = i
          BY <1>0, <3>1 DEF SurfaceInv, ListensToItsOwn
        <4>2. LET told == Told(indicator[v], i, verdict)
              IN  SurfaceInv(told) /\ told.of = indicator[v].of /\ told.by = i /\ told.waits = {}
          BY <1>0, <2>2, <4>1, ToldIsRead DEF SurfaceInv
        <4>3. v = "card" => indicator[v].of = i
          BY <1>0, <3>1 DEF CardsOwn
        <4> QED BY <2>1, <3>1, <4>2, <4>3 DEF CardsOwn
      <3>2. CASE i \notin indicator[v].waits
        BY <1>0, <2>1, <3>2
      <3> QED BY <3>1, <3>2
    <2> QED BY <2>1, <2>3 DEF CyberViewInv, SurfaceInv, AsSurface, ReadIsReady, ListensToItsOwn, CardsOwn, Outcome, Surfaces
  <1>5. CASE LookupEffects
    <2>1. /\ DOMAIN indicator' = Surfaces
          /\ \A v \in Surfaces : indicator'[v] = AfterEffect(indicator[v])
          /\ asking' = asking \cup {i \in {indicator[v].of : v \in Undone} : remembered[i] = 0}
      BY <1>5 DEF LookupEffects
    <2>2. ASSUME NEW v \in Surfaces
          PROVE  /\ SurfaceInv(indicator'[v]) /\ indicator'[v].waits \subseteq asking'
                 /\ v = "card" => CardsOwn(indicator'[v])
      <3> DEFINE s == indicator[v]
                 after == AfterEffect(s)
      <3>1. /\ SurfaceInv(after) /\ after.of = s.of
            /\ after.by = s.by \/ after.by = s.of
            /\ after.waits \subseteq {s.of}
            /\ ~s.fresh => after = s
            /\ s.fresh => after.waits = IF remembered[s.of] = 0 THEN {s.of} ELSE {}
        BY <1>0, EffectIsOwn
      <3>2. v \in Undone <=> s.fresh
        BY DEF Undone
      <3>3. indicator'[v] = after
        BY <2>1
      <3>6. s.waits \subseteq asking /\ (v = "card" => s.by = s.of)
        BY <1>0 DEF CardsOwn
      <3>7. s.fresh /\ remembered[s.of] = 0 => s.of \in asking'
        BY <2>1, <3>2
      <3>8. asking \subseteq asking'
        BY <2>1
      <3> HIDE DEF after, s
      <3>4. after.waits \subseteq asking'
        BY <3>1, <3>6, <3>7, <3>8
      <3>5. v = "card" => CardsOwn(after)
        BY <3>1, <3>6 DEF CardsOwn
      <3> QED BY <3>1, <3>3, <3>4, <3>5
    <2> QED BY <2>1, <2>2 DEF CyberViewInv, SurfaceInv, AsSurface, ReadIsReady, ListensToItsOwn, CardsOwn, Outcome, Surfaces
  <1>6. CASE ShowMore \/ UNCHANGED cyber_view_vars
    <2>1. indicator' = indicator /\ asking' = asking
      BY <1>6 DEF ShowMore, cyber_view_vars
    <2> QED BY <1>0, <2>1
            DEF CyberViewInv, SurfaceInv, AsSurface, ReadIsReady, ListensToItsOwn, CardsOwn, Outcome
  <1> QED BY <1>2, <1>3, <1>4, <1>5, <1>6 DEF CyberViewNext

-----------------------------------------------------------------------------
(* What the reader makes of an answer, field by field.                     *)
LEMMA FieldsAreRead ==
    ASSUME NEW wire, Readable(wire)
    PROVE  LET d == AsCyber(wire)
           IN  /\ d.kind = wire.kind /\ d.value = wire.value /\ d.related = wire.related
               /\ d.rows = [n \in DOMAIN wire.rows |-> AsRow(wire.rows[n])]
               /\ d.references = AsReferences(wire.references)
               /\ d.sections = [n \in DOMAIN wire.sections |-> AsSection(wire.sections[n])]
               /\ d.credits = [n \in DOMAIN wire.credits |-> AsCredit(wire.credits[n])]
               /\ d.reports = [n \in DOMAIN wire.reports |-> AsReport(wire.reports[n])]
  <1>1. ASSUME NEW w, NEW r, NEW s, NEW v, NEW f, NEW e, NEW c, NEW p,
               {"rows", "severity", "vector", "references", "sections", "credits", "reports",
                "kind", "value", "related"} \subseteq DOMAIN w
        PROVE  LET d == [w EXCEPT !.rows = r, !.severity = s, !.vector = v, !.references = f, !.sections = e,
                                  !.credits = c, !.reports = p]
               IN  /\ d.kind = w.kind /\ d.value = w.value /\ d.related = w.related
                   /\ d.rows = r /\ d.references = f /\ d.sections = e /\ d.credits = c /\ d.reports = p
    BY <1>1
  <1>2. {"rows", "severity", "vector", "references", "sections", "credits", "reports",
         "kind", "value", "related"} \subseteq DOMAIN wire
    <2>1. {"rows", "vector", "references", "sections", "credits", "reports", "related"} \subseteq DOMAIN Lists
      BY DEF Lists
    <2> QED BY <2>1 DEF Readable, AnswerTexts
  <1> QED BY <1>1, <1>2 DEF AsCyber, Each

(* An item leads to an indicator only when a token could carry it, and to  *)
(* an address only when it is a web address.                               *)
LEMMA ItemsLead ==
    ASSUME NEW item, ItemFields \subseteq DOMAIN item
    PROVE  LET head == ItemHead(AsItem(item))
           IN  head.opens \subseteq WellShaped /\ head.anchor \in WebLinks \cup {""}
  <1> DEFINE linked == MatchesShape([kind |-> item.kind, value |-> item.value])
             kind == IF linked THEN item.kind ELSE ""
             value == IF linked THEN item.value ELSE ""
             url == WebLink(item.url)
             made == AsItem(item)
  <1>1. url \in WebLinks \cup {""}
    BY DEF WebLink
  <1>2. kind # "" /\ value # "" => [kind |-> kind, value |-> value] \in WellShaped
    BY DEF MatchesShape
  <1>3. made = [item EXCEPT !.kind = kind, !.value = value, !.url = url]
    BY DEF AsItem
  <1> HIDE DEF linked, kind, value, url, made
  <1>4. made.kind = kind /\ made.value = value /\ made.url = url
    BY <1>3 DEF ItemFields
  <1>5. ItemHead(made).opens \subseteq WellShaped /\ ItemHead(made).anchor \in WebLinks \cup {""}
    BY <1>1, <1>2, <1>4 DEF ItemHead
  <1> QED BY <1>5 DEF made

(* The heads of the items of an answer.                                    *)
LEMMA HeadsLead ==
    ASSUME NEW wire, Readable(wire), NEW head \in SectionHeads(AsCyber(wire))
    PROVE  head.opens \subseteq WellShaped /\ head.anchor \in WebLinks \cup {""}
  <1> DEFINE d == AsCyber(wire)
  <1>1. d.sections = [n \in DOMAIN wire.sections |-> AsSection(wire.sections[n])]
    BY FieldsAreRead
  <1> HIDE DEF d
  <1>2. PICK section \in ToSet(d.sections) : \E item \in ToSet(section.items) : head = ItemHead(item)
    BY DEF SectionHeads, d
  <1>3. PICK n \in DOMAIN wire.sections : section = AsSection(wire.sections[n])
    BY <1>1, <1>2 DEF ToSet
  <1>4. section.items = [m \in DOMAIN wire.sections[n].items |-> AsItem(wire.sections[n].items[m])]
    BY <1>3 DEF AsSection, Each
  <1>5. PICK m \in DOMAIN wire.sections[n].items : head = ItemHead(AsItem(wire.sections[n].items[m]))
    BY <1>2, <1>4 DEF ToSet
  <1>6. ItemFields \subseteq DOMAIN wire.sections[n].items[m]
    BY DEF Readable, ToSet
  <1> QED BY <1>5, <1>6, ItemsLead

(* The panel leads only where it may.                                      *)
LEMMA PanelLeads ==
    ASSUME NEW s, Readable(Replies[s.reply].body)
    PROVE  LET d == Details(s)
           IN  /\ ItemLinks(d) \subseteq WellShaped
               /\ \A i \in RelatedLinks(d) : i.kind \in IndicatorKinds
               /\ Anchors(d) \subseteq WebLinks
               /\ DtgLinks(s) \subseteq DtgQueries
  <1> DEFINE wire == Replies[s.reply].body
             d == AsCyber(wire)
  <1>1. Details(s) = d
    BY DEF Details
  <1>2. /\ d.related = wire.related
        /\ d.rows = [n \in DOMAIN wire.rows |-> AsRow(wire.rows[n])]
        /\ d.references = AsReferences(wire.references)
        /\ d.credits = [n \in DOMAIN wire.credits |-> AsCredit(wire.credits[n])]
        /\ d.reports = [n \in DOMAIN wire.reports |-> AsReport(wire.reports[n])]
    BY FieldsAreRead
  <1>3. \A head \in SectionHeads(d) : head.opens \subseteq WellShaped /\ head.anchor \in WebLinks \cup {""}
    BY HeadsLead
  <1>4. Readable(wire)
    OBVIOUS
  <1>5. Compiled(s) = AsCompiled(wire)
    BY DEF Compiled
  <1> HIDE DEF d, wire
  <1>6. ItemLinks(d) \subseteq WellShaped
    BY <1>3 DEF ItemLinks
  <1>7. \A i \in RelatedLinks(d) : i.kind \in IndicatorKinds
    <2>1. \A link \in ToSet(wire.related) : link.kind \in IndicatorKinds
      BY <1>4 DEF Readable, ToSet
    <2> QED BY <1>2, <2>1 DEF RelatedLinks
  <1>8. Anchors(d) \subseteq WebLinks
    <2>1. \A r \in ToSet(d.reports) : r.url \in WebLinks \cup {""}
      <3>1. \A report : AsReport(report).url \in WebLinks \cup {""}
        BY DEF AsReport, WebLink
      <3>2. \A r \in ToSet(d.reports) : \E n \in DOMAIN wire.reports : r = AsReport(wire.reports[n])
        BY <1>2 DEF ToSet
      <3> QED BY <3>1, <3>2
    <2>2. \A c \in ToSet(d.credits) : c.url \in WebLinks \cup {""}
      <3> SUFFICES ASSUME NEW n \in DOMAIN wire.credits PROVE AsCredit(wire.credits[n]).url \in WebLinks \cup {""}
        <4>1. \A c \in ToSet(d.credits) : \E n \in DOMAIN wire.credits : c = AsCredit(wire.credits[n])
          BY <1>2 DEF ToSet
        <4> QED BY <4>1
      <3>1. "credits" \in DOMAIN Lists /\ Lists["credits"] = {"text", "url"}
        BY DEF Lists
      <3>2. "url" \in DOMAIN wire.credits[n]
        BY <1>4, <3>1 DEF Readable, ToSet
      <3> QED BY <3>2 DEF AsCredit, WebLink
    <2>3. \A ref \in d.references : ref.url \in WebLinks
      BY <1>2 DEF AsReferences
    <2> QED BY <1>3, <2>1, <2>2, <2>3 DEF Anchors
  <1>9. DtgLinks(s) \subseteq DtgQueries
    <2>1. ASSUME NEW row, "query" \in DOMAIN row PROVE AsRow(row).query \in DtgQueries \cup {""}
      BY <2>1 DEF AsRow, Query
    <2>2. ASSUME NEW n \in DOMAIN wire.rows PROVE AsRow(wire.rows[n]).query \in DtgQueries \cup {""}
      <3>1. "rows" \in DOMAIN Lists /\ Lists["rows"] = {"label", "value", "query"}
        BY DEF Lists
      <3>2. "query" \in DOMAIN wire.rows[n]
        BY <1>4, <3>1 DEF Readable, ToSet
      <3> QED BY <2>1, <3>2
    <2>3. \A row \in Compiled(s) : row.query \in DtgQueries \cup {""}
      BY <1>5, <2>1 DEF AsCompiled, CompiledFields
    <2>4. \A row \in ToSet(d.rows) : row.query \in DtgQueries \cup {""}
      <3>1. \A row \in ToSet(d.rows) : \E n \in DOMAIN wire.rows : row = AsRow(wire.rows[n])
        BY <1>2 DEF ToSet
      <3> QED BY <2>2, <3>1
    <2> QED BY <1>1, <2>3, <2>4 DEF DtgLinks
  <1> QED BY <1>1, <1>6, <1>7, <1>8, <1>9

(* The card claims what the panel does, in each of its three forms.        *)
LEMMA CardClaims ==
    ASSUME NEW s, s.status = "ready", NEW open
    PROVE  ClaimTheSame(IndicatorCard(s), Panel(s, open))
  <1> DEFINE d == Details(s)
             card == IndicatorCard(s)
             all == Panel(s, open)
  <1>1. all.badges = Badges(d) /\ all.reports = d.reports /\ all.watchlist = d.watchlist /\ all.credits = d.credits
    BY DEF Panel
  <1>2. \/ /\ HasGlance(d)
           /\ card = [title |-> d.title, line |-> "", glance |-> <<d.glance>>, badges |-> Badges(d),
                      malicious |-> Cardinality(MaliciousSources(d)), context |-> ContextThreats(d),
                      verdicts |-> Verdicts(d), credits |-> d.credits]
        \/ ~HasGlance(d) /\ HasBadges(d) /\ card = [EmptyCard EXCEPT !.badges = Badges(d), !.verdicts = Verdicts(d)]
        \/ ~HasGlance(d) /\ ~HasBadges(d) /\ card = [EmptyCard EXCEPT !.line = d.headline]
    BY DEF IndicatorCard
  <1> HIDE DEF d, card, all
  <1>3. ~HasGlance(d) => MaliciousSources(d) = {} /\ ContextThreats(d) = {} /\ Verdicts(d) = {} /\ ToSet(d.watchlist) = {}
    <2>1. ToSet(<<>>) = {}
      BY DEF ToSet
    <2>2. ~HasGlance(d) => d.watchlist = <<>> /\ d.reports = <<>>
      BY DEF HasGlance
    <2> QED BY <2>1, <2>2 DEF MaliciousSources, ContextThreats, Verdicts
  <1>4. Cardinality({}) = 0
    BY FS_EmptySet
  <1>5. ~HasBadges(d) => Badges(d) = {}
    BY DEF Badges
  <1>6. /\ card.badges = Badges(d) /\ card.malicious = Cardinality(MaliciousSources(d))
        /\ card.context = ContextThreats(d) /\ card.verdicts = Verdicts(d)
        /\ card.glance # <<>> => card.credits = d.credits
    <2>1. CASE HasGlance(d)
      <3>1. card = [title |-> d.title, line |-> "", glance |-> <<d.glance>>, badges |-> Badges(d),
                    malicious |-> Cardinality(MaliciousSources(d)), context |-> ContextThreats(d),
                    verdicts |-> Verdicts(d), credits |-> d.credits]
        BY <1>2, <2>1, Zenon
      <3> QED BY <3>1
    <2>2. CASE ~HasGlance(d) /\ HasBadges(d)
      BY <1>2, <1>3, <1>4, <2>2 DEF EmptyCard
    <2>3. CASE ~HasGlance(d) /\ ~HasBadges(d)
      BY <1>2, <1>3, <1>4, <1>5, <2>3 DEF EmptyCard
    <2> QED BY <2>1, <2>2, <2>3
  <1>7. /\ \A word \in Verdicts(d) : \E w \in ToSet(d.watchlist) : Plain[w.verdict] = word
        /\ \A w \in ToSet(d.watchlist) : Plain[w.verdict] \in Verdicts(d) \cup {""}
    BY DEF Verdicts
  <1>8. /\ MaliciousSources(d) = {r.source : r \in {x \in ToSet(all.reports) : x.malicious}}
        /\ ContextThreats(d) = {r.threat : r \in {x \in ToSet(all.reports) : ~x.malicious}}
    BY <1>1, Zenon DEF MaliciousSources, ContextThreats
  <1> QED BY <1>1, <1>6, <1>7, <1>8, Zenon DEF card, all, ClaimTheSame

(* Card and panel of an indicator claim the same of one whole answer,      *)
(* which is about their own indicator unless the panel's own request is    *)
(* still unanswered, and the panel leads only where it may: for any        *)
(* indicators and whatever the server says of them, in any order of        *)
(* clicks, links followed, effects and answers (CyberHover.tsx,            *)
(* CyberPanel.tsx, cyber.ts).                                              *)
THEOREM IndicatorsAreOneOnBothSurfaces == CyberViewSpec => []IndicatorIsTheOneAsked
  <1>1. ASSUME CyberViewInv, NEW v \in Surfaces, indicator[v].status = "ready"
        PROVE  LET wire == Replies[indicator[v].reply].body
               IN  Readable(wire) /\ wire.kind = indicator[v].by.kind /\ wire.value = indicator[v].by.value
    BY <1>1 DEF CyberViewInv, SurfaceInv, ReadIsReady, Outcome
  <1>2. CyberViewInv => ShowsItsOwn
    <2> SUFFICES ASSUME CyberViewInv, NEW v \in Surfaces
                 PROVE  LET s == indicator[v]
                        IN  /\ s.status = "ready" => Details(s).kind = s.by.kind /\ Details(s).value = s.by.value
                            /\ s.by # s.of \/ s.status = "loading" => s.fresh \/ (s.waits = {s.of} /\ s.of \in asking)
                            /\ v = "card" => s.by = s.of
      BY DEF ShowsItsOwn
    <2> DEFINE s == indicator[v]
    <2>1. s.status = "ready" => Details(s).kind = s.by.kind /\ Details(s).value = s.by.value
      BY <1>1, FieldsAreRead DEF Details
    <2>2. ListensToItsOwn(s) /\ s.waits \subseteq asking /\ (v = "card" => s.by = s.of)
      BY DEF CyberViewInv, SurfaceInv, CardsOwn
    <2>3. s.by # s.of \/ s.status = "loading" => s.fresh \/ (s.waits = {s.of} /\ s.of \in asking)
      BY <2>2 DEF ListensToItsOwn
    <2> QED BY <2>1, <2>2, <2>3
  <1>3. CyberViewInv => LinksAreVouched
    BY <1>1, PanelLeads DEF LinksAreVouched, Surfaces
  <1>4. SameClaims
    BY CardClaims DEF SameClaims
  <1>5. CyberViewInv => IndicatorIsTheOneAsked
    BY <1>2, <1>3, <1>4 DEF IndicatorIsTheOneAsked
  <1>6. CyberViewSpec => []CyberViewInv
    BY CyberViewBegins, CyberViewKeeps, PTL DEF CyberViewSpec
  <1> QED BY <1>5, <1>6, PTL

-----------------------------------------------------------------------------
\* An airfield on its surfaces.
\* A ready answer read, and was about the airfield asked for.
AnswerIsRead ==
    airfield.status = "ready" => /\ AsAirport(airfield.reply.body)
                                 /\ AnswersTheQuestion(airfield.reply.body, airfield.of)

\* The reader was led to the place the answer gives.
LedToThePlace == wentTo # <<>> => Found /\ \E p \in PositionOf : wentTo = <<p>>

AirfieldInv ==
    /\ airfield = [of |-> airfield.of, status |-> airfield.status, reply |-> airfield.reply]
    /\ airfield.of.key \in {"icao", "iata"}
    /\ airfield.status \in {"loading", "ready", "rejected", "failed"}
    /\ AnswerIsRead /\ LedToThePlace

(* A tab that opened on an airfield has not been answered.                 *)
LEMMA AirfieldBegins == AirfieldInit => AirfieldInv
  <1> SUFFICES ASSUME AirfieldInit PROVE AirfieldInv
    OBVIOUS
  <1>1. PICK link \in AirfieldLinks : \E of \in AirfieldFromParams(link) : airfield = Looking(of)
    BY DEF AirfieldInit
  <1>5. PICK of \in AirfieldFromParams(link) : airfield = Looking(of)
    BY <1>1
  <1>2. of.key \in {"icao", "iata"}
    BY DEF AirfieldFromParams
  <1>3. /\ airfield = [of |-> airfield.of, status |-> airfield.status, reply |-> airfield.reply]
        /\ airfield.of = of /\ airfield.status = "loading"
    BY <1>5 DEF Looking
  <1>4. wentTo = <<>>
    BY DEF AirfieldInit
  <1> QED BY <1>2, <1>3, <1>4 DEF AirfieldInv, AnswerIsRead, LedToThePlace

(* What was sent is read before it is taken for an answer, and a tab asks  *)
(* and leaves once.                                                        *)
LEMMA AirfieldKeeps == AirfieldInv /\ [AirfieldNext]_airfield_vars => AirfieldInv'
  <1> SUFFICES ASSUME AirfieldInv, [AirfieldNext]_airfield_vars PROVE AirfieldInv'
    OBVIOUS
  <1>1. ASSUME NEW reply \in AirfieldReplies, LookedUp(reply) PROVE AirfieldInv'
    <2> DEFINE status == ReadAirport(airfield.of, reply)
    <2>1. status \in {"ready", "rejected", "failed"}
      BY DEF ReadAirport
    <2>2. status = "ready" => AsAirport(reply.body) /\ AnswersTheQuestion(reply.body, airfield.of)
      BY DEF ReadAirport
    <2> HIDE DEF status
    <2>3. /\ airfield' = [airfield EXCEPT !.status = status, !.reply = reply] /\ wentTo' = wentTo
          /\ airfield.status = "loading"
      BY <1>1 DEF LookedUp, status
    <2>4. airfield' = [of |-> airfield.of, status |-> status, reply |-> reply]
      BY <2>3 DEF AirfieldInv
    <2>5. /\ airfield' = [of |-> airfield'.of, status |-> airfield'.status, reply |-> airfield'.reply]
          /\ airfield'.of = airfield.of /\ airfield'.status = status /\ airfield'.reply = reply
      BY <2>4
    <2>6. wentTo' = <<>>
      BY <2>3 DEF AirfieldInv, LedToThePlace, Found
    <2> QED BY <2>1, <2>2, <2>5, <2>6 DEF AirfieldInv, AnswerIsRead, LedToThePlace
  <1>2. CASE OpenPosition
    <2>1. /\ airfield' = airfield /\ Found
          /\ \E p \in PositionOf : wentTo' = <<p>>
      BY <1>2 DEF OpenPosition
    <2> QED BY <2>1 DEF AirfieldInv, AnswerIsRead, LedToThePlace, Found, PositionOf, Said
  <1>3. CASE UNCHANGED airfield_vars
    BY <1>3 DEF AirfieldInv, AnswerIsRead, LedToThePlace, Found, PositionOf, Said, airfield_vars
  <1> QED BY <1>1, <1>2, <1>3 DEF AirfieldNext

(* An airfield has one position or none.                                   *)
LEMMA OnePosition == \A p, q \in PositionOf : p = q
  BY DEF PositionOf, PositionPayload

(* Panel, map and card of an airfield show the one asked for, at the one   *)
(* place the server gave, or say why not, whatever the server says and     *)
(* whatever links name it (AirportPanel.tsx, airport.ts).                  *)
THEOREM AirfieldsAreTheOnesAsked == AirfieldSpec => []AirfieldIsTheOneAsked
  <1>1. AirfieldInv => IsTheOneAsked
    BY DEF AirfieldInv, AnswerIsRead, AnswersTheQuestion, IsTheOneAsked, Said
  <1>2. AirfieldInv => OnePlace
    <2> SUFFICES ASSUME AirfieldInv PROVE OnePlace
      OBVIOUS
    <2>1. LET waiting == [NoMap EXCEPT !.pending = TRUE]
          IN  waiting.at = {} /\ waiting.pending /\ waiting.larger = {}
      BY DEF NoMap
    <2>2. ASSUME NEW m \in Map
          PROVE  /\ m.at = PositionOf /\ (m.larger # {} => m.larger = {Said.ident})
                 /\ PositionOf = {} => airfield.status = "loading" /\ m.pending
      <3>1. CASE PositionOf = {}
        <4>1. airfield.status = "loading" /\ m = [NoMap EXCEPT !.pending = TRUE]
          BY <2>2, <3>1, Zenon DEF Map
        <4> QED BY <2>1, <3>1, <4>1
      <3>2. CASE PositionOf # {}
        <4> DEFINE drawn == Len(RunwayShapes(Said.airport.runways))
                   larger == IF "mapPage" \in switches THEN {Said.ident} ELSE {}
        <4>1. m = [at |-> PositionOf, pending |-> FALSE, runways |-> drawn, larger |-> larger]
          BY <2>2, <3>2, Zenon DEF Map
        <4>2. larger \in {{}, {Said.ident}}
          OBVIOUS
        <4> HIDE DEF drawn, larger
        <4>3. m.at = PositionOf /\ m.larger = larger
          BY <4>1
        <4> QED BY <3>2, <4>2, <4>3
      <3> QED BY <3>1, <3>2
    <2>3. wentTo # <<>> => ToSet(wentTo) = PositionOf
      <3> SUFFICES ASSUME wentTo # <<>> PROVE ToSet(wentTo) = PositionOf
        OBVIOUS
      <3>1. PICK p \in PositionOf : wentTo = <<p>>
        BY DEF AirfieldInv, LedToThePlace
      <3>2. ToSet(wentTo) = {p}
        BY <3>1 DEF ToSet
      <3> QED BY <3>1, <3>2, OnePosition
    <2>4. Found => airfield.status # "loading"
      BY DEF Found
    <2>5. airfield.status = "loading" => PositionOf = {}
      BY DEF Found, PositionOf
    <2>6. Found /\ PositionOf = {} => AirfieldNote # ""
      BY DEF AirfieldNote, Found
    <2>7. AirfieldPanel.note = AirfieldNote
      BY DEF AirfieldPanel
    <2> QED BY <2>2, <2>3, <2>4, <2>5, <2>6, <2>7 DEF OnePlace
  <1>3. CardIsOfThePanel
    <2>1. CASE ~Found
      BY <2>1 DEF CardIsOfThePanel, AirfieldCard, AirfieldPanel
    <2>2. CASE Found
      <3>1. /\ AirfieldCard.name = Named /\ AirfieldCard.place = Said.airport.place
            /\ AirfieldPanel.name = Named /\ AirfieldPanel.rows = AirfieldRows
        BY <2>2 DEF AirfieldCard, AirfieldPanel
      <3>2. Said.airport.place # "" => [label |-> "Place", value |-> Said.airport.place, copyable |-> TRUE] \in AirfieldRows
        BY DEF AirfieldRows
      <3> QED BY <3>1, <3>2 DEF CardIsOfThePanel
    <2> QED BY <2>1, <2>2
  <1>4. AirfieldInv => AirfieldIsTheOneAsked
    BY <1>1, <1>2, <1>3 DEF AirfieldIsTheOneAsked
  <1>5. AirfieldSpec => []AirfieldInv
    BY AirfieldBegins, AirfieldKeeps, PTL DEF AirfieldSpec
  <1> QED BY <1>4, <1>5, PTL

(* Card and panel of an indicator claim the same of an answer that is      *)
(* their own, unless the panel's request is unanswered, and card, panel    *)
(* and map of an airfield show the one asked for: whatever the server says *)
(* of either, in any order of what a reader does with the two              *)
(* (CyberHover.tsx, CyberPanel.tsx, AirportPanel.tsx).                     *)
THEOREM ViewsShowWhatWasAsked == LookupsSpec => []CardAndPanelAgree
  <1>1. LookupsSpec => CyberViewSpec /\ AirfieldSpec
    BY DEF LookupsSpec
  <1>2. IndicatorIsTheOneAsked /\ AirfieldIsTheOneAsked => CardAndPanelAgree
    BY DEF CardAndPanelAgree
  <1> QED BY <1>1, <1>2, IndicatorsAreOneOnBothSurfaces, AirfieldsAreTheOnesAsked, PTL
=============================================================================
