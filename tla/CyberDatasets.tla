---------------------------- MODULE CyberDatasets ----------------------------
(***************************************************************************)
(* The cyber datasets of one plugin process: server/cyberdata.go, which    *)
(* opens the dataset files on the first call, shares the open among its    *)
(* callers, replaces the set behind their backs when the files or the      *)
(* configured directory change, and closes a replaced set after a grace;   *)
(* and the Set of decorators/cyber/intel, whose readers and whose Close    *)
(* meet on a read-write lock.                                              *)
(*                                                                         *)
(* The files are abstracted to a version of what the directories hold, the *)
(* setting to the number of times it was changed, the five seconds of the  *)
(* cache and the two minutes of the grace to steps that may come at any    *)
(* time.  Each critical section of p.cyber.lock is one step.               *)
(***************************************************************************)
EXTENDS Integers, FiniteSets

CONSTANTS
    Caller,        \* goroutines that ask for the datasets: API, MCP, warm-up
    Worker,        \* configuration hooks, and the refresh goroutines
    SetId,         \* identities of intel.Set values; a closed one is reused
    MaxConf,       \* bound on the changes of the setting
    MaxDisk,       \* bound on the changes of the files
    MaxGeneration, \* bound on generation up to which a forget may come
    NoSet, NoCaller  \* nil

ASSUME NilAssumption    == NoSet \notin SetId /\ NoCaller \notin Caller
ASSUME FiniteAssumption == IsFiniteSet(Caller) /\ IsFiniteSet(Worker)
ASSUME BoundsAssumption ==
    MaxConf \in Nat /\ MaxDisk \in Nat /\ MaxGeneration \in Nat

VARIABLES
    conf,        \* the CyberDatasetsDir setting
    disk,        \* what the directories hold
    set, fresh, generation, refreshing, opening,  \* p.cyber; fresh: checked is recent
    caller,      \* the calls of cyberIntelFor and what they do with the set
    worker,      \* OnConfigurationChange and refreshCyberDatasets
    sets,        \* the intel.Set values
    timers       \* sets waiting in time.AfterFunc to be closed

shared == <<set, fresh, generation, refreshing, opening>>
vars == <<conf, disk, set, fresh, generation, refreshing, opening, caller,
          worker, sets, timers>>

\* What the opening goroutine, the first caller or a refresh, carries.
OpenPC   == {"scan", "read", "install"}
CallerPC == {"idle", "lock", "waiting", "close", "have", "reading"} \cup OpenPC
WorkerPC == {"idle", "reload", "dirs"} \cup OpenPC

CallerRec == [pc : CallerPC, dirs : Nat, gen : Nat,
              set : SetId \cup {NoSet}, on : Caller \cup {NoCaller}]
WorkerRec == [pc : WorkerPC, dirs : Nat, gen : Nat, set : SetId \cup {NoSet}]
SetRec    == [state : {"none", "opening", "open", "closing", "closed"},
              dirs : Nat,   \* the directories it was opened from
              seen : Nat,   \* its candidates: the files when it was scanned
              data : Nat,   \* the files it really opened
              gen  : Nat]   \* ghost: the generation its open started in

IdleCaller == [pc |-> "idle", dirs |-> 0, gen |-> 0, set |-> NoSet, on |-> NoCaller]
IdleWorker == [pc |-> "idle", dirs |-> 0, gen |-> 0, set |-> NoSet]
Blank(st)  == [state |-> st, dirs |-> 0, seen |-> 0, data |-> 0, gen |-> 0]

-----------------------------------------------------------------------------
Init ==
    /\ conf = 0 /\ disk = 0
    /\ set = NoSet /\ fresh = FALSE /\ generation = 0
    /\ refreshing = FALSE /\ opening = NoCaller
    /\ caller = [c \in Caller |-> IdleCaller]
    /\ worker = [w \in Worker |-> IdleWorker]
    /\ sets = [s \in SetId |-> Blank("none")]
    /\ timers = {}

\* A set value nothing in the program refers to any more.
Unused(s) ==
    /\ sets[s].state \in {"none", "closed"}
    /\ \A c \in Caller : caller[c].set # s

Readers(s) == {c \in Caller : caller[c].set = s /\ caller[c].pc = "reading"}

(* intel.Open, first half: unpackArchives, then the candidates' sizes and  *)
(* modification times are noted.                                           *)
ScanCandidates(s, dirs, gen) ==
    sets' = [sets EXCEPT ![s] = [state |-> "opening", dirs |-> dirs, seen |-> disk,
                                 data |-> 0, gen |-> gen]]

(* intel.Open, second half: each file is opened, whatever it is by then.   *)
OpenFiles(s) ==
    sets' = [sets EXCEPT ![s] = [@ EXCEPT !.state = "open", !.data = disk]]

ChangedIgnoringDirs(dirs) == sets[set].seen # disk

Changed(dirs) == sets[set].dirs # dirs \/ sets[set].seen # disk

Abandon(s) == UNCHANGED <<sets, timers>>

CloseNow(s) == sets' = [sets EXCEPT ![s] = Blank("closed")] /\ UNCHANGED timers

Retire(s) == timers' = timers \cup ({s} \ {NoSet}) /\ UNCHANGED sets

-----------------------------------------------------------------------------
(* cyberIntel: the directories are read before the lock is taken.          *)
Call(c) ==
    /\ caller[c].pc = "idle"
    /\ caller' = [caller EXCEPT ![c] = [@ EXCEPT !.pc = "lock", !.dirs = conf]]
    /\ UNCHANGED <<conf, disk, shared, worker, sets, timers>>

(* serveCachedCyberSetLocked, and the cached set is answered.              *)
ServeCached(c) ==
    /\ caller[c].pc = "lock"
    /\ set # NoSet
    /\ caller' = [caller EXCEPT ![c] = [@ EXCEPT !.pc = "have", !.dirs = 0, !.set = set]]
    /\ \/ /\ fresh \/ (Changed(caller[c].dirs) /\ refreshing)
          /\ UNCHANGED <<fresh, refreshing, worker>>
       \/ /\ ~fresh /\ ~Changed(caller[c].dirs)
          /\ fresh' = TRUE
          /\ UNCHANGED <<refreshing, worker>>
       \/ /\ ~fresh /\ Changed(caller[c].dirs) /\ ~refreshing
          /\ refreshing' = TRUE
          /\ \E w \in Worker :
                /\ worker[w].pc = "idle"
                /\ worker' = [worker EXCEPT ![w] = [@ EXCEPT !.pc = "scan",
                                 !.dirs = caller[c].dirs, !.gen = generation]]
          /\ UNCHANGED fresh
    /\ UNCHANGED <<conf, disk, set, generation, opening, sets, timers>>

NoOpening == opening = NoCaller

(* cyberIntelFor: wait on the channel of the open already under way.       *)
WaitForOpening(c) ==
    /\ caller[c].pc = "lock"
    /\ set = NoSet /\ ~NoOpening
    /\ caller' = [caller EXCEPT ![c] = [@ EXCEPT !.pc = "waiting", !.on = opening]]
    /\ UNCHANGED <<conf, disk, shared, worker, sets, timers>>

(* cyberIntelFor: the first caller becomes the opener.                     *)
StartOpening(c) ==
    /\ caller[c].pc = "lock"
    /\ set = NoSet /\ NoOpening
    /\ opening' = c
    /\ caller' = [caller EXCEPT ![c] = [@ EXCEPT !.pc = "scan", !.gen = generation]]
    /\ UNCHANGED <<conf, disk, set, fresh, generation, refreshing, worker, sets, timers>>

CallerScans(c) ==
    /\ caller[c].pc = "scan"
    /\ \E s \in SetId :
          /\ Unused(s)
          /\ ScanCandidates(s, caller[c].dirs, caller[c].gen)
          /\ caller' = [caller EXCEPT ![c] = [@ EXCEPT !.pc = "read", !.dirs = 0, !.set = s]]
    /\ UNCHANGED <<conf, disk, shared, worker, timers>>

CallerOpens(c) ==
    /\ caller[c].pc = "read"
    /\ OpenFiles(caller[c].set)
    /\ caller' = [caller EXCEPT ![c] = [@ EXCEPT !.pc = "install"]]
    /\ UNCHANGED <<conf, disk, shared, worker, timers>>

InstallAlways(gen) == TRUE

\* No reload or forget ran since the open was started.
NotOvertaken(gen) == generation = gen

(* openFirstCyberSet's deferred section: install, or retire what a forget  *)
(* overtook.  The caller gets its set either way.                          *)
EndOpening(c) ==
    LET s == caller[c].set
    IN  /\ caller[c].pc = "install"
        /\ opening' = NoCaller
        /\ \/ /\ NotOvertaken(caller[c].gen)
              /\ set' = s /\ fresh' = TRUE
              /\ UNCHANGED <<sets, timers>>
           \/ /\ ~NotOvertaken(caller[c].gen)
              /\ Retire(s)
              /\ UNCHANGED <<set, fresh>>
        /\ caller' = [caller EXCEPT ![c] = [@ EXCEPT !.pc = "close", !.gen = 0]]
        /\ UNCHANGED <<conf, disk, generation, refreshing, worker>>

Waiting(c) == {d \in Caller : caller[d].pc = "waiting" /\ caller[d].on = c}

WokenBy(c) == Waiting(c)

(* close(opening): every waiter goes round the loop again.                 *)
CloseChannel(c) ==
    /\ caller[c].pc = "close"
    /\ caller' = [d \in Caller |->
                    CASE d = c            -> [caller[d] EXCEPT !.pc = "have"]
                      [] d \in WokenBy(c) -> [caller[d] EXCEPT !.pc = "lock", !.on = NoCaller]
                      [] OTHER            -> caller[d]]
    /\ UNCHANGED <<conf, disk, shared, worker, sets, timers>>

-----------------------------------------------------------------------------
\* Set.reading under RLock: a Close waiting for the lock keeps readers out,
\* a finished one has them refused.
MayRead(c) == sets[caller[c].set].state = "open"

StartRead(c) ==
    /\ caller[c].pc = "have"
    /\ MayRead(c)
    /\ caller' = [caller EXCEPT ![c] = [@ EXCEPT !.pc = "reading"]]
    /\ UNCHANGED <<conf, disk, shared, worker, sets, timers>>

EndRead(c) ==
    /\ caller[c].pc = "reading"
    /\ caller' = [caller EXCEPT ![c] = [@ EXCEPT !.pc = "have"]]
    /\ UNCHANGED <<conf, disk, shared, worker, sets, timers>>

(* The answer is complete, or a read met ErrRetired.                       *)
Done(c) ==
    /\ caller[c].pc = "have"
    /\ caller' = [caller EXCEPT ![c] = IdleCaller]
    /\ UNCHANGED <<conf, disk, shared, worker, sets, timers>>

-----------------------------------------------------------------------------
(* OnConfigurationChange: setConfiguration, then reloadCyberDatasets.      *)
Configure(w) ==
    /\ worker[w].pc = "idle"
    /\ conf < MaxConf
    /\ conf' = conf + 1
    /\ worker' = [worker EXCEPT ![w] = [@ EXCEPT !.pc = "reload"]]
    /\ UNCHANGED <<disk, shared, caller, sets, timers>>

NextGeneration == generation + 1

(* reloadCyberDatasets: nothing to do before the first set is installed;   *)
(* otherwise every refresh under way is overtaken.                         *)
Reload(w) ==
    /\ worker[w].pc = "reload"
    /\ \/ /\ set = NoSet
          /\ worker' = [worker EXCEPT ![w] = IdleWorker]
          /\ UNCHANGED <<generation, refreshing>>
       \/ /\ set # NoSet
          /\ generation' = NextGeneration
          /\ refreshing' = TRUE
          /\ worker' = [worker EXCEPT ![w] = [@ EXCEPT !.pc = "dirs", !.gen = NextGeneration]]
    /\ UNCHANGED <<conf, disk, set, fresh, opening, caller, sets, timers>>

(* The directories of the refresh are read after the lock is released.     *)
ReadDirs(w) ==
    /\ worker[w].pc = "dirs"
    /\ worker' = [worker EXCEPT ![w] = [@ EXCEPT !.pc = "scan", !.dirs = conf]]
    /\ UNCHANGED <<conf, disk, shared, caller, sets, timers>>

WorkerScans(w) ==
    /\ worker[w].pc = "scan"
    /\ \E s \in SetId :
          /\ Unused(s)
          /\ ScanCandidates(s, worker[w].dirs, worker[w].gen)
          /\ worker' = [worker EXCEPT ![w] = [@ EXCEPT !.pc = "read", !.dirs = 0, !.set = s]]
    /\ UNCHANGED <<conf, disk, shared, caller, timers>>

WorkerOpens(w) ==
    /\ worker[w].pc = "read"
    /\ OpenFiles(worker[w].set)
    /\ worker' = [worker EXCEPT ![w] = [@ EXCEPT !.pc = "install"]]
    /\ UNCHANGED <<conf, disk, shared, caller, timers>>

(* refreshCyberDatasets under the lock: what was overtaken is closed at    *)
(* once, for nobody can hold it; otherwise the old set is retired.         *)
EndRefresh(w) ==
    /\ worker[w].pc = "install"
    /\ \/ /\ ~NotOvertaken(worker[w].gen)
          /\ CloseNow(worker[w].set)
          /\ UNCHANGED <<set, fresh, refreshing>>
       \/ /\ NotOvertaken(worker[w].gen)
          /\ refreshing' = FALSE
          /\ Retire(set)
          /\ set' = worker[w].set /\ fresh' = TRUE
    /\ worker' = [worker EXCEPT ![w] = IdleWorker]
    /\ UNCHANGED <<conf, disk, generation, opening, caller>>

Uninstall == set' = NoSet

(* forgetCyberDatasets.                                                    *)
Forget ==
    /\ generation < MaxGeneration
    /\ Retire(set)
    /\ Uninstall /\ fresh' = FALSE
    /\ generation' = NextGeneration
    /\ refreshing' = FALSE
    /\ UNCHANGED <<conf, disk, opening, caller, worker>>

-----------------------------------------------------------------------------
(* The grace of a retired set is over: Close asks for the write lock...    *)
GraceEnds(s) ==
    /\ s \in timers
    /\ timers' = timers \ {s}
    /\ sets' = [sets EXCEPT ![s] = Blank("closing")]
    /\ UNCHANGED <<conf, disk, shared, caller, worker>>

Unread(s) == Readers(s) = {}

(* ...and has it when the last reader has left.                            *)
Close(s) ==
    /\ sets[s].state = "closing"
    /\ Unread(s)
    /\ sets' = [sets EXCEPT ![s] = Blank("closed")]
    /\ UNCHANGED <<conf, disk, shared, caller, worker, timers>>

(* cyberCacheTTL has passed since the files were last looked at.           *)
Expire ==
    /\ fresh
    /\ fresh' = FALSE
    /\ UNCHANGED <<conf, disk, set, generation, refreshing, opening, caller,
                   worker, sets, timers>>

(* An operator adds, replaces or removes a dataset file.                   *)
ChangeFiles ==
    /\ disk < MaxDisk
    /\ disk' = disk + 1
    /\ UNCHANGED <<conf, shared, caller, worker, sets, timers>>

-----------------------------------------------------------------------------
CallerStep(c) ==
    \/ ServeCached(c) \/ WaitForOpening(c) \/ StartOpening(c)
    \/ CallerScans(c) \/ CallerOpens(c) \/ EndOpening(c) \/ CloseChannel(c)
    \/ EndRead(c)

WorkerStep(w) ==
    \/ Reload(w) \/ ReadDirs(w) \/ WorkerScans(w) \/ WorkerOpens(w) \/ EndRefresh(w)

Next ==
    \/ \E c \in Caller : CallerStep(c) \/ Call(c) \/ StartRead(c) \/ Done(c)
    \/ \E w \in Worker : WorkerStep(w) \/ Configure(w)
    \/ \E s \in SetId : GraceEnds(s) \/ Close(s)
    \/ Forget
    \/ Expire
    \/ ChangeFiles

Spec == Init /\ [][Next]_vars

(* Goroutines run, calls keep coming, timers fire and time passes.  Done   *)
(* is strongly fair because a request reads a bounded number of rows.      *)
(* Nothing makes an operator or an administrator act.                      *)
Fairness ==
    /\ \A c \in Caller : WF_vars(CallerStep(c)) /\ WF_vars(Call(c)) /\ SF_vars(Done(c))
    /\ \A w \in Worker : WF_vars(WorkerStep(w))
    /\ \A s \in SetId : WF_vars(GraceEnds(s)) /\ WF_vars(Close(s))
    /\ WF_vars(Expire)

FairSpec == Spec /\ Fairness

-----------------------------------------------------------------------------
TypeOK ==
    /\ conf \in 0 .. MaxConf /\ disk \in 0 .. MaxDisk
    /\ set \in SetId \cup {NoSet}
    /\ fresh \in BOOLEAN /\ refreshing \in BOOLEAN
    /\ generation \in Nat
    /\ opening \in Caller \cup {NoCaller}
    /\ caller \in [Caller -> CallerRec]
    /\ worker \in [Worker -> WorkerRec]
    /\ sets \in [SetId -> SetRec]
    /\ timers \subseteq SetId

(* The set that cyberIntel hands out is open and no timer is going to      *)
(* close it: every path that retires a set also takes it out of p.cyber.   *)
InstalledStaysOpen ==
    set # NoSet => sets[set].state = "open" /\ set \notin timers

(* No file handle is leaked: a set with open files is the installed one,   *)
(* waits for its timer, or is in the hands of the goroutine opening it.    *)
NoHandleLeaks ==
    \A s \in SetId : sets[s].state = "open" =>
        \/ s = set
        \/ s \in timers
        \/ \E c \in Caller : caller[c].set = s /\ caller[c].pc = "install"
        \/ \E w \in Worker : worker[w].set = s /\ worker[w].pc = "install"

(* Files are never closed under a read: Set.reading holds the read lock    *)
(* across the closed check and the read.                                   *)
NoReadOfClosedFiles ==
    \A c \in Caller : caller[c].pc = "reading" => sets[caller[c].set].state # "closed"

(* A refresh flagged as running is running, and only one that can still    *)
(* install: the flag is neither lost, which would stop every later         *)
(* refresh, nor shared by two goroutines that both install.                *)
Refreshing ==
    {w \in Worker : worker[w].pc \in OpenPC \cup {"dirs"} /\ worker[w].gen = generation}

RefreshFlagIsOwned == Cardinality(Refreshing) = IF refreshing THEN 1 ELSE 0

(* Every open file has one owner who will close it, nobody reads or serves *)
(* a closed one, and one goroutine at most opens files to replace it: the  *)
(* four statements above, of well-typed states.                            *)
HandlesAreOwned ==
    /\ TypeOK
    /\ InstalledStaysOpen
    /\ NoHandleLeaks
    /\ NoReadOfClosedFiles
    /\ RefreshFlagIsOwned

(* Once no refresh is under way, the set served was opened after the last  *)
(* reload began: an open started before a configuration change never       *)
(* replaces, or stands in for, the one that follows it.                    *)
ServedSinceReload ==
    set # NoSet /\ ~refreshing => sets[set].gen = generation

\* A set that a caller holds is closed only after its grace: it was in the
\* hands of a timer.
HeldSetsGetTheirGrace ==
    \A c \in Caller, s \in SetId :
        /\ caller[c].set = s /\ caller[c].pc \in {"close", "have", "reading"}
        /\ sets[s].state = "open" /\ sets'[s].state # "open"
        => s \in timers

(* The files served never go back in time: a refresh that read older ones  *)
(* than those installed meanwhile is always one that was overtaken.  Nor   *)
(* do they go away under a caller: the set it holds is closed by the timer *)
(* of its grace and by nothing else.                                       *)
FilesNeverGoBack ==
    [][/\ set # NoSet /\ set' # NoSet => sets'[set'].data >= sets[set].data
       /\ HeldSetsGetTheirGrace]_vars

UpToDate ==
    set # NoSet /\ sets[set].dirs = conf /\ sets[set].data = disk

CallsReturn == \A c \in Caller : caller[c].pc = "lock" ~> caller[c].pc = "have"

(* When the files and the setting stop changing, the set served ends up    *)
(* being what the directories hold: neither a caller that read the old     *)
(* setting, nor files replaced while they were opened, leave it stale.     *)
(* And a call that asked for the datasets always gets a set.               *)
Converges == <>[]UpToDate /\ CallsReturn
=============================================================================
