---------------------------- MODULE PackageCache ----------------------------
(***************************************************************************)
(* The detail map packages of server/packages.go: a directory that an      *)
(* administrator uploads to and removes from through the System Console    *)
(* and an operator edits by hand, the bundled directory beside it, and the *)
(* memo of what a scan of both found.  Listing, serving, uploading and     *)
(* removing all go through mapPackages, which reads the setting, the memo, *)
(* the setting again and the directories in separate steps.                *)
(*                                                                         *)
(* A package is its name.  A file is "whole" when validPackageHeader       *)
(* accepts it and "half" otherwise.  The five seconds of packageCacheTTL   *)
(* are a step that may come at any time and drops the memo: an expired     *)
(* memo and none are the same to cachedPackages.                           *)
(***************************************************************************)
EXTENDS Integers

CONSTANTS
    Name,        \* package names that match packageNamePattern
    Bundled,     \* those that ship inside the plugin
    Dir,         \* values of LocationMapPackagesDir, other than none
    Req,         \* request goroutines
    NoDir,       \* the setting left empty
    MaxOutside   \* bound on the changes of the setting, the operator's edits
                 \* and the restart, together

ASSUME NamesAssumption  == Name # {} /\ Bundled \subseteq Name
ASSUME NoDirAssumption  == NoDir \notin Dir
ASSUME BoundsAssumption == MaxOutside \in Nat

Setting == Dir \cup {NoDir}

VARIABLES
    setting,  \* LocationMapPackagesDir
    files,    \* per directory and name: what the file is
    temps,    \* the .part files, by the request that created them
    memo,     \* packageCache, or NoMemo
    req,      \* the requests in flight
    settings, edits,  \* the changes made so far, for the bounds
    ever,     \* ghost: per directory, the names it has ever held
    crashed   \* ghost: the process was restarted

world == <<setting, files, temps, settings, edits, ever, crashed>>
vars == <<world, memo, req>>

\* Where a request stands: before mapPackages, inside it, or after it.
ScanPC   == {"dirs", "memo", "dropin", "scan", "store", "found"}
UploadPC == {"temp", "copy", "validate", "rename", "cleanup"}
PC == {"idle", "setting", "remove", "forget", "done"} \cup ScanPC \cup UploadPC

Kind  == {"list", "serve", "upload", "removal"}
Phase == {"check", "open", "names", "removable"}  \* which call of mapPackages

ReqRec == [pc : PC, kind : Kind, phase : Phase, name : Name,
           good  : BOOLEAN,       \* the uploaded body is a whole archive
           dir   : Setting,       \* installPackage's and removePackage's dir
           dirs  : Setting,       \* the configured half of mapPackages's dirs
           dropIn : Setting,      \* mapPackages's dropInDir
           found : SUBSET Name,   \* what it found
           drop  : SUBSET Name,   \* those flagged dropIn
           late  : BOOLEAN,       \* ghost: dirs changed since the scan
           names : SUBSET Name]   \* packagesPayload's Packages

Memo   == [dirs : Setting, found : SUBSET Name, drop : SUBSET Name,
           late : BOOLEAN]  \* ghost: dirs changed between the scan and the store,
                            \* or an operator changed it since
NoMemo == [dirs |-> NoDir, found |-> {}, drop |-> {}, late |-> TRUE]
Unset  == CHOOSE n \in Name : TRUE

Idle == [pc |-> "idle", kind |-> "list", phase |-> "names", name |-> Unset,
         good |-> FALSE, dir |-> NoDir, dirs |-> NoDir, dropIn |-> NoDir,
         found |-> {}, drop |-> {}, late |-> FALSE, names |-> {}]

Held(d) == IF d = NoDir THEN {} ELSE {n \in Name : files[d][n] = "whole"}
-----------------------------------------------------------------------------
Init ==
    /\ setting \in Setting
    /\ files = [d \in Dir |-> [n \in Name |-> "none"]]
    /\ temps = {}
    /\ memo = NoMemo
    /\ req = [r \in Req |-> Idle]
    /\ settings = 0 /\ edits = 0
    /\ ever = [d \in Dir |-> {}]
    /\ crashed = FALSE

At(r, pc) == req[r].pc = pc

Set(r, rec) == req' = [req EXCEPT ![r] = rec]

Goto(r, pc) == Set(r, [req[r] EXCEPT !.pc = pc])

Begin(r) ==
    /\ At(r, "idle")
    /\ \/ Set(r, [Idle EXCEPT !.pc = "dirs"])
       \/ \E n \in Name :
            \/ Set(r, [Idle EXCEPT !.pc = "dirs", !.kind = "serve", !.phase = "open", !.name = n])
            \/ Set(r, [Idle EXCEPT !.pc = "setting", !.kind = "removal", !.name = n])
            \/ \E g \in BOOLEAN :
                 Set(r, [Idle EXCEPT !.pc = "setting", !.kind = "upload", !.name = n, !.good = g])
    /\ UNCHANGED <<world, memo>>

-----------------------------------------------------------------------------
(* mapPackages: packageDirs.                                               *)
PackageDirs(r) ==
    /\ At(r, "dirs")
    /\ Set(r, [req[r] EXCEPT !.pc = "memo", !.dirs = setting])
    /\ UNCHANGED <<world, memo>>

Memoised(dirs) == memo # NoMemo /\ memo.dirs = dirs

(* mapPackages: cachedPackages.                                            *)
CachedPackages(r) ==
    /\ At(r, "memo")
    /\ \/ /\ Memoised(req[r].dirs)
          /\ Set(r, [req[r] EXCEPT !.pc = "found", !.found = memo.found, !.drop = memo.drop])
       \/ /\ ~Memoised(req[r].dirs)
          /\ Goto(r, "dropin")
    /\ UNCHANGED <<world, memo>>

(* mapPackages: dropInDir, a second read of the setting.                   *)
DropInDir(r) ==
    /\ At(r, "dropin")
    /\ Set(r, [req[r] EXCEPT !.pc = "scan", !.dropIn = setting])
    /\ UNCHANGED <<world, memo>>

(* mapPackages: packagesIn.  A name in both directories is the drop-in's.  *)
Scan(r) ==
    LET q == req[r]
    IN  /\ At(r, "scan")
        /\ Set(r, [q EXCEPT !.pc = "store", !.found = Bundled \cup Held(q.dirs),
                     !.drop = IF q.dirs = q.dropIn THEN Held(q.dirs) ELSE {}])
        /\ UNCHANGED <<world, memo>>

(* mapPackages: storePackages.                                             *)
StorePackages(r) ==
    LET q == req[r]
    IN  /\ At(r, "store")
        /\ memo' = [dirs |-> q.dirs, found |-> q.found, drop |-> q.drop, late |-> q.late]
        /\ Set(r, [q EXCEPT !.pc = "found", !.late = FALSE])
        /\ UNCHANGED world

(* mapPackages has answered; its caller goes on.                           *)
Found(r) ==
    LET q == req[r]
    IN  /\ At(r, "found")
        /\ CASE q.phase = "check" ->  \* removePackage: slices.Contains
                    Set(r, IF q.name \in q.drop
                           THEN [Idle EXCEPT !.pc = "remove", !.kind = q.kind,
                                             !.name = q.name, !.dir = q.dir]
                           ELSE Idle)
             [] q.phase = "open" ->   \* servePackage: os.Open, or 404
                    Set(r, Idle)
             [] q.phase = "names" ->  \* packagesPayload: packageNames, then...
                    Set(r, [Idle EXCEPT !.pc = "dirs", !.kind = q.kind, !.phase = "removable", !.names = q.found])
             [] q.phase = "removable" ->  \* ...removablePackages, and the answer
                    Set(r, [Idle EXCEPT !.pc = "done", !.kind = q.kind, !.drop = q.drop, !.names = q.names])
        /\ UNCHANGED <<world, memo>>

Done(r) ==
    /\ At(r, "done")
    /\ Set(r, Idle)
    /\ UNCHANGED <<world, memo>>

-----------------------------------------------------------------------------
Configured == setting # NoDir

(* installPackage and removePackage read the setting.                      *)
ReadSetting(r) ==
    /\ At(r, "setting")
    /\ \/ ~Configured /\ Set(r, Idle)
       \/ /\ Configured /\ req[r].kind = "upload"
          /\ Set(r, [req[r] EXCEPT !.pc = "temp", !.dir = setting])
       \/ /\ Configured /\ req[r].kind = "removal"
          /\ Set(r, [req[r] EXCEPT !.pc = "dirs", !.phase = "check", !.dir = setting])
    /\ UNCHANGED <<world, memo>>

(* installPackage: MkdirAll and CreateTemp, either of which may fail.      *)
CreateTemp(r) ==
    /\ At(r, "temp")
    /\ \/ temps' = temps \cup {r} /\ Goto(r, "copy")
       \/ UNCHANGED temps /\ Set(r, Idle)
    /\ UNCHANGED <<setting, files, settings, edits, ever, crashed, memo>>

(* installPackage: the copy, which fails, or is too large, or completes.   *)
Copy(r) ==
    /\ At(r, "copy")
    /\ \/ Goto(r, "validate")
       \/ Goto(r, "cleanup")
    /\ UNCHANGED <<world, memo>>

AcceptAnything(r) == TRUE

ValidHeader(r) == req[r].good

(* installPackage: validPackageHeader of the temporary file.               *)
Validate(r) ==
    /\ At(r, "validate")
    /\ Goto(r, IF ValidHeader(r) THEN "rename" ELSE "cleanup")
    /\ UNCHANGED <<world, memo>>

PutFile(d, n, what) ==
    /\ files' = [files EXCEPT ![d][n] = what]
    /\ ever' = [ever EXCEPT ![d] = @ \cup {n}]

\* The requests, with those that have scanned d and not stored it made late.
Overtaken(d) ==
    [r \in Req |-> IF At(r, "store") /\ req[r].dirs = d
                   THEN [req[r] EXCEPT !.late = TRUE] ELSE req[r]]

(* installPackage: the rename, which puts the whole file there or fails.   *)
Rename(r) ==
    LET q == req[r]
    IN  /\ At(r, "rename")
        /\ \/ /\ PutFile(q.dir, q.name, IF q.good THEN "whole" ELSE "half")
              /\ temps' = temps \ {r}
              /\ req' = [Overtaken(q.dir) EXCEPT ![r].pc = "forget"]
           \/ /\ Goto(r, "cleanup")
              /\ UNCHANGED <<files, temps, ever>>
        /\ UNCHANGED <<setting, settings, edits, crashed, memo>>

RemoveTemp(r) == temps' = temps \ {r}

(* installPackage's deferred function, on the way to a refusal.            *)
Cleanup(r) ==
    /\ At(r, "cleanup")
    /\ RemoveTemp(r)
    /\ Set(r, Idle)
    /\ UNCHANGED <<setting, files, settings, edits, ever, crashed, memo>>

(* os.Remove, of the file as the request's setting names it.               *)
RemovePackage(r) ==
    LET q == req[r]
    IN  /\ At(r, "remove")
        /\ \/ /\ files[q.dir][q.name] # "none"
              /\ files' = [files EXCEPT ![q.dir][q.name] = "none"]
              /\ req' = [Overtaken(q.dir) EXCEPT ![r].pc = "forget"]
           \/ UNCHANGED files /\ Set(r, Idle)  \* it could not be removed
        /\ UNCHANGED <<setting, temps, settings, edits, ever, crashed, memo>>

KeepMemo == UNCHANGED memo

DropMemo == memo' = NoMemo

(* forgetPackages, and servePackageAdmin goes on to packagesPayload.       *)
ForgetPackages(r) ==
    /\ At(r, "forget")
    /\ DropMemo
    /\ Set(r, [Idle EXCEPT !.pc = "dirs", !.kind = req[r].kind])
    /\ UNCHANGED world

-----------------------------------------------------------------------------
\* Bound: the setting's changes, the operator's edits and the restart.
Quiet == settings + edits + (IF crashed THEN 1 ELSE 0) < MaxOutside

Expire ==
    /\ memo # NoMemo
    /\ memo' = NoMemo
    /\ UNCHANGED <<world, req>>

(* setConfiguration.                                                       *)
Configure ==
    /\ Quiet
    /\ setting' \in Setting \ {setting}
    /\ settings' = settings + 1
    /\ UNCHANGED <<files, temps, edits, ever, crashed, memo, req>>

(* An operator copies a file into a directory, or deletes one.             *)
Edit ==
    /\ Quiet
    /\ edits' = edits + 1
    /\ \E d \in Dir, n \in Name :
          /\ \/ files[d][n] = "none" /\ PutFile(d, n, "whole")
             \/ /\ files[d][n] = "whole"
                /\ files' = [files EXCEPT ![d][n] = "none"]
                /\ UNCHANGED ever
          /\ req' = Overtaken(d)
          /\ memo' = IF memo.dirs = d THEN [memo EXCEPT !.late = TRUE] ELSE memo
    /\ UNCHANGED <<setting, temps, settings, crashed>>

(* The plugin process dies and starts again: what was on disk stays.       *)
Restart ==
    /\ ~crashed /\ Quiet
    /\ crashed' = TRUE
    /\ req' = [r \in Req |-> Idle]
    /\ memo' = NoMemo
    /\ UNCHANGED <<setting, files, temps, settings, edits, ever>>

Step(r) ==
    \/ PackageDirs(r) \/ CachedPackages(r) \/ DropInDir(r) \/ Scan(r)
    \/ StorePackages(r) \/ Found(r) \/ Done(r) \/ ReadSetting(r)
    \/ CreateTemp(r) \/ Copy(r) \/ Validate(r) \/ Rename(r) \/ Cleanup(r)
    \/ RemovePackage(r) \/ ForgetPackages(r)

Next ==
    \/ \E r \in Req : Begin(r) \/ Step(r)
    \/ Expire
    \/ Configure
    \/ Edit
    \/ Restart

Spec == Init /\ [][Next]_vars

-----------------------------------------------------------------------------
TypeOK ==
    /\ setting \in Setting
    /\ files \in [Dir -> [Name -> {"none", "whole", "half"}]]
    /\ temps \subseteq Req
    /\ memo \in Memo \cup {NoMemo}
    /\ req \in [Req -> ReqRec]
    /\ \A r \in Req : req[r].pc \in UploadPC \cup {"remove", "forget"} => req[r].dir # NoDir
    /\ settings \in Nat /\ edits \in Nat /\ settings + edits <= MaxOutside
    /\ ever \in [Dir -> SUBSET Name]
    /\ crashed \in BOOLEAN

(* A package directory never holds a file this plugin half wrote, whatever *)
(* the upload sent, however it ended and whenever the process died: it is  *)
(* copied under another name, validated, and only then renamed.            *)
NeverHalfWritten == \A d \in Dir, n \in Name : files[d][n] # "half"

(* A refused upload leaves nothing behind: a temporary file belongs to an  *)
(* upload still running, unless the process died under it.                 *)
NoTempLeftBehind ==
    \A r \in temps : crashed \/ req[r].pc \in {"copy", "validate", "rename", "cleanup"}

(* What is on disk is whole or on its way: the two statements above, of    *)
(* well-typed states.                                                      *)
DiskStaysClean == TypeOK /\ NeverHalfWritten /\ NoTempLeftBehind

(* A list never carries a name of another directory than the one the       *)
(* request read from the setting, however often the setting changes.       *)
NamesOfTheRightDir ==
    \A r \in Req : At(r, "found") =>
        req[r].found \subseteq
            Bundled \cup (IF req[r].dirs = NoDir THEN {} ELSE ever[req[r].dirs])

(* A memo is out of date only while a write is about to forget it, when    *)
(* its scan overlapped a write, or when an operator went past the plugin;  *)
(* and what a request lists is of the directory it read the setting of.    *)
MemoSeesAnsweredWrites ==
    /\ NamesOfTheRightDir
    /\ memo # NoMemo /\ memo.found # Bundled \cup Held(memo.dirs) =>
           memo.late \/ \E r \in Req : At(r, "forget") /\ req[r].dir = memo.dirs

=============================================================================
