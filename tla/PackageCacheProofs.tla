-------------------------- MODULE PackageCacheProofs --------------------------
(***************************************************************************)
(* Proofs about PackageCache, for any names, directories, requests and     *)
(* numbers of changes: what is on disk is whole or on its way              *)
(* (DiskStaysClean), and a memo that is out of date is about to be         *)
(* forgotten, or its scan overlapped a write, or an operator went past the *)
(* plugin (MemoSeesAnsweredWrites).                                        *)
(*                                                                         *)
(* The inductive invariant follows a name from the disk, through the scan  *)
(* of a request, to the memo and the list that is answered: at each of the *)
(* three it is a name the directory of that scan has held, and unless a    *)
(* write came between it is one that the directory holds now.              *)
(***************************************************************************)
EXTENDS PackageCache, TLAPS

(* The names that a directory, or none, has ever held.                     *)
HeldOnce(d) == Bundled \cup (IF d = NoDir THEN {} ELSE ever[d])

(* The names that a scan of the directory would find now.                  *)
HeldNow(d) == Bundled \cup Held(d)

(* Only what was found whole is renamed into place.                        *)
ValidatedFirst == \A r \in Req : At(r, "rename") => req[r].good

(* A removal looks for its package once it knows of a directory.           *)
RemovalHasItsDir == \A r \in Req : req[r].phase = "check" => req[r].dir # NoDir

(* The ghost remembers every name that is on the disk.                     *)
EverIsComplete ==
    \A d \in Dir, n \in Name : files[d][n] # "none" => n \in ever[d]

(* A request that has scanned, and a memo, name files of their directory.  *)
ScanIsOfItsDir ==
    \A r \in Req : req[r].pc \in {"store", "found"} => req[r].found \subseteq HeldOnce(req[r].dirs)

MemoIsOfItsDir == memo.found \subseteq HeldOnce(memo.dirs)

(* A scan that no write overtook found what is there.                      *)
ScanIsCurrent ==
    \A r \in Req : At(r, "store") /\ ~req[r].late => req[r].found = HeldNow(req[r].dirs)

(* A memo without an excuse names what is there.                           *)
MemoIsCurrent ==
    memo # NoMemo /\ memo.found # HeldNow(memo.dirs) =>
        memo.late \/ \E r \in Req : At(r, "forget") /\ req[r].dir = memo.dirs

OnDisk ==
    /\ NeverHalfWritten /\ NoTempLeftBehind
    /\ ValidatedFirst /\ RemovalHasItsDir /\ EverIsComplete

InLists ==
    ScanIsOfItsDir /\ MemoIsOfItsDir /\ ScanIsCurrent /\ MemoIsCurrent

IInv == TypeOK /\ OnDisk /\ InLists

-----------------------------------------------------------------------------
(* A request that begins, or begins again, has a request's record.         *)
LEMMA IdleRecord == Idle \in ReqRec
<1>1. Unset \in Name
      BY NamesAssumption DEF Unset
<1>. QED BY <1>1 DEF Idle, ReqRec, PC, ScanPC, UploadPC, Kind, Phase, Setting


-----------------------------------------------------------------------------
\* What a request at step q.pc may carry.
Sound(r, q) ==
    /\ q.pc \in UploadPC \cup {"remove", "forget"} => q.dir # NoDir
    /\ r \in temps => crashed \/ q.pc \in {"copy", "validate", "rename", "cleanup"}
    /\ q.pc = "rename" => q.good
    /\ q.phase = "check" => q.dir # NoDir
    /\ q.pc \in {"store", "found"} => q.found \subseteq HeldOnce(q.dirs)
    /\ q.pc = "store" /\ ~q.late => q.found = HeldNow(q.dirs)

(* The invariant says so of every request.                                 *)
LEMMA RequestsAreSound == ASSUME IInv, NEW r \in Req PROVE req[r] \in ReqRec /\ Sound(r, req[r])
BY DEF IInv, TypeOK, OnDisk, InLists, NoTempLeftBehind, ValidatedFirst,
       RemovalHasItsDir, ScanIsOfItsDir, ScanIsCurrent, Sound, At

(* A step that changes one request's record and nothing else, and is not   *)
(* the one that forgets, keeps the invariant when the record is sound.     *)
LEMMA RequestMoves ==
    ASSUME IInv, NEW r \in Req, NEW q \in ReqRec, Set(r, q), UNCHANGED <<world, memo>>,
           ~At(r, "forget"), Sound(r, q)
    PROVE  IInv'
<1>0. TypeOK
      BY DEF IInv
<1>1. /\ req' = [req EXCEPT ![r] = q]
      /\ UNCHANGED <<setting, files, temps, settings, edits, ever, crashed, memo>>
      BY DEF Set, world
<1>2. req'[r] = q /\ \A p \in Req : p # r => req'[p] = req[p]
      BY <1>0, <1>1 DEF TypeOK
<1>3. \A p \in Req : Sound(p, req'[p])
      BY <1>2, RequestsAreSound
<1>4. TypeOK'
      <2>1. req' \in [Req -> ReqRec]
            BY <1>0, <1>1 DEF TypeOK
      <2>2. \A p \in Req : req'[p].pc \in UploadPC \cup {"remove", "forget"} => req'[p].dir # NoDir
            BY <1>3 DEF Sound
      <2>. QED BY <1>0, <1>1, <2>1, <2>2 DEF TypeOK
<1>5. OnDisk'
      BY <1>1, <1>3 DEF IInv, OnDisk, NeverHalfWritten, NoTempLeftBehind, ValidatedFirst,
                        RemovalHasItsDir, EverIsComplete, Sound, At
<1>6. \A d : HeldOnce(d)' = HeldOnce(d) /\ HeldNow(d)' = HeldNow(d)
      BY <1>1 DEF HeldOnce, HeldNow, Held
<1>7. (ScanIsOfItsDir /\ ScanIsCurrent)'
      BY <1>3, <1>6 DEF ScanIsOfItsDir, ScanIsCurrent, Sound, At
<1>8. (MemoIsOfItsDir /\ MemoIsCurrent)'
      BY <1>1, <1>2, <1>6 DEF IInv, InLists, MemoIsOfItsDir, MemoIsCurrent, At
<1>. QED BY <1>4, <1>5, <1>7, <1>8 DEF IInv, InLists

(* The steps of a request that change nothing but its record.              *)
LEMMA QuietStepsKeep ==
    ASSUME IInv, NEW r \in Req,
           \/ Begin(r) \/ PackageDirs(r) \/ CachedPackages(r) \/ DropInDir(r) \/ Scan(r)
           \/ Found(r) \/ Done(r) \/ ReadSetting(r) \/ Copy(r) \/ Validate(r)
    PROVE  IInv'
<1>0. /\ req[r] \in ReqRec /\ Sound(r, req[r]) /\ Idle \in ReqRec
      /\ setting \in Setting /\ NoDir \in Setting
      /\ memo.found \in SUBSET Name /\ memo.drop \in SUBSET Name
      /\ \A d \in Setting : Bundled \cup Held(d) \in SUBSET Name /\ Held(d) \in SUBSET Name
      BY RequestsAreSound, IdleRecord, NamesAssumption
         DEF IInv, TypeOK, Setting, Memo, NoMemo, Held
<1>f. /\ req[r].kind \in Kind /\ req[r].name \in Name /\ req[r].dir \in Setting
      /\ req[r].dirs \in Setting /\ req[r].found \in SUBSET Name /\ req[r].drop \in SUBSET Name
      /\ req[r].names \in SUBSET Name /\ req[r].good \in BOOLEAN /\ req[r].late \in BOOLEAN
      BY <1>0 DEF ReqRec
<1>n. "upload" \in Kind /\ "serve" \in Kind /\ "removal" \in Kind /\ "list" \in Kind
      BY DEF Kind
<1>h. "check" \in Phase /\ "open" \in Phase /\ "names" \in Phase /\ "removable" \in Phase
      BY DEF Phase
<1>p. /\ PC = {"idle", "setting", "remove", "forget", "done", "dirs", "memo", "dropin", "scan",
               "store", "found", "temp", "copy", "validate", "rename", "cleanup"}
      /\ UploadPC = {"temp", "copy", "validate", "rename", "cleanup"}
      BY DEF PC, ScanPC, UploadPC
<1>i. r \in temps => crashed \/ req[r].pc \in {"copy", "validate", "rename", "cleanup"}
      BY <1>0 DEF Sound
<1>c. req[r].phase = "check" => req[r].dir # NoDir
      BY <1>0 DEF Sound
<1>s. ASSUME NEW q \in ReqRec, Set(r, q), UNCHANGED <<world, memo>>, ~At(r, "forget"),
             q.pc \in {"idle", "setting", "dirs", "memo", "dropin", "scan", "done"},
             q.phase = "check" => q.dir # NoDir,
             req[r].pc \notin {"copy", "validate", "rename", "cleanup"}
      PROVE  IInv'
      <2>1. Sound(r, q)
            BY <1>s, <1>i, <1>p DEF Sound
      <2>. QED BY <1>s, <2>1, RequestMoves
<1>1. CASE Begin(r)
      <2>1. \E q \in ReqRec : Set(r, q) /\ q.pc \in {"dirs", "setting"} /\ q.phase # "check"
            <3>1. ASSUME NEW n \in Name, NEW g \in BOOLEAN
                  PROVE  /\ [Idle EXCEPT !.pc = "dirs"] \in ReqRec
                         /\ [Idle EXCEPT !.pc = "dirs", !.kind = "serve", !.phase = "open", !.name = n] \in ReqRec
                         /\ [Idle EXCEPT !.pc = "setting", !.kind = "removal", !.name = n] \in ReqRec
                         /\ [Idle EXCEPT !.pc = "setting", !.kind = "upload", !.name = n, !.good = g] \in ReqRec
                  BY <1>0, <1>n, <1>h, <1>p DEF ReqRec
            <3> DEFINE Fresh(q) == q.pc \in {"dirs", "setting"} /\ q.phase # "check"
            <3>2. ASSUME NEW n \in Name, NEW g \in BOOLEAN
                  PROVE  /\ Fresh([Idle EXCEPT !.pc = "dirs"])
                         /\ Fresh([Idle EXCEPT !.pc = "dirs", !.kind = "serve", !.phase = "open", !.name = n])
                         /\ Fresh([Idle EXCEPT !.pc = "setting", !.kind = "removal", !.name = n])
                         /\ Fresh([Idle EXCEPT !.pc = "setting", !.kind = "upload", !.name = n, !.good = g])
                  BY DEF Idle
            <3>. QED BY <1>1, <1>f, <3>1, <3>2, Zenon DEF Begin
      <2>2. At(r, "idle") /\ UNCHANGED <<world, memo>>
            BY <1>1 DEF Begin
      <2>. QED BY <2>1, <2>2, <1>s DEF At
<1>2. CASE PackageDirs(r)
      <2> DEFINE q == [req[r] EXCEPT !.pc = "memo", !.dirs = setting]
      <2>1. q \in ReqRec /\ q.pc = "memo" /\ q.phase = req[r].phase /\ q.dir = req[r].dir
            BY <1>0, <1>p, <1>f DEF ReqRec
      <2>. QED BY <1>2, <2>1, <1>c, <1>s DEF PackageDirs, At
<1>3. CASE CachedPackages(r)
      <2>1. CASE Memoised(req[r].dirs)
            <3> DEFINE q == [req[r] EXCEPT !.pc = "found", !.found = memo.found, !.drop = memo.drop]
            <3>1. q \in ReqRec
                  BY <1>0, <1>n, <1>h, <1>p, <1>f DEF ReqRec
            <3>2. /\ q.pc = "found" /\ q.found = memo.found /\ q.dirs = req[r].dirs
                  /\ q.phase = req[r].phase /\ q.dir = req[r].dir
                  BY <1>0 DEF ReqRec
            <3>3. q.found \subseteq HeldOnce(q.dirs)
                  BY <2>1, <3>2 DEF Memoised, IInv, InLists, MemoIsOfItsDir
            <3>4. Sound(r, q)
                  BY <1>3, <1>c, <1>i, <1>p, <3>2, <3>3 DEF Sound, CachedPackages, At
            <3>. HIDE DEF q
            <3>5. Set(r, q) /\ UNCHANGED <<world, memo>> /\ At(r, "memo")
                  BY <1>3, <2>1 DEF CachedPackages, q
            <3>. QED BY <3>1, <3>4, <3>5, RequestMoves DEF At
      <2>2. CASE ~Memoised(req[r].dirs)
            <3> DEFINE q == [req[r] EXCEPT !.pc = "dropin"]
            <3>1. q \in ReqRec /\ q.pc = "dropin" /\ q.phase = req[r].phase /\ q.dir = req[r].dir
                  BY <1>0, <1>p, <1>f DEF ReqRec
            <3>. QED BY <1>3, <2>2, <3>1, <1>c, <1>s DEF CachedPackages, Goto, At
      <2>. QED BY <2>1, <2>2
<1>4. CASE DropInDir(r)
      <2> DEFINE q == [req[r] EXCEPT !.pc = "scan", !.dropIn = setting]
      <2>1. q \in ReqRec /\ q.pc = "scan" /\ q.phase = req[r].phase /\ q.dir = req[r].dir
            BY <1>0, <1>p, <1>f DEF ReqRec
      <2>. QED BY <1>4, <2>1, <1>c, <1>s DEF DropInDir, At
<1>5. CASE Scan(r)
      <2> DEFINE found == Bundled \cup Held(req[r].dirs)
                 drop  == IF req[r].dirs = req[r].dropIn THEN Held(req[r].dirs) ELSE {}
                 q     == [req[r] EXCEPT !.pc = "store", !.found = found, !.drop = drop]
      <2>0. found \in SUBSET Name /\ drop \in SUBSET Name
            BY <1>0, <1>f
      <2>1. q \in ReqRec
            <3>. HIDE DEF found, drop
            <3>. QED BY <1>0, <1>p, <2>0 DEF ReqRec
      <2>2. /\ q.pc = "store" /\ q.found = found /\ q.dirs = req[r].dirs
            /\ q.phase = req[r].phase /\ q.dir = req[r].dir
            BY <1>0 DEF ReqRec
      <2>3. found \subseteq HeldOnce(req[r].dirs) /\ found = HeldNow(req[r].dirs)
            BY <1>f DEF HeldOnce, HeldNow, Held, Setting, IInv, OnDisk, EverIsComplete
      <2>4. Set(r, q) /\ UNCHANGED <<world, memo>> /\ At(r, "scan")
            BY <1>5 DEF Scan
      <2>. HIDE DEF q, found
      <2>5. Sound(r, q)
            BY <2>2, <2>3, <2>4, <1>c, <1>i, <1>p DEF Sound, At
      <2>. QED BY <2>1, <2>4, <2>5, RequestMoves DEF At
<1>6. CASE Found(r)
      <2> DEFINE q1 == [Idle EXCEPT !.pc = "remove", !.kind = req[r].kind,
                                    !.name = req[r].name, !.dir = req[r].dir]
                 q2 == [Idle EXCEPT !.pc = "dirs", !.kind = req[r].kind, !.phase = "removable",
                                    !.names = req[r].found]
                 q3 == [Idle EXCEPT !.pc = "done", !.kind = req[r].kind, !.drop = req[r].drop,
                                    !.names = req[r].names]
      <2>1. q1 \in ReqRec /\ q2 \in ReqRec /\ q3 \in ReqRec
            BY <1>0, <1>n, <1>h, <1>p, <1>f DEF ReqRec
      <2>2. /\ q2.pc = "dirs" /\ q3.pc = "done" /\ Idle.pc = "idle" /\ q1.pc = "remove"
            /\ q1.dir = req[r].dir
            /\ q1.phase = "names" /\ q2.phase = "removable" /\ q3.phase = "names" /\ Idle.phase = "names"
            BY DEF Idle
      <2>3. /\ At(r, "found") /\ UNCHANGED <<world, memo>>
            /\ \/ Set(r, Idle) \/ Set(r, q2) \/ Set(r, q3)
               \/ Set(r, q1) /\ req[r].phase = "check"
            <3>1. req[r].phase \in {"check", "open", "names", "removable"}
                  BY <1>0 DEF ReqRec, Phase
            <3>. QED BY <1>6, <3>1 DEF Found
      <2>. HIDE DEF q1, q2, q3
      <2>4. CASE Set(r, q1) /\ req[r].phase = "check"
            <3>1. req[r].dir # NoDir
                  BY <2>4, <1>c
            <3>2. Sound(r, q1)
                  BY <2>2, <2>3, <3>1, <1>i, <1>p DEF Sound, At
            <3>. QED BY <2>1, <2>3, <2>4, <3>2, RequestMoves DEF At
      <2>5. CASE Set(r, Idle) \/ Set(r, q2) \/ Set(r, q3)
            BY <2>1, <2>2, <2>3, <2>5, <1>0, <1>s DEF At
      <2>. QED BY <2>3, <2>4, <2>5
<1>7. CASE Done(r)
      <2>1. Idle.pc = "idle" /\ Idle.phase = "names"
            BY DEF Idle
      <2>. QED BY <1>7, <2>1, <1>0, <1>s DEF Done, At
<1>8. CASE ReadSetting(r)
      <2> DEFINE q1 == [req[r] EXCEPT !.pc = "temp", !.dir = setting]
                 q2 == [req[r] EXCEPT !.pc = "dirs", !.phase = "check", !.dir = setting]
      <2>1. q1 \in ReqRec /\ q2 \in ReqRec
            BY <1>0, <1>n, <1>h, <1>p, <1>f DEF ReqRec
      <2>2. /\ q1.pc = "temp" /\ q1.dir = setting /\ q1.phase = req[r].phase
            /\ q2.pc = "dirs" /\ q2.dir = setting
            /\ Idle.pc = "idle" /\ Idle.phase = "names"
            BY <1>0 DEF ReqRec, Idle
      <2>3. /\ At(r, "setting") /\ UNCHANGED <<world, memo>>
            /\ Set(r, Idle) \/ (setting # NoDir /\ (Set(r, q1) \/ Set(r, q2)))
            BY <1>8 DEF ReadSetting, Configured
      <2>. HIDE DEF q1, q2
      <2>4. CASE Set(r, q1) /\ setting # NoDir
            <3>1. Sound(r, q1)
                  BY <2>2, <2>3, <2>4, <1>i, <1>p DEF Sound, At
            <3>. QED BY <2>1, <2>3, <2>4, <3>1, RequestMoves DEF At
      <2>5. CASE Set(r, Idle) \/ (Set(r, q2) /\ setting # NoDir)
            BY <2>1, <2>2, <2>3, <2>5, <1>0, <1>s DEF At
      <2>. QED BY <2>3, <2>4, <2>5
<1>9. CASE Copy(r) \/ Validate(r)
      <2>1. PICK pc \in {"validate", "cleanup", "rename"} :
                  /\ Goto(r, pc) /\ (pc = "rename" => req[r].good)
                  /\ req[r].pc \in {"copy", "validate"} /\ UNCHANGED <<world, memo>>
            BY <1>9 DEF Copy, Validate, ValidHeader, At
      <2> DEFINE q == [req[r] EXCEPT !.pc = pc]
      <2>2. q \in ReqRec
            BY <1>0, <1>n, <1>h, <1>p, <1>f DEF ReqRec
      <2>3. q.pc = pc /\ q.dir = req[r].dir /\ q.phase = req[r].phase /\ q.good = req[r].good
            BY <1>0 DEF ReqRec
      <2>4. req[r].dir # NoDir
            BY <1>0, <1>p, <2>1 DEF Sound
      <2>5. Set(r, q)
            BY <2>1 DEF Goto
      <2>. HIDE DEF q
      <2>6. Sound(r, q)
            BY <2>1, <2>3, <2>4, <1>c DEF Sound
      <2>. QED BY <2>1, <2>2, <2>5, <2>6, RequestMoves DEF At
<1>. QED BY <1>1, <1>2, <1>3, <1>4, <1>5, <1>6, <1>7, <1>8, <1>9

-----------------------------------------------------------------------------
\* A write to directory d, or the request behind it, leaves request p where
\* it was, except that its scan of d is spoiled and its write is done.
LeftInPlace(d, p) ==
    /\ req'[p].found = req[p].found /\ req'[p].dirs = req[p].dirs
    /\ req'[p].dir = req[p].dir /\ req'[p].phase = req[p].phase
    /\ req'[p].good = req[p].good
    /\ req[p].pc = "store" /\ ~req'[p].late => ~req[p].late /\ req[p].dirs # d

WriteIsDone(p) ==
    /\ req[p].pc \in {"rename", "remove"} /\ req'[p].pc = "forget"
    /\ p \in temps' => crashed

(* Adding a file to a directory, or taking one off, keeps the invariant    *)
(* when those that have scanned it and not stored it yet are made late,    *)
(* and the memo of that directory is excused.                              *)
LEMMA FileChanges ==
    ASSUME IInv, NEW d \in Dir, NEW n \in Name, NEW what \in {"none", "whole"},
           files' = [files EXCEPT ![d][n] = what],
           ever' \in [Dir -> SUBSET Name],
           \A e \in Dir : ever[e] \subseteq ever'[e],
           what = "none" \/ n \in ever'[d],
           UNCHANGED <<setting, settings, crashed>>, edits' \in Nat, settings + edits' <= MaxOutside,
           temps' \subseteq temps,
           req' \in [Req -> ReqRec],
           \A p \in Req : LeftInPlace(d, p) /\ (req'[p].pc = req[p].pc \/ WriteIsDone(p)),
           \/ memo' = memo
           \/ memo.dirs = d /\ memo' = [memo EXCEPT !.late = TRUE],
           memo.dirs = d => \/ memo'.late
                            \/ \E p \in Req : req'[p].pc = "forget" /\ req'[p].dir = d
    PROVE  IInv'
<1>0. TypeOK
      BY DEF IInv
<1>1. \A p \in Req : req[p] \in ReqRec /\ Sound(p, req[p])
      BY RequestsAreSound
<1>2. /\ files'[d][n] = what
      /\ \A e \in Dir, m \in Name : e # d \/ m # n => files'[e][m] = files[e][m]
      /\ files' \in [Dir -> [Name -> {"none", "whole", "half"}]]
      BY <1>0 DEF TypeOK
<1>3. /\ memo' \in Memo \cup {NoMemo}
      /\ memo'.found = memo.found /\ memo'.dirs = memo.dirs
      /\ memo = NoMemo => memo' = memo
      /\ memo.late => memo'.late
      <2>1. CASE memo' = memo
            BY <2>1, <1>0 DEF TypeOK
      <2>2. CASE memo.dirs = d /\ memo' = [memo EXCEPT !.late = TRUE]
            <3>1. memo # NoMemo /\ memo \in Memo
                  BY <2>2, <1>0, NoDirAssumption DEF NoMemo, TypeOK
            <3>. QED BY <2>2, <3>1 DEF Memo
      <2>. QED BY <2>1, <2>2
<1>4. TypeOK'
      <2>1. \A p \in Req : req'[p].pc \in UploadPC \cup {"remove", "forget"} => req'[p].dir # NoDir
            BY <1>1 DEF Sound, UploadPC, LeftInPlace, WriteIsDone
      <2>2. temps' \subseteq Req
            BY <1>0 DEF TypeOK
      <2>3. crashed' \in BOOLEAN
            BY <1>0 DEF TypeOK
      <2>. QED BY <1>0, <1>2, <1>3, <2>1, <2>2, <2>3 DEF TypeOK
<1>5. OnDisk'
      <2>1. (NeverHalfWritten /\ EverIsComplete)'
            BY <1>2 DEF IInv, OnDisk, NeverHalfWritten, EverIsComplete
      <2>2. NoTempLeftBehind'
            BY <1>0, <1>1 DEF NoTempLeftBehind, Sound, TypeOK, WriteIsDone
      <2>3. (ValidatedFirst /\ RemovalHasItsDir)'
            BY <1>1 DEF ValidatedFirst, RemovalHasItsDir, Sound, At, LeftInPlace, WriteIsDone
      <2>. QED BY <2>1, <2>2, <2>3 DEF OnDisk
<1>6. \A e \in Setting : HeldOnce(e) \subseteq HeldOnce(e)' /\ (e # d => HeldNow(e)' = HeldNow(e))
      BY <1>2 DEF HeldOnce, HeldNow, Held, Setting
<1>7. (ScanIsOfItsDir /\ ScanIsCurrent)'
      <2>1. \A p \in Req : req[p].dirs \in Setting
            BY <1>1 DEF ReqRec
      <2>2. ScanIsOfItsDir'
            BY <1>1, <1>6, <2>1 DEF ScanIsOfItsDir, Sound, LeftInPlace, WriteIsDone
      <2>3. ScanIsCurrent'
            BY <1>1, <1>6, <2>1 DEF ScanIsCurrent, Sound, At, LeftInPlace, WriteIsDone
      <2>. QED BY <2>2, <2>3
<1>8. (MemoIsOfItsDir /\ MemoIsCurrent)'
      <2>1. memo.dirs \in Setting
            BY <1>0 DEF TypeOK, Memo, NoMemo, Setting
      <2>2. MemoIsOfItsDir'
            BY <1>3, <1>6, <2>1 DEF IInv, InLists, MemoIsOfItsDir
      <2>3. CASE memo.dirs = d
            <3>1. memo'.dirs = d
                  BY <1>3, <2>3
            <3>2. memo'.late \/ \E p \in Req : At(p, "forget")' /\ req'[p].dir = d
                  BY <2>3 DEF At
            <3>. QED BY <2>2, <3>1, <3>2, Zenon DEF MemoIsCurrent
      <2>4. CASE memo.dirs # d
            <3>1. \A p \in Req : req[p].pc = "forget" => req'[p].pc = "forget" /\ req'[p].dir = req[p].dir
                  BY DEF LeftInPlace, WriteIsDone
            <3>2. memo'.found = HeldNow(memo.dirs)' <=> memo.found = HeldNow(memo.dirs)
                  <4>1. PICK e \in Setting : e = memo.dirs
                        BY <2>1
                  <4>2. HeldNow(e)' = HeldNow(e)
                        BY <1>6, <2>4, <4>1
                  <4>3. HeldNow(memo.dirs) = HeldNow(e)
                        BY <4>1
                  <4>4. memo'.dirs = e
                        BY <1>3, <4>1
                  <4>5. HeldNow(memo.dirs)' = HeldNow(e)'
                        BY <4>4 DEF HeldNow, Held
                  <4>. QED BY <1>3, <4>2, <4>3, <4>5
            <3>3. CASE memo' = NoMemo
                  BY <2>2, <3>3, Zenon DEF MemoIsCurrent
            <3>4. CASE memo' # NoMemo
                  <4>1. \/ memo.found = HeldNow(memo.dirs) \/ memo.late
                        \/ \E p \in Req : At(p, "forget") /\ req[p].dir = memo.dirs
                        BY <1>3, <3>4 DEF IInv, InLists, MemoIsCurrent
                  <4>2. \/ memo'.found = HeldNow(memo.dirs)' \/ memo'.late
                        \/ \E p \in Req : At(p, "forget")' /\ req'[p].dir = memo'.dirs
                        BY <4>1, <1>3, <3>1, <3>2 DEF At
                  <4>. QED BY <2>2, <4>2, Zenon DEF MemoIsCurrent
            <3>. QED BY <3>3, <3>4
      <2>. QED BY <2>2, <2>3, <2>4
<1>. QED BY <1>4, <1>5, <1>7, <1>8 DEF IInv, InLists

(* The rename, the removal, and an operator's edit change a file so.       *)
LEMMA FileStepsKeep ==
    ASSUME IInv, \/ \E r \in Req : Rename(r) \/ RemovePackage(r)
                 \/ Edit
    PROVE  IInv'
<1>0. TypeOK /\ files \in [Dir -> [Name -> {"none", "whole", "half"}]] /\ ever \in [Dir -> SUBSET Name]
      BY DEF IInv, TypeOK
<1>1. \A p \in Req : /\ req[p] \in ReqRec /\ Sound(p, req[p])
                     /\ req[p].dir \in Setting /\ req[p].name \in Name
      BY RequestsAreSound DEF ReqRec
<1>2. ASSUME NEW d \in Dir
      PROVE  /\ Overtaken(d) \in [Req -> ReqRec]
             /\ \A p \in Req :
                   LET q == Overtaken(d)[p]
                   IN  /\ q.pc = req[p].pc /\ q.found = req[p].found /\ q.dirs = req[p].dirs
                       /\ q.dir = req[p].dir /\ q.phase = req[p].phase /\ q.good = req[p].good
                       /\ req[p].pc = "store" /\ ~q.late => ~req[p].late /\ req[p].dirs # d
      BY <1>1 DEF Overtaken, At, ReqRec
<1>3. ASSUME NEW r \in Req, NEW d \in Dir, req[r].pc \in {"rename", "remove"},
             req' = [Overtaken(d) EXCEPT ![r].pc = "forget"]
      PROVE  /\ req' \in [Req -> ReqRec]
             /\ req'[r].pc = "forget"
             /\ \A p \in Req : LeftInPlace(d, p) /\ (p # r => req'[p].pc = req[p].pc)
      <2>1. Overtaken(d)[r] \in ReqRec
            BY <1>2
      <2>2. [Overtaken(d)[r] EXCEPT !.pc = "forget"] \in ReqRec
            BY <2>1 DEF ReqRec, PC
      <2>3. /\ req'[r] = [Overtaken(d)[r] EXCEPT !.pc = "forget"]
            /\ \A p \in Req : p # r => req'[p] = Overtaken(d)[p]
            /\ req' \in [Req -> ReqRec]
            BY <1>2, <1>3, <2>2
      <2>4. LET q == Overtaken(d)[r]
            IN  /\ req'[r].pc = "forget" /\ req'[r].found = q.found /\ req'[r].dirs = q.dirs
                /\ req'[r].dir = q.dir /\ req'[r].phase = q.phase /\ req'[r].good = q.good
            BY <2>1, <2>3 DEF ReqRec
      <2>5. ASSUME NEW p \in Req PROVE LeftInPlace(d, p) /\ (p # r => req'[p].pc = req[p].pc)
            <3>1. CASE p = r
                  BY <1>2, <1>3, <2>4, <3>1 DEF LeftInPlace
            <3>2. CASE p # r
                  BY <1>2, <2>3, <3>2 DEF LeftInPlace
            <3>. QED BY <3>1, <3>2
      <2>. QED BY <2>3, <2>4, <2>5
<1>4. ASSUME NEW r \in Req, Rename(r) PROVE IInv'
      <2>0. req[r].pc = "rename" /\ req[r].dir \in Dir /\ req[r].good
            BY <1>1, <1>4 DEF Rename, At, Sound, UploadPC, Setting
      <2>1. CASE /\ PutFile(req[r].dir, req[r].name, IF req[r].good THEN "whole" ELSE "half")
                 /\ temps' = temps \ {r}
                 /\ req' = [Overtaken(req[r].dir) EXCEPT ![r].pc = "forget"]
            <3>1. /\ files' = [files EXCEPT ![req[r].dir][req[r].name] = "whole"]
                  /\ ever' = [ever EXCEPT ![req[r].dir] = @ \cup {req[r].name}]
                  BY <2>0, <2>1 DEF PutFile
            <3>2. /\ ever' \in [Dir -> SUBSET Name] /\ req[r].name \in ever'[req[r].dir]
                  /\ \A e \in Dir : ever[e] \subseteq ever'[e]
                  BY <1>0, <1>1, <2>0, <3>1
            <3>3. UNCHANGED <<setting, settings, edits, crashed, memo>>
                  BY <1>4 DEF Rename
            <3>4. /\ req' \in [Req -> ReqRec] /\ temps' \subseteq temps /\ r \notin temps'
                  /\ req'[r].pc = "forget" /\ req'[r].dir = req[r].dir
                  /\ \A p \in Req : /\ LeftInPlace(req[r].dir, p)
                                    /\ req'[p].pc = req[p].pc \/ WriteIsDone(p)
                  BY <1>3, <2>0, <2>1 DEF LeftInPlace, WriteIsDone
            <3>5. edits' \in Nat /\ settings + edits' <= MaxOutside
                  BY <1>0, <3>3 DEF TypeOK
            <3>. QED BY <1>1, <2>0, <3>1, <3>2, <3>3, <3>4, <3>5, FileChanges
      <2>2. CASE Goto(r, "cleanup") /\ UNCHANGED <<files, temps, ever>>
            <3> DEFINE q == [req[r] EXCEPT !.pc = "cleanup"]
            <3>1. q \in ReqRec /\ q.pc = "cleanup" /\ q.dir = req[r].dir /\ q.phase = req[r].phase
                  BY <1>1 DEF ReqRec, PC, UploadPC
            <3>2. Set(r, q) /\ UNCHANGED <<world, memo>>
                  BY <1>4, <2>2 DEF Rename, world, Goto
            <3>. HIDE DEF q
            <3>3. Sound(r, q)
                  BY <1>1, <2>0, <3>1, NoDirAssumption DEF Sound
            <3>. QED BY <2>0, <3>1, <3>2, <3>3, RequestMoves DEF At
      <2>. QED BY <1>4, <2>1, <2>2 DEF Rename
<1>5. ASSUME NEW r \in Req, RemovePackage(r) PROVE IInv'
      <2>0. req[r].pc = "remove" /\ req[r].dir \in Dir
            BY <1>1, <1>5 DEF RemovePackage, At, Sound, Setting
      <2>1. CASE /\ files' = [files EXCEPT ![req[r].dir][req[r].name] = "none"]
                 /\ req' = [Overtaken(req[r].dir) EXCEPT ![r].pc = "forget"]
            <3>1. UNCHANGED <<setting, temps, settings, edits, ever, crashed, memo>>
                  BY <1>5 DEF RemovePackage
            <3>2. r \in temps => crashed
                  BY <1>1, <2>0 DEF Sound
            <3>3. /\ req' \in [Req -> ReqRec]
                  /\ req'[r].pc = "forget" /\ req'[r].dir = req[r].dir
                  /\ \A p \in Req : /\ LeftInPlace(req[r].dir, p)
                                    /\ req'[p].pc = req[p].pc \/ WriteIsDone(p)
                  BY <1>3, <2>0, <2>1, <3>1, <3>2 DEF LeftInPlace, WriteIsDone
            <3>4. /\ edits' \in Nat /\ settings + edits' <= MaxOutside
                  /\ ever' \in [Dir -> SUBSET Name] /\ \A e \in Dir : ever[e] \subseteq ever'[e]
                  BY <1>0, <3>1 DEF TypeOK
            <3>. QED BY <1>1, <2>0, <2>1, <3>1, <3>3, <3>4, FileChanges
      <2>2. CASE UNCHANGED files /\ Set(r, Idle)
            <3>1. UNCHANGED <<world, memo>>
                  BY <1>5, <2>2 DEF RemovePackage, world
            <3>2. Sound(r, Idle)
                  BY <1>1, <2>0 DEF Sound, Idle, UploadPC
            <3>. QED BY <2>0, <2>2, <3>1, <3>2, IdleRecord, RequestMoves DEF At
      <2>. QED BY <1>5, <2>1, <2>2 DEF RemovePackage
<1>6. CASE Edit
      <2>1. PICK d \in Dir, n \in Name :
               /\ \/ files[d][n] = "none" /\ PutFile(d, n, "whole")
                  \/ /\ files[d][n] = "whole"
                     /\ files' = [files EXCEPT ![d][n] = "none"]
                     /\ UNCHANGED ever
               /\ req' = Overtaken(d)
               /\ memo' = IF memo.dirs = d THEN [memo EXCEPT !.late = TRUE] ELSE memo
            BY <1>6 DEF Edit
      <2>2. /\ UNCHANGED <<setting, temps, settings, crashed>>
            /\ edits' \in Nat /\ settings + edits' <= MaxOutside
            BY <1>6, <1>0, BoundsAssumption DEF Edit, Quiet, TypeOK
      <2>3. PICK what \in {"none", "whole"} :
               /\ files' = [files EXCEPT ![d][n] = what]
               /\ ever' \in [Dir -> SUBSET Name] /\ \A e \in Dir : ever[e] \subseteq ever'[e]
               /\ what = "none" \/ n \in ever'[d]
            BY <1>0, <2>1 DEF PutFile
      <2>4. /\ memo' = memo \/ (memo.dirs = d /\ memo' = [memo EXCEPT !.late = TRUE])
            /\ memo.dirs = d => memo'.late
            <3>1. CASE memo.dirs = d
                  <4>1. memo \in Memo
                        BY <3>1, <1>0, NoDirAssumption DEF NoMemo, TypeOK
                  <4>. QED BY <2>1, <3>1, <4>1 DEF Memo
            <3>2. CASE memo.dirs # d
                  BY <2>1, <3>2
            <3>. QED BY <3>1, <3>2
      <2>5. /\ req' \in [Req -> ReqRec]
            /\ \A p \in Req : LeftInPlace(d, p) /\ req'[p].pc = req[p].pc
            BY <1>2, <2>1 DEF LeftInPlace
      <2>. QED BY <2>2, <2>3, <2>4, <2>5, FileChanges
<1>. QED BY <1>4, <1>5, <1>6

-----------------------------------------------------------------------------
(* The steps that touch the memo, a temporary file or the setting.         *)
LEMMA OtherStepsKeep ==
    ASSUME IInv, \/ \E r \in Req : \/ StorePackages(r) \/ CreateTemp(r) \/ Cleanup(r)
                                   \/ ForgetPackages(r)
                 \/ Expire \/ Configure \/ Restart \/ UNCHANGED vars
    PROVE  IInv'
<1>0. /\ TypeOK /\ OnDisk /\ InLists /\ Idle \in ReqRec
      /\ \A p \in Req : req[p] \in ReqRec /\ Sound(p, req[p])
      BY RequestsAreSound, IdleRecord DEF IInv
<1>i. /\ Idle.pc = "idle" /\ Idle.phase = "names"
      BY DEF Idle
<1>n. NoMemo.found = {} /\ NoMemo \in Memo \cup {NoMemo}
      BY DEF NoMemo
<1>1. ASSUME NEW r \in Req, StorePackages(r) PROVE IInv'
      <2> DEFINE q == [req[r] EXCEPT !.pc = "found", !.late = FALSE]
      <2>1. /\ req[r].pc = "store" /\ req' = [req EXCEPT ![r] = q]
            /\ memo' = [dirs |-> req[r].dirs, found |-> req[r].found, drop |-> req[r].drop,
                        late |-> req[r].late]
            /\ UNCHANGED <<setting, files, temps, settings, edits, ever, crashed>>
            BY <1>1 DEF StorePackages, At, Set, world
      <2>2. /\ q \in ReqRec /\ q.pc = "found" /\ q.found = req[r].found /\ q.dirs = req[r].dirs
            /\ q.phase = req[r].phase /\ q.dir = req[r].dir
            BY <1>0 DEF ReqRec, PC, ScanPC
      <2>. HIDE DEF q
      <2>3. req'[r] = q /\ \A p \in Req : p # r => req'[p] = req[p]
            BY <1>0, <2>1 DEF TypeOK
      <2>4. \A p \in Req : Sound(p, req'[p])
            BY <1>0, <2>1, <2>2, <2>3 DEF Sound, UploadPC
      <2>5. memo' \in Memo
            BY <1>0, <2>1 DEF Memo, ReqRec
      <2>6. TypeOK'
            <3>1. req' \in [Req -> ReqRec]
                  BY <1>0, <2>1, <2>2 DEF TypeOK
            <3>2. \A p \in Req : req'[p].pc \in UploadPC \cup {"remove", "forget"} => req'[p].dir # NoDir
                  BY <2>4 DEF Sound
            <3>. QED BY <1>0, <2>1, <2>5, <3>1, <3>2 DEF TypeOK
      <2>7. OnDisk'
            BY <1>0, <2>1, <2>4 DEF OnDisk, NeverHalfWritten, NoTempLeftBehind, ValidatedFirst,
                                    RemovalHasItsDir, EverIsComplete, Sound, At
      <2>8. \A d : HeldOnce(d)' = HeldOnce(d) /\ HeldNow(d)' = HeldNow(d)
            BY <2>1 DEF HeldOnce, HeldNow, Held
      <2>9. (ScanIsOfItsDir /\ ScanIsCurrent)'
            BY <2>4, <2>8 DEF ScanIsOfItsDir, ScanIsCurrent, Sound, At
      <2>10. MemoIsOfItsDir'
            BY <1>0, <2>1 DEF MemoIsOfItsDir, HeldOnce, Sound
      <2>11. MemoIsCurrent'
            BY <1>0, <2>1 DEF MemoIsCurrent, HeldNow, Held, Sound
      <2>. QED BY <2>6, <2>7, <2>9, <2>10, <2>11 DEF IInv, InLists
<1>d. \A d : UNCHANGED <<files, ever>> => HeldOnce(d)' = HeldOnce(d) /\ HeldNow(d)' = HeldNow(d)
      BY DEF HeldOnce, HeldNow, Held
<1>t. ASSUME NEW r \in Req, NEW q \in ReqRec, Set(r, q), ~At(r, "forget"),
             UNCHANGED <<setting, files, settings, edits, ever, crashed, memo>>,
             temps' \subseteq Req, temps' \ {r} \subseteq temps,
             q.pc \in {"copy", "idle"}, q.pc = "copy" => q.dir # NoDir,
             q.pc = "idle" => r \notin temps', q.phase = "check" => q.dir # NoDir
      PROVE  IInv'
      <2>1. req' = [req EXCEPT ![r] = q]
            BY <1>t DEF Set
      <2>2. req'[r] = q /\ \A p \in Req : p # r => req'[p] = req[p]
            BY <1>0, <2>1 DEF TypeOK
      <2>3. TypeOK'
            <3>1. req' \in [Req -> ReqRec]
                  BY <1>0, <1>t, <2>1 DEF TypeOK
            <3>2. \A p \in Req : req'[p].pc \in UploadPC \cup {"remove", "forget"} => req'[p].dir # NoDir
                  BY <1>0, <1>t, <2>2 DEF Sound, UploadPC
            <3>. QED BY <1>0, <1>t, <3>1, <3>2 DEF TypeOK
      <2>4. OnDisk'
            BY <1>0, <1>t, <2>2 DEF OnDisk, NeverHalfWritten, NoTempLeftBehind, ValidatedFirst,
                                    RemovalHasItsDir, EverIsComplete, Sound, At
      <2>5. (ScanIsOfItsDir /\ ScanIsCurrent)'
            BY <1>0, <1>t, <2>2, <1>d DEF ScanIsOfItsDir, ScanIsCurrent, Sound, At
      <2>6. (MemoIsOfItsDir /\ MemoIsCurrent)'
            BY <1>0, <1>t, <2>2, <1>d DEF InLists, MemoIsOfItsDir, MemoIsCurrent, At
      <2>. QED BY <2>3, <2>4, <2>5, <2>6 DEF IInv, InLists
<1>2. ASSUME NEW r \in Req, CreateTemp(r) PROVE IInv'
      <2>0. /\ req[r].pc = "temp" /\ req[r].dir # NoDir
            /\ UNCHANGED <<setting, files, settings, edits, ever, crashed, memo>>
            BY <1>0, <1>2 DEF CreateTemp, At, Sound, UploadPC
      <2>1. CASE UNCHANGED temps /\ Set(r, Idle)
            <3>1. Sound(r, Idle)
                  BY <1>0, <2>0, <1>i DEF Sound, UploadPC
            <3>2. UNCHANGED <<world, memo>> /\ ~At(r, "forget")
                  BY <2>0, <2>1 DEF world, At
            <3>. QED BY <1>0, <2>1, <3>1, <3>2, RequestMoves
      <2>2. CASE temps' = temps \cup {r} /\ Goto(r, "copy")
            <3> DEFINE q == [req[r] EXCEPT !.pc = "copy"]
            <3>1. q \in ReqRec /\ q.pc = "copy" /\ q.dir = req[r].dir /\ q.phase = req[r].phase
                  BY <1>0 DEF ReqRec, PC, UploadPC
            <3>2. Set(r, q) /\ temps' \subseteq Req /\ temps' \ {r} \subseteq temps
                  BY <1>0, <2>2 DEF Goto, TypeOK
            <3>. HIDE DEF q
            <3>. QED BY <2>0, <3>1, <3>2, <1>t DEF At
      <2>. QED BY <1>2, <2>1, <2>2 DEF CreateTemp
<1>3. ASSUME NEW r \in Req, Cleanup(r) PROVE IInv'
      <2>1. /\ temps' \subseteq Req /\ temps' \ {r} \subseteq temps /\ r \notin temps'
            /\ Set(r, Idle) /\ ~At(r, "forget")
            /\ UNCHANGED <<setting, files, settings, edits, ever, crashed, memo>>
            BY <1>0, <1>3 DEF Cleanup, RemoveTemp, TypeOK, At
      <2>. QED BY <2>1, <1>0, <1>i, <1>t
<1>m. ASSUME NEW q \in [Req -> ReqRec], req' = q, memo' = NoMemo,
             \A p \in Req : q[p] = req[p] \/ (q[p].pc \in {"idle", "dirs"} /\ q[p].phase # "check"
                                               /\ (p \in temps => crashed')),
             UNCHANGED <<setting, files, temps, settings, edits, ever>>,
             crashed' \in BOOLEAN, crashed => crashed'
      PROVE  IInv'
      <2>1. TypeOK'
            <3>1. \A p \in Req : req'[p].pc \in UploadPC \cup {"remove", "forget"} => req'[p].dir # NoDir
                  BY <1>0, <1>m DEF Sound, UploadPC
            <3>. QED BY <1>0, <1>n, <1>m, <3>1 DEF TypeOK
      <2>2. OnDisk'
            <3>1. NoTempLeftBehind'
                  <4>1. ASSUME NEW p \in temps', ~crashed'
                        PROVE  req'[p].pc \in {"copy", "validate", "rename", "cleanup"}
                        <5>1. p \in temps /\ p \in Req /\ ~crashed
                              BY <1>0, <1>m, <4>1 DEF TypeOK
                        <5>. QED BY <1>0, <1>m, <4>1, <5>1 DEF Sound
                  <4>. QED BY <4>1, Zenon DEF NoTempLeftBehind
            <3>2. (NeverHalfWritten /\ ValidatedFirst /\ RemovalHasItsDir /\ EverIsComplete)'
                  BY <1>0, <1>m DEF OnDisk, NeverHalfWritten, ValidatedFirst, RemovalHasItsDir,
                                    EverIsComplete, Sound, At
            <3>. QED BY <3>1, <3>2 DEF OnDisk
      <2>3. (ScanIsOfItsDir /\ ScanIsCurrent)'
            BY <1>0, <1>m, <1>d DEF ScanIsOfItsDir, ScanIsCurrent, Sound, At
      <2>4. (MemoIsOfItsDir /\ MemoIsCurrent)'
            BY <1>m, <1>n DEF MemoIsOfItsDir, MemoIsCurrent
      <2>. QED BY <2>1, <2>2, <2>3, <2>4 DEF IInv, InLists
<1>4. ASSUME NEW r \in Req, ForgetPackages(r) PROVE IInv'
      <2> DEFINE q == [Idle EXCEPT !.pc = "dirs", !.kind = req[r].kind]
      <2>1. q \in ReqRec /\ q.pc = "dirs" /\ q.phase = "names"
            <3>1. req[r].kind \in Kind /\ "dirs" \in PC
                  BY <1>0 DEF ReqRec, PC, ScanPC
            <3>. QED BY <1>0, <1>i, <3>1 DEF ReqRec
      <2>2. /\ req[r].pc = "forget" /\ req' = [req EXCEPT ![r] = q] /\ memo' = NoMemo
            /\ UNCHANGED <<setting, files, temps, settings, edits, ever, crashed>>
            BY <1>4 DEF ForgetPackages, At, DropMemo, Set, world
      <2>. HIDE DEF q
      <2>3. /\ req' \in [Req -> ReqRec]
            /\ \A p \in Req : req'[p] = req[p] \/ (p = r /\ req'[p] = q)
            BY <1>0, <2>1, <2>2 DEF TypeOK
      <2>4. r \in temps => crashed
            BY <1>0, <2>2 DEF Sound
      <2>5. crashed' \in BOOLEAN
            BY <1>0, <2>2 DEF TypeOK
      <2>. QED BY <2>1, <2>2, <2>3, <2>4, <2>5, <1>m
<1>5. CASE Expire
      <2>1. memo' = NoMemo /\ req' = req /\ UNCHANGED <<setting, files, temps, settings, edits, ever, crashed>>
            BY <1>5 DEF Expire, world
      <2>2. req \in [Req -> ReqRec] /\ crashed' \in BOOLEAN
            BY <1>0, <2>1 DEF TypeOK
      <2>. QED BY <2>1, <2>2, <1>m
<1>6. CASE Restart
      <2>1. /\ memo' = NoMemo /\ req' = [r \in Req |-> Idle] /\ crashed' = TRUE
            /\ UNCHANGED <<setting, files, temps, settings, edits, ever>>
            BY <1>6 DEF Restart
      <2>2. [r \in Req |-> Idle] \in [Req -> ReqRec]
            BY <1>0
      <2>. QED BY <2>1, <2>2, <1>i, <1>m
<1>7. CASE Configure \/ UNCHANGED vars
      <2>1. UNCHANGED <<files, temps, edits, ever, crashed, memo, req>>
            BY <1>7 DEF Configure, vars, world
      <2>2. setting' \in Setting /\ settings' \in Nat /\ settings' + edits <= MaxOutside
            BY <1>0, <1>7, BoundsAssumption DEF Configure, Quiet, TypeOK, vars, world
      <2>3. TypeOK'
            BY <1>0, <2>1, <2>2 DEF TypeOK
      <2>4. OnDisk'
            BY <1>0, <2>1 DEF OnDisk, NeverHalfWritten, NoTempLeftBehind, ValidatedFirst,
                              RemovalHasItsDir, EverIsComplete, At
      <2>5. InLists'
            BY <1>0, <2>1 DEF InLists, ScanIsOfItsDir, MemoIsOfItsDir, ScanIsCurrent, MemoIsCurrent,
                              HeldOnce, HeldNow, Held, At
      <2>. QED BY <2>3, <2>4, <2>5 DEF IInv
<1>. QED BY <1>1, <1>2, <1>3, <1>4, <1>5, <1>6, <1>7

(* The invariant holds at first, no step breaks it, so it always holds.    *)
LEMMA Invariance == Spec => []IInv
<1>1. Init => IInv
      <2> SUFFICES ASSUME Init PROVE IInv
          OBVIOUS
      <2>1. \A r \in Req : req[r] = Idle
            BY DEF Init
      <2>2. Idle.pc = "idle" /\ Idle.phase = "names"
            BY DEF Idle
      <2>3. TypeOK
            <3>1. crashed \in BOOLEAN /\ memo \in Memo \cup {NoMemo} /\ ever \in [Dir -> SUBSET Name]
                  BY DEF Init
            <3>2. files \in [Dir -> [Name -> {"none", "whole", "half"}]]
                  BY DEF Init
            <3>3. req \in [Req -> ReqRec]
                  BY IdleRecord DEF Init
            <3>4. \A r \in Req : req[r].pc \notin UploadPC \cup {"remove", "forget"}
                  BY <2>1, <2>2 DEF UploadPC
            <3>. QED BY <3>1, <3>2, <3>3, <3>4, BoundsAssumption DEF Init, TypeOK
      <2>4. OnDisk
            BY <2>1, <2>2 DEF Init, OnDisk, NeverHalfWritten, NoTempLeftBehind, ValidatedFirst,
                              RemovalHasItsDir, EverIsComplete, At
      <2>5. InLists
            BY <2>1, <2>2 DEF Init, InLists, ScanIsOfItsDir, MemoIsOfItsDir, ScanIsCurrent,
                              MemoIsCurrent, NoMemo, At
      <2>. QED BY <2>3, <2>4, <2>5 DEF IInv
<1>2. IInv /\ [Next]_vars => IInv'
      BY QuietStepsKeep, FileStepsKeep, OtherStepsKeep DEF Next, Step
<1>. QED BY <1>1, <1>2, PTL DEF Spec

(* Whatever an upload sends, however it ends and whenever the process      *)
(* dies, a package directory holds whole files only, and a temporary file  *)
(* belongs to an upload still running or to a process that died.           *)
THEOREM DiskIsClean == Spec => []DiskStaysClean
<1>1. IInv => DiskStaysClean
      BY DEF IInv, OnDisk, DiskStaysClean
<1>. QED BY <1>1, Invariance, PTL

(* A list names what the directory of its scan has held, and the memo what *)
(* it holds, unless a write is about to forget it, overlapped its scan, or *)
(* went past the plugin.                                                   *)
THEOREM MemoTellsTheTruth == Spec => []MemoSeesAnsweredWrites
<1>1. IInv => MemoSeesAnsweredWrites
      BY DEF IInv, InLists, ScanIsOfItsDir, MemoIsCurrent, MemoSeesAnsweredWrites,
             NamesOfTheRightDir, HeldOnce, HeldNow, At
<1>. QED BY <1>1, Invariance, PTL
=============================================================================
