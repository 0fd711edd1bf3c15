--------------------------- MODULE PostHooksProofs ---------------------------
(***************************************************************************)
(* Proofs about PostHooks, for any configurations, messages, changes of    *)
(* the configuration and edits: a stored stamp is whole and the hook's     *)
(* (StampIsWhole), no edit touches it (StampIsFinal), what card and map    *)
(* page draw still stands (CardTellsTheTruth), and the message comes       *)
(* before the file (TheMessageComesFirst).                                 *)
(*                                                                         *)
(* The inductive invariant says what the hook holds between two stages: a  *)
(* post stripped of every plugin-owned field, and a result that is either  *)
(* nil, when nothing had to be stripped, or that same post; and for each   *)
(* format that the author asked for by name and whose stage has passed,    *)
(* that the author was told.                                               *)
(***************************************************************************)
EXTENDS PostHooks, TLAPS

(* A post without any field this plugin owns.                              *)
Clean(p) == p.type \notin Key /\ p.blobs = NoBlobs

(* From the second stage on the post is clean, and decoratePost's result   *)
(* is that post, or nil when the post is the one that arrived.             *)
BetweenStages ==
    /\ arrived.text = "written"
    /\ pc \in Stages =>
          /\ post.text = "written"
          /\ IF arrived.type \in Key THEN post.type \in {arrived.type, ""}
                                     ELSE post.type = arrived.type
          /\ pc = "cot" => post = arrived /\ result = Nil
          /\ pc # "cot" => Clean(post) /\ post = IF result = Nil THEN arrived ELSE result

(* What a stored post carries, and where it came from.                     *)
StoredIsStamped ==
    IsStored =>
        /\ \A k \in Key : IF post.type = k THEN post.blobs[k] \in {"message", "file"}
                                           ELSE post.blobs[k] = "none"
        /\ \A k \in Key : post.blobs[k] = "file" => k \in {"cot", "geojson"}
        /\ post.type = "airfields" => post.text \in {"linked", "edited"}

(* A format that is on, and that the author asked for by name.             *)
Asked(f) ==
    /\ changes = 0 /\ ~panicked
    /\ Labeled(f) /\ Enabled(f) /\ InMessage(f) /\ (message.reads => Wanted(f))
    /\ arrived.type \notin {"other", "system"}

\* The stages that come after f's.
Later(f) == CASE f = "cot"      -> {"geojson", "avreport", "decorate"}
              [] f = "geojson"  -> {"avreport", "decorate"}
              [] f = "avreport" -> {"decorate"}

(* Its stage is over, and it is not what the post has become.              *)
NotGranted(f) == pc \in Later(f) \/ (IsStored /\ edits = 0 /\ post.type # f)

RefusalsToldSoFar == \A f \in Document : Asked(f) /\ NotGranted(f) => f \in told

IInv ==
    /\ TypeOK
    /\ BetweenStages
    /\ StoredIsStamped
    /\ RenderedMessageWins
    /\ RefusalsToldSoFar

-----------------------------------------------------------------------------
(* The fields of a post, and that a clean one has no plugin-owned field.   *)
LEMMA Posts ==
    ASSUME NEW p \in Post
    PROVE  /\ p.type \in Type /\ p.text \in Text /\ p.blobs \in [Key -> Blob]
           /\ \A t \in Type : [p EXCEPT !.type = t] \in Post
           /\ \A x \in Text : [p EXCEPT !.text = x] \in Post
           /\ NoBlobs \in [Key -> Blob]
BY DEF Post, NoBlobs, Blob

(* stripStampedTypes leaves a clean post; it answers nil only for one that *)
(* is clean already.                                                       *)
LEMMA Strip ==
    ASSUME NEW p \in Post, NEW q,
           q = IF StripStampedTypes(p) # Nil THEN StripStampedTypes(p) ELSE p
    PROVE  /\ q \in Post /\ Clean(q) /\ q.text = p.text
           /\ q.type = IF p.type \in Key THEN "" ELSE p.type
           /\ StripStampedTypes(p) \in {q, Nil}
           /\ StripStampedTypes(p) = Nil <=> Clean(p)
           /\ Clean(p) => q = p
<1> DEFINE s == [p EXCEPT !.type = IF @ \in Key THEN "" ELSE @, !.blobs = NoBlobs]
<1>1. /\ s \in Post /\ s.type = (IF p.type \in Key THEN "" ELSE p.type)
      /\ s.blobs = NoBlobs /\ s.text = p.text
      BY Posts DEF Post, Type
<1>2. "" \notin Key
      BY DEF Key, Document
<1>3. Clean(s)
      BY <1>1, <1>2 DEF Clean
<1>4. StripStampedTypes(p) = IF Clean(p) THEN Nil ELSE s
      BY DEF StripStampedTypes, Clean
<1>5. s # Nil
      BY <1>1, NilAssumption
<1>. HIDE DEF s
<1>6. CASE Clean(p)
      BY <1>4, <1>6 DEF Clean
<1>7. CASE ~Clean(p)
      BY <1>1, <1>3, <1>4, <1>5, <1>7
<1>. QED BY <1>6, <1>7

(* A commit to a clean post is of one type, and has that prop alone.       *)
LEMMA Committed ==
    ASSUME NEW p \in Post, Clean(p), NEW k \in Key, NEW b \in Blob
    PROVE  LET q == Commit(p, k, b)
           IN  /\ q \in Post /\ q.type = k /\ q.text = p.text
               /\ \A j \in Key : q.blobs[j] = IF j = k THEN b ELSE "none"
<1>1. p.blobs = NoBlobs /\ p.blobs \in [Key -> Blob]
      BY Posts DEF Clean
<1>2. [p.blobs EXCEPT ![k] = b] \in [Key -> Blob]
      BY <1>1
<1>3. k \in Type
      BY DEF Type
<1>4. Commit(p, k, b) = [p EXCEPT !.type = k, !.blobs = [p.blobs EXCEPT ![k] = b]]
      BY DEF Commit, Post
<1>5. /\ Commit(p, k, b) \in Post /\ Commit(p, k, b).type = k /\ Commit(p, k, b).text = p.text
      /\ Commit(p, k, b).blobs = [p.blobs EXCEPT ![k] = b]
      BY <1>2, <1>3, <1>4 DEF Post
<1>. QED BY <1>1, <1>5 DEF NoBlobs

(* What a recognizer may answer: a stamp made from the source it found, a  *)
(* table in place of the message, or a refusal; and of a format that the   *)
(* author asked for it stamps the message or tells of the refusal.         *)
LEMMA Recognized ==
    ASSUME NEW f \in Document, NEW p, NEW a \in Recognize(f, p)
    PROVE  /\ a.told \subseteq {f}
           /\ a.ok => \/ a.post = Commit(p, f, "message") /\ InMessage(f)
                      \/ a.post = Commit(p, f, "file") /\ InFile(f) /\ ~Asked(f)
                      \/ a.post = [p EXCEPT !.text = "expanded"] /\ PrefersTable(f) /\ ~Asked(f)
           /\ a.ok \in BOOLEAN
           /\ ~a.ok /\ Asked(f) => f \in a.told
<1> DEFINE refused == a.ok = FALSE /\ a.told = Tell(f)
           silent  == a.ok = FALSE /\ a.told = {}
           stamped == /\ a.ok = TRUE /\ a.told = {}
                      /\ a.post = Commit(p, f, IF InMessage(f) THEN "message" ELSE "file")
           table   == a.ok = TRUE /\ a.told = {} /\ a.post = [p EXCEPT !.text = "expanded"]
<1>1. Asked(f) => InMessage(f) /\ Labeled(f) /\ HasCard(f) /\ ~PrefersTable(f)
      BY DEF Asked, HasCard, PrefersTable, InMessage, Labeled, AvReportSurface, SingleLineRestriction,
             Document
<1>2. InFile(f) => ~InMessage(f)
      BY DEF InFile
<1>3. Asked(f) /\ Reads(f) => Wanted(f)
      BY <1>1 DEF Asked, Reads
<1>4. \/ refused
      \/ silent /\ ~Asked(f)
      \/ stamped /\ (InMessage(f) \/ InFile(f))
      \/ table /\ PrefersTable(f)
      <2> DEFINE cards == [ok |-> TRUE, told |-> {},
                           post |-> Commit(p, f, IF InMessage(f) THEN "message" ELSE "file")]
                 refusal == [ok |-> FALSE, post |-> Nil, told |-> Tell(f)]
                 silence == [ok |-> FALSE, post |-> Nil, told |-> {}]
                 tables  == [ok |-> TRUE, told |-> {}, post |-> [p EXCEPT !.text = "expanded"]]
      <2>0. /\ a = refusal => refused
            /\ a = silence => silent
            /\ a = cards => stamped
            /\ a = tables => table
            OBVIOUS
      <2>. HIDE DEF refused, silent, stamped, table
      <2>1. CASE ~InMessage(f) /\ ~InFile(f)
            <3>1. Recognize(f, p) = {silence}
                  BY <2>1 DEF Recognize
            <3>. QED BY <1>1, <2>0, <2>1, <3>1
      <2>2. CASE InMessage(f) /\ ~Reads(f)
            <3>1. Recognize(f, p) = {refusal}
                  BY <1>2, <2>2 DEF Recognize
            <3>. QED BY <2>0, <3>1
      <2>3. CASE InFile(f)
            <3>1. Recognize(f, p) \subseteq {silence, cards, refusal}
                  BY <1>2, <2>3 DEF Recognize
            <3>2. ~Asked(f)
                  BY <1>1, <1>2, <2>3
            <3>. QED BY <2>0, <2>3, <3>1, <3>2
      <2>4. CASE InMessage(f) /\ Reads(f)
            <3>1. CASE ~Wanted(f)
                  <4>1. Recognize(f, p) = {silence}
                        BY <1>2, <2>4, <3>1 DEF Recognize
                  <4>. QED BY <1>3, <2>0, <2>4, <3>1, <4>1
            <3>2. CASE Wanted(f)
                  <4>1. CASE PrefersTable(f)
                        <5>1. Recognize(f, p) = {tables} \cup (IF HasCard(f) THEN {cards, refusal} ELSE {silence})
                              BY <1>2, <2>4, <3>2, <4>1 DEF Recognize
                        <5>. QED BY <1>1, <2>0, <2>4, <4>1, <5>1
                  <4>2. CASE ~PrefersTable(f)
                        <5>1. Recognize(f, p) = IF HasCard(f) THEN {cards, refusal} ELSE {silence}
                              BY <1>2, <2>4, <3>2, <4>2 DEF Recognize
                        <5>. QED BY <1>1, <2>0, <2>4, <5>1
                  <4>. QED BY <4>1, <4>2
            <3>. QED BY <3>1, <3>2
      <2>. QED BY <2>1, <2>2, <2>3, <2>4
<1>5. CASE refused
      BY <1>1, <1>5 DEF Tell
<1>6. CASE silent /\ ~Asked(f)
      BY <1>6
<1>7. CASE stamped /\ (InMessage(f) \/ InFile(f))
      BY <1>1, <1>2, <1>7
<1>8. CASE table /\ PrefersTable(f)
      BY <1>1, <1>8
<1>. QED BY <1>4, <1>5, <1>6, <1>7, <1>8

(* The author of a labeled fence asks for one format, and neither another  *)
(* format's message nor a file gets in before it.                          *)
LEMMA OnlyOneIsAsked ==
    ASSUME NEW f \in Document, NEW g \in Document, Asked(g), f # g
    PROVE  ~InMessage(f) /\ (g \in Later(f) => ~InFile(f))
<1>1. ~InMessage(f)
      BY DEF Asked, Labeled, InMessage, GeoJSONInMessage, AvReportInMessage, SingleLineRestriction, Document
<1>2. ASSUME f = "cot", g = "geojson" PROVE ~InFile(f)
      BY <1>2 DEF Asked, Labeled, Enabled, InMessage, InFile, CotFileSource, MessageShowsGeoJSON
<1>3. ASSUME g = "avreport" PROVE ~InFile(f)
      <2>1. MessageShowsAvReport
            BY <1>3 DEF Asked, Labeled, InMessage, Wanted, MessageShowsAvReport, AvReportInMessage,
                        AvReportSurface, SingleLineRestriction
      <2>. QED BY <2>1, <1>3 DEF InFile, CotFileSource, GeoJSONFileSource, Document
<1>4. g \in Later(f) => g = "avreport" \/ (f = "cot" /\ g = "geojson")
      BY DEF Later, Document
<1>. QED BY <1>1, <1>2, <1>3, <1>4

(* A file is taken only when the message shows no document to be drawn.    *)
LEMMA FileComesLast ==
    ASSUME NEW f \in Document, InFile(f)
    PROVE  /\ f \in {"cot", "geojson"}
           /\ ~VisibleDocument \/ message.shape = "one-line restriction"
<1>1. f \in {"cot", "geojson"} /\ ~InMessage(f) /\ ~MessageShowsAvReport
      BY DEF InFile, Document, CotFileSource, GeoJSONFileSource
<1>2. ~(Enabled("geojson") /\ InMessage("geojson") /\ message.reads)
      BY <1>1 DEF InFile, Document, CotFileSource, MessageShowsGeoJSON, Enabled, InMessage
<1>3. /\ Enabled("avreport") /\ InMessage("avreport") /\ message.reads /\ Wanted("avreport")
      => message.shape = "one-line restriction"
      BY <1>1 DEF InMessage, MessageShowsAvReport, Wanted, SingleLineRestriction
<1>4. Document \ {"cot"} = {"geojson", "avreport"}
      BY DEF Document
<1>. QED BY <1>1, <1>2, <1>3, <1>4 DEF VisibleDocument

(* A stage keeps the invariant: it stores a stamp, or carries a clean post *)
(* on.                                                                     *)
LEMMA StamperKeeps ==
    ASSUME IInv, NEW f \in Document, RunStamper(f)
    PROVE  IInv'
<1> DEFINE s == StripStampedTypes(post)
           p == IF s # Nil THEN s ELSE post
<1>0. /\ TypeOK /\ BetweenStages /\ RefusalsToldSoFar
      /\ pc = f /\ f \in Stages /\ post \in Post
      /\ UNCHANGED <<config, message, file, arrived, attached, changes, edits>>
      BY DEF IInv, TypeOK, RunStamper, input, Stages, Document
<1>1. /\ p \in Post /\ Clean(p) /\ p.text = "written"
      /\ p.type = IF post.type \in Key THEN "" ELSE post.type
      /\ s \in {p, Nil} /\ (s = Nil <=> Clean(post)) /\ (Clean(post) => p = post)
      BY <1>0, Strip DEF BetweenStages
<1>. HIDE DEF s, p
<1>2. p.type = IF arrived.type \in Key THEN "" ELSE arrived.type
      BY <1>0, <1>1 DEF BetweenStages, Key, Document
<1>3. p = IF s # Nil THEN s ELSE IF result = Nil THEN arrived ELSE result
      BY <1>0, <1>1 DEF BetweenStages
<1>a. ASSUME NEW g \in Document, Asked(g)', panicked => panicked' PROVE Asked(g)
      BY <1>a, <1>0 DEF Asked, Labeled, Enabled, InMessage, Wanted, CotEnabled, GeoJSONEnabled,
         AvReportRenders, GeoJSONInMessage, GeoJSONUnlabeled, AvReportInMessage, AvReportSurface,
         SingleLineRestriction, On
<1>b. ASSUME NEW g \in Document, Asked(g) PROVE Enabled(g) /\ p.type = ""
      BY <1>b, <1>0, <1>2 DEF Asked, TypeOK, Post, Type
<1>4. ASSUME CarryOn(f, s), told \subseteq told', told' \subseteq Document, panicked' \in BOOLEAN,
             Asked(f)' => f \in told', panicked => panicked'
      PROVE  IInv'
      <2>1. /\ pc' = After(f) /\ post' = p /\ result' = (IF s # Nil THEN s ELSE result)
            /\ pc' \in Stages /\ pc' # "cot" /\ pc' # "stored"
            BY <1>4 DEF CarryOn, After, Stages, Document, p
      <2>2. TypeOK'
            BY <1>0, <1>1, <1>4, <2>1 DEF TypeOK
      <2>3. BetweenStages'
            <3>1. IF arrived.type \in Key THEN p.type \in {arrived.type, ""} ELSE p.type = arrived.type
                  BY <1>2
            <3>2. p = IF result' = Nil THEN arrived ELSE result'
                  BY <1>3, <1>1, <2>1, NilAssumption
            <3>. QED BY <1>0, <1>1, <2>1, <3>1, <3>2 DEF BetweenStages, Clean
      <2>4. (StoredIsStamped /\ RenderedMessageWins)'
            BY <2>1 DEF StoredIsStamped, RenderedMessageWins, FileWon, IsStored
      <2>5. RefusalsToldSoFar'
            <3>1. ASSUME NEW g \in Document, Asked(g)', NotGranted(g)' PROVE g \in told'
                  <4>1. g = f \/ pc \in Later(g)
                        BY <3>1, <1>0, <2>1 DEF NotGranted, IsStored, Later, After, Document
                  <4>2. Asked(g)
                        BY <3>1, <1>4, <1>a
                  <4>. QED BY <1>0, <1>4, <3>1, <4>1, <4>2 DEF RefusalsToldSoFar, NotGranted
            <3>. QED BY <3>1 DEF RefusalsToldSoFar
      <2>. QED BY <2>2, <2>3, <2>4, <2>5 DEF IInv
<1>5. CASE ~(Enabled(f) /\ Stampable(p)) /\ CarryOn(f, s) /\ UNCHANGED <<told, panicked>>
      <2>1. ~Asked(f)'
            BY <1>5, <1>a, <1>b DEF Stampable
      <2>. QED BY <1>0, <1>4, <1>5, <2>1 DEF TypeOK
<1>6. CASE panicked' = TRUE /\ CarryOn(f, s) /\ UNCHANGED told
      <2>1. ~Asked(f)'
            BY <1>6 DEF Asked
      <2>. QED BY <1>0, <1>4, <1>6, <2>1 DEF TypeOK
<1>7. ASSUME NEW a \in Recognize(f, p), told' = told \cup a.told, panicked' = panicked,
             ~a.ok, CarryOn(f, s)
      PROVE  IInv'
      <2>1. a.told \subseteq {f} /\ (Asked(f) => f \in a.told)
            BY <1>7, Recognized
      <2>2. Asked(f)' => f \in told'
            BY <1>7, <1>a, <2>1
      <2>3. told \subseteq told' /\ told' \subseteq Document /\ panicked' \in BOOLEAN
            BY <1>0, <1>7, <2>1 DEF TypeOK
      <2>. QED BY <1>4, <1>7, <2>2, <2>3
<1>8. ASSUME NEW a \in Recognize(f, p), told' = told \cup a.told, panicked' = panicked,
             a.ok, pc' = "stored", post' = a.post, result' = result
      PROVE  IInv'
      <2>1. /\ a.told \subseteq {f}
            /\ \/ post' = Commit(p, f, "message") /\ InMessage(f)
               \/ post' = Commit(p, f, "file") /\ InFile(f) /\ ~Asked(f)
               \/ post' = [p EXCEPT !.text = "expanded"] /\ PrefersTable(f) /\ ~Asked(f)
            BY <1>8, Recognized
      <2>2. ASSUME NEW b \in {"message", "file"}, post' = Commit(p, f, b)
            PROVE  /\ post' \in Post /\ post'.type = f /\ post'.text = "written"
                   /\ \A j \in Key : post'.blobs[j] = IF j = f THEN b ELSE "none"
            <3>1. f \in Key /\ b \in Blob
                  BY DEF Key, Blob
            <3>2. p \in Post /\ Clean(p)
                  BY <1>1
            <3>3. LET q == Commit(p, f, b)
                  IN  /\ q \in Post /\ q.type = f /\ q.text = p.text
                      /\ \A j \in Key : q.blobs[j] = IF j = f THEN b ELSE "none"
                  BY <3>1, <3>2, Committed
            <3>. QED BY <1>1, <2>2, <3>3
      <2>3. ASSUME post' = [p EXCEPT !.text = "expanded"]
            PROVE  /\ post' \in Post /\ post'.type = p.type /\ post'.text = "expanded"
                   /\ \A j \in Key : post'.blobs[j] = "none"
            BY <1>1, <2>3 DEF Post, Text, Clean, NoBlobs
      <2>4. TypeOK'
            <3>1. post' \in Post
                  BY <2>1, <2>2, <2>3
            <3>2. told' \subseteq Document /\ panicked' \in BOOLEAN /\ result' \in Post \cup {Nil}
                  BY <1>0, <1>8, <2>1 DEF TypeOK
            <3>. QED BY <1>0, <1>8, <3>1, <3>2 DEF TypeOK
      <2>5. BetweenStages'
            BY <1>0, <1>8 DEF BetweenStages, Stages
      <2>6. StoredIsStamped'
            <3>1. CASE post' = Commit(p, f, "message")
                  BY <2>2, <3>1 DEF StoredIsStamped, Key, Document
            <3>2. CASE post' = Commit(p, f, "file") /\ InFile(f)
                  BY <2>2, <3>2, FileComesLast DEF StoredIsStamped, Key, Document
            <3>3. CASE post' = [p EXCEPT !.text = "expanded"]
                  BY <1>1, <2>3, <3>3 DEF StoredIsStamped, Clean, Key
            <3>. QED BY <2>1, <3>1, <3>2, <3>3
      <2>7. RenderedMessageWins'
            <3>1. ASSUME FileWon' PROVE InFile(f)
                  BY <1>1, <2>1, <2>2, <2>3, <3>1 DEF FileWon, Clean, Key, Document
            <3>2. VisibleDocument' => VisibleDocument
                  BY <1>0 DEF VisibleDocument, Enabled, InMessage, Wanted, CotEnabled, GeoJSONEnabled,
                     AvReportRenders, GeoJSONInMessage, GeoJSONUnlabeled, AvReportInMessage,
                     AvReportSurface, SingleLineRestriction, On
            <3>. QED BY <1>0, <3>1, <3>2, FileComesLast DEF RenderedMessageWins
      <2>8. RefusalsToldSoFar'
            <3>1. ASSUME NEW g \in Document, Asked(g)', NotGranted(g)' PROVE g \in told'
                  <4>1. Asked(g)
                        BY <3>1, <1>8, <1>a
                  <4>2. post'.type # g
                        BY <3>1, <1>8 DEF NotGranted, Later, IsStored, Document
                  <4>3. f # g
                        BY <2>1, <2>2, <4>1, <4>2
                  <4>4. ~InMessage(f) /\ (g \in Later(f) => ~InFile(f))
                        BY <4>1, <4>3, OnlyOneIsAsked
                  <4>5. g \notin Later(f)
                        BY <2>1, <4>4 DEF PrefersTable, Later, Document
                  <4>6. pc \in Later(g)
                        BY <1>0, <4>3, <4>5 DEF Later, Document
                  <4>. QED BY <1>0, <1>8, <4>1, <4>6 DEF RefusalsToldSoFar, NotGranted
            <3>. QED BY <3>1 DEF RefusalsToldSoFar
      <2>. QED BY <2>4, <2>5, <2>6, <2>7, <2>8 DEF IInv
<1>9. \/ ~(Enabled(f) /\ Stampable(p)) /\ CarryOn(f, s) /\ UNCHANGED <<told, panicked>>
      \/ \E a \in Recognize(f, p) :
            /\ told' = told \cup a.told /\ panicked' = panicked
            /\ \/ a.ok /\ pc' = "stored" /\ post' = a.post /\ UNCHANGED result
               \/ ~a.ok /\ CarryOn(f, s)
      \/ panicked' = TRUE /\ CarryOn(f, s) /\ UNCHANGED told
      BY DEF RunStamper, s, p
<1>. QED BY <1>5, <1>6, <1>7, <1>8, <1>9

(* The end of the hook: what is stored is the clean post, or what the      *)
(* decoration made of it.                                                  *)
LEMMA DecorateKeeps ==
    ASSUME IInv, Decorate
    PROVE  IInv'
<1>0. /\ TypeOK /\ BetweenStages /\ RefusalsToldSoFar
      /\ pc = "decorate" /\ pc' = "stored" /\ post \in Post /\ Clean(post) /\ post.text = "written"
      /\ UNCHANGED <<config, message, file, arrived, attached, result, told, panicked, changes, edits>>
      BY DEF IInv, TypeOK, Decorate, input, BetweenStages, Stages
<1>1. PICK d \in DecorateMessage(post) : post' = Stored(Answer(d))
      BY DEF Decorate
<1> DEFINE linked == [post EXCEPT !.text = "linked"]
           Links(q) == q = linked \/ \E k \in {"location", "airfields"} : q = Commit(linked, k, "message")
<1>2. \/ d = Nil
      \/ Links(d)
      \/ d = [post EXCEPT !.text = "expanded"]
      BY <1>1 DEF DecorateMessage, StampDecoratedPost, StampStandalonePost
<1>3. /\ linked \in Post /\ Clean(linked) /\ linked.text = "linked"
      BY <1>0 DEF Post, Text, Clean
<1>. HIDE DEF linked
<1>4. ASSUME Links(d)
      PROVE  /\ post' \in Post /\ post'.text = "linked"
             /\ \A k \in Key : IF post'.type = k THEN post'.blobs[k] = "message" ELSE post'.blobs[k] = "none"
      <2>1. CASE d = linked
            <3>1. d # Nil
                  BY <2>1, <1>3, NilAssumption
            <3>2. post' = linked
                  BY <1>1, <2>1, <3>1 DEF Stored, Answer
            <3>. QED BY <1>3, <3>2 DEF Clean, NoBlobs
      <2>2. ASSUME NEW k \in {"location", "airfields"}, d = Commit(linked, k, "message")
            PROVE  /\ post' \in Post /\ post'.text = "linked"
                   /\ \A j \in Key : IF post'.type = j THEN post'.blobs[j] = "message" ELSE post'.blobs[j] = "none"
            <3>1. k \in Key /\ "message" \in Blob
                  BY DEF Key, Blob
            <3>2. LET q == Commit(linked, k, "message")
                  IN  /\ q \in Post /\ q.type = k /\ q.text = linked.text
                      /\ \A j \in Key : q.blobs[j] = IF j = k THEN "message" ELSE "none"
                  BY <1>3, <3>1, Committed
            <3>3. d # Nil
                  BY <2>2, <3>2, NilAssumption
            <3>4. post' = Commit(linked, k, "message")
                  BY <1>1, <2>2, <3>3 DEF Stored, Answer
            <3>. QED BY <1>3, <3>2, <3>4
      <2>. QED BY <1>4, <2>1, <2>2
<1>5. ASSUME d = [post EXCEPT !.text = "expanded"]
      PROVE  post' \in Post /\ Clean(post')
      <2>1. d \in Post /\ Clean(d)
            BY <1>0, <1>5 DEF Post, Text, Clean
      <2>2. d # Nil
            BY <2>1, NilAssumption
      <2>. QED BY <1>1, <2>1, <2>2 DEF Stored, Answer
<1>6. ASSUME d = Nil
      PROVE  post' \in Post /\ Clean(post')
      <2>1. post' = post
            BY <1>0, <1>1, <1>6 DEF Stored, Answer, BetweenStages, Stages
      <2>. QED BY <1>0, <2>1
<1>7. ASSUME Clean(post') PROVE \A k \in Key : post'.type # k /\ post'.blobs[k] = "none"
      BY <1>7 DEF Clean, NoBlobs
<1>8. TypeOK'
      <2>1. post' \in Post
            BY <1>2, <1>4, <1>5, <1>6
      <2>. QED BY <1>0, <2>1 DEF TypeOK
<1>9. BetweenStages'
      BY <1>0 DEF BetweenStages, Stages
<1>10. StoredIsStamped'
      <2>1. CASE Links(d)
            <3>1. \A k \in Key : post'.blobs[k] # "file"
                  BY <1>4, <2>1
            <3>. QED BY <1>4, <2>1, <3>1 DEF StoredIsStamped
      <2>2. CASE Clean(post')
            <3>1. "airfields" \in Key
                  BY DEF Key
            <3>. QED BY <1>7, <2>2, <3>1 DEF StoredIsStamped
      <2>. QED BY <1>2, <1>5, <1>6, <2>1, <2>2
<1>11. RenderedMessageWins'
      <2>1. CASE Links(d)
            BY <1>4, <2>1 DEF RenderedMessageWins, FileWon, Key
      <2>2. CASE Clean(post')
            BY <1>7, <2>2 DEF RenderedMessageWins, FileWon, Key
      <2>. QED BY <1>2, <1>5, <1>6, <2>1, <2>2
<1>12. RefusalsToldSoFar'
      <2>1. ASSUME NEW g \in Document, Asked(g)' PROVE g \in told'
            <3>1. Asked(g)
                  BY <2>1, <1>0 DEF Asked, Labeled, Enabled, InMessage, Wanted, CotEnabled,
                     GeoJSONEnabled, AvReportRenders, GeoJSONInMessage, GeoJSONUnlabeled,
                     AvReportInMessage, AvReportSurface, SingleLineRestriction, On
            <3>2. NotGranted(g)
                  BY <1>0 DEF NotGranted, Later, Document
            <3>. QED BY <1>0, <3>1, <3>2 DEF RefusalsToldSoFar
      <2>. QED BY <2>1 DEF RefusalsToldSoFar
<1>. QED BY <1>8, <1>9, <1>10, <1>11, <1>12 DEF IInv

(* keepPluginOwnedFields keeps every prop, and the type of a stamp.        *)
LEMMA EditKeepsTheStamp ==
    ASSUME TypeOK, MessageWillBeUpdated
    PROVE  /\ post' \in Post /\ post'.blobs = post.blobs
           /\ post'.text \in {post.text, "edited"}
           /\ post'.type \in Key \/ post.type \in Key => post'.type = post.type
<1>1. PICK new \in Proposed \cup {[post EXCEPT !.text = "edited"]} :
         post' = KeepPluginOwnedFields(new, post)
      BY DEF MessageWillBeUpdated
<1>2. post \in Post /\ post.type \in Type /\ post.text \in Text /\ post.blobs \in [Key -> Blob]
      BY Posts DEF TypeOK
<1>3. new \in Post /\ new.text \in {post.text, "edited"}
      <2>1. CASE new \in Proposed
            BY <1>2, <2>1 DEF Proposed, Post, Text, Blob
      <2>2. CASE new = [post EXCEPT !.text = "edited"]
            BY <1>2, <2>2 DEF Post, Text
      <2>. QED BY <2>1, <2>2
<1>4. new.type \in Type /\ new.text \in Text /\ new.blobs \in [Key -> Blob]
      BY <1>3, Posts
<1>5. \A k \in Key : KeptBlob(post.blobs[k], new.blobs[k]) = post.blobs[k]
      BY <1>2, <1>4 DEF KeptBlob
<1>6. [k \in Key |-> KeptBlob(post.blobs[k], new.blobs[k])] = post.blobs
      BY <1>2, <1>5
<1>7. post' = [new EXCEPT !.type = KeptType(post, new), !.blobs = post.blobs]
      BY <1>1, <1>6 DEF KeepPluginOwnedFields
<1>8. KeptType(post, new) \in Type
      BY <1>2, <1>4 DEF KeptType
<1>9. /\ post' \in Post /\ post'.blobs = post.blobs /\ post'.text = new.text
      /\ post'.type = KeptType(post, new)
      BY <1>2, <1>3, <1>4, <1>7, <1>8 DEF Post
<1>. QED BY <1>3, <1>9 DEF KeptType

(* What comes after the hook, or beside it.                                *)
LEMMA OthersKeep ==
    ASSUME IInv, MessageWillBeUpdated \/ Detach \/ SetConfiguration \/ UNCHANGED vars
    PROVE  IInv'
<1>0. TypeOK /\ BetweenStages /\ StoredIsStamped /\ RenderedMessageWins /\ RefusalsToldSoFar
      BY DEF IInv
<1>s. ASSUME UNCHANGED <<config, message>> PROVE VisibleDocument' => VisibleDocument
      BY <1>s DEF VisibleDocument, Enabled, InMessage, Wanted, CotEnabled, GeoJSONEnabled,
         AvReportRenders, GeoJSONInMessage, GeoJSONUnlabeled, AvReportInMessage, AvReportSurface,
         SingleLineRestriction, On
<1>1. CASE MessageWillBeUpdated
      <2>1. /\ pc = "stored" /\ edits < MaxEdits /\ edits' = edits + 1
            /\ UNCHANGED <<config, message, file, arrived, attached, pc, result, told, panicked, changes>>
            BY <1>1 DEF MessageWillBeUpdated, input
      <2>2. /\ post' \in Post /\ post'.blobs = post.blobs
            /\ post'.text \in {post.text, "edited"}
            /\ post'.type \in Key \/ post.type \in Key => post'.type = post.type
            BY <1>0, <1>1, EditKeepsTheStamp
      <2>3. TypeOK'
            BY <1>0, <2>1, <2>2, BoundsAssumption DEF TypeOK
      <2>4. BetweenStages'
            BY <1>0, <2>1 DEF BetweenStages, Stages
      <2>5. StoredIsStamped'
            <3>1. \A k \in Key : post'.type = k <=> post.type = k
                  BY <2>2
            <3>. QED BY <1>0, <2>1, <2>2, <3>1 DEF StoredIsStamped, IsStored, Key
      <2>6. RenderedMessageWins'
            BY <1>0, <1>s, <2>1, <2>2 DEF RenderedMessageWins, FileWon, IsStored, Key
      <2>7. RefusalsToldSoFar'
            <3>1. edits' # 0
                  BY <1>0, <2>1 DEF TypeOK
            <3>. QED BY <2>1, <3>1 DEF RefusalsToldSoFar, NotGranted, Later, Document
      <2>. QED BY <2>3, <2>4, <2>5, <2>6, <2>7 DEF IInv
<1>2. CASE Detach \/ UNCHANGED vars
      <2>1. /\ UNCHANGED <<config, message, file, arrived, pc, post, result, told, panicked, changes, edits>>
            BY <1>2 DEF Detach, vars, input
      <2>2. attached' \in BOOLEAN
            BY <1>0, <1>2 DEF Detach, vars, TypeOK
      <2>3. TypeOK'
            BY <1>0, <2>1, <2>2 DEF TypeOK
      <2>4. (BetweenStages /\ StoredIsStamped)'
            BY <1>0, <2>1 DEF BetweenStages, Clean, StoredIsStamped, IsStored
      <2>5. RenderedMessageWins'
            BY <1>0, <1>s, <2>1 DEF RenderedMessageWins, FileWon, IsStored
      <2>6. RefusalsToldSoFar'
            BY <1>0, <2>1 DEF RefusalsToldSoFar, NotGranted, IsStored, Asked, Labeled, Enabled,
               InMessage, Wanted, CotEnabled, GeoJSONEnabled, AvReportRenders, GeoJSONInMessage,
               GeoJSONUnlabeled, AvReportInMessage, AvReportSurface, SingleLineRestriction, On
      <2>. QED BY <2>3, <2>4, <2>5, <2>6 DEF IInv
<1>3. CASE SetConfiguration
      <2>1. /\ changes < MaxChanges /\ pc # "stored" /\ changes' = changes + 1 /\ config' \in Settings
            /\ UNCHANGED <<message, file, arrived, attached, pc, post, result, told, panicked, edits>>
            BY <1>3 DEF SetConfiguration, input
      <2>2. TypeOK'
            BY <1>0, <2>1, BoundsAssumption DEF TypeOK
      <2>3. (BetweenStages /\ StoredIsStamped /\ RenderedMessageWins)'
            BY <1>0, <2>1 DEF BetweenStages, Clean, StoredIsStamped, IsStored, RenderedMessageWins, FileWon
      <2>4. RefusalsToldSoFar'
            <3>1. changes' # 0
                  BY <1>0, <2>1 DEF TypeOK
            <3>. QED BY <3>1 DEF RefusalsToldSoFar, Asked
      <2>. QED BY <2>2, <2>3, <2>4 DEF IInv
<1>. QED BY <1>1, <1>2, <1>3

(* The invariant holds at first, no step breaks it, so it always holds.    *)
LEMMA Invariance == Spec => []IInv
<1>1. Init => IInv
      <2> SUFFICES ASSUME Init PROVE IInv
          OBVIOUS
      <2>1. arrived \in Post /\ arrived.text = "written" /\ arrived.type \in Type
            <3>1. arrived \in [type : Type, blobs : [Key -> Blob], text : Text] /\ arrived.text = "written"
                  BY DEF Init, Arriving, NoBlobs, Blob, Text
            <3>. QED BY <3>1 DEF Post
      <2>2. pc = "cot" /\ post = arrived /\ result = Nil
            BY DEF Init
      <2>3. TypeOK
            <3>1. attached \in BOOLEAN /\ panicked \in BOOLEAN
                  BY DEF Init
            <3>. QED BY <2>1, <2>2, <3>1, BoundsAssumption DEF Init, TypeOK, Stages
      <2>4. BetweenStages
            BY <2>1, <2>2 DEF BetweenStages
      <2>5. StoredIsStamped /\ RenderedMessageWins
            BY <2>2 DEF StoredIsStamped, RenderedMessageWins, FileWon, IsStored
      <2>6. RefusalsToldSoFar
            BY <2>2 DEF RefusalsToldSoFar, NotGranted, Later, IsStored, Document
      <2>. QED BY <2>3, <2>4, <2>5, <2>6 DEF IInv
<1>2. IInv /\ [Next]_vars => IInv'
      BY StamperKeeps, DecorateKeeps, OthersKeep DEF Next
<1>. QED BY <1>1, <1>2, PTL DEF Spec

(* Whatever the author forged, and whichever stage was off or panicked, a  *)
(* stored post of a plugin type carries that type's prop as the hook wrote *)
(* it, and no stored post carries another.                                 *)
THEOREM StampsAreWhole == Spec => []StampIsWhole
<1>1. IInv => StampIsWhole
      BY DEF IInv, StampIsWhole, StoredIsStamped
<1>. QED BY <1>1, Invariance, PTL

(* No edit adds, replaces or removes a stamp.                              *)
THEOREM StampsAreFinal == Spec => StampIsFinal
<1>1. ASSUME IInv, [Next]_vars, IsStored
      PROVE  /\ post'.blobs = post.blobs
             /\ post'.type \in Key \/ post.type \in Key => post'.type = post.type
      <2>1. CASE MessageWillBeUpdated
            BY <1>1, <2>1, EditKeepsTheStamp DEF IInv
      <2>2. CASE ~MessageWillBeUpdated
            <3>1. post' = post
                  BY <1>1, <2>2 DEF Next, RunStamper, Decorate, Detach, SetConfiguration, vars, IsStored, Document
            <3>. QED BY <3>1
      <2>. QED BY <2>1, <2>2
<1>2. IInv /\ [Next]_vars =>
      [IsStored => /\ post'.blobs = post.blobs
                   /\ (post'.type \in Key \/ post.type \in Key) => post'.type = post.type]_vars
      BY <1>1
<1>. QED BY <1>2, Invariance, PTL DEF Spec, StampIsFinal

(* A card that a reader is shown was written by the hook, from a message   *)
(* that has not changed or a file that is still there, and the map page    *)
(* shows no more than the card.                                            *)
THEOREM CardsTellTheTruth == Spec => []CardTellsTheTruth
<1>1. ASSUME IInv PROVE WhatIsDrawnStands
      <2>1. ASSUME IsStored, BodyDraws
            PROVE  \/ post.blobs[post.type] = "message" /\ post.text # "edited"
                   \/ post.blobs[post.type] = "file" /\ attached
            BY <1>1, <2>1 DEF IInv, StoredIsStamped, BodyDraws, DocumentBodyDraws,
               AirfieldsBodyDraws, DecoratorBodyDraws, Key, Document
      <2>. QED BY <2>1 DEF WhatIsDrawnStands
<1>2. ASSUME IInv PROVE MapPageAgrees
      BY <1>2 DEF IInv, StoredIsStamped, MapPageAgrees, OverlayForPost, BodyDraws,
         DocumentBodyDraws, AirfieldsBodyDraws, Key, Document
<1>3. IInv => CardTellsTheTruth
      BY <1>1, <1>2 DEF CardTellsTheTruth
<1>. QED BY <1>3, Invariance, PTL

(* A document in the message is not passed over for one in a file, and a   *)
(* refused one that its author labeled is not refused in silence.          *)
THEOREM TheMessageIsFirst == Spec => []TheMessageComesFirst
<1>1. IInv => LabeledRefusalsAreTold
      BY DEF IInv, RefusalsToldSoFar, LabeledRefusalsAreTold, Asked, NotGranted, IsStored
<1>2. IInv => TheMessageComesFirst
      BY <1>1 DEF IInv, TheMessageComesFirst
<1>. QED BY <1>2, Invariance, PTL
=============================================================================
