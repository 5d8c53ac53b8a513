--------------------------- MODULE DriveFilesProofs ---------------------------
(***************************************************************************)
(* What TLAPS proves of DriveFiles, for every number of files, folders,    *)
(* parts and requests, and any number of crashes.                          *)
(*                                                                         *)
(* One idea carries the proofs.  A file that is neither stored nor gone is *)
(* in the hands of one request: the upload that will insert its row, or    *)
(* the deletion whose DELETE found the row.  Whoever does not hold a file  *)
(* can only change a row that is there.                                    *)
(***************************************************************************)
EXTENDS DriveFiles, SequenceTheorems, TLAPS

Row == [folder : Dirs, public : BOOLEAN]

RestReqs   == [pc : {"idle", "over"}]
MoveReqs   == [pc : {"move_target", "move_set"}, file : Files, dir : Dirs, saw : BOOLEAN]
ShowReqs   == [pc : {"show_set"}, file : Files, public : BOOLEAN]
OwnedReqs  == [pc : {"delete_row"}, file : Files, row : Row, part : {1}, saw : BOOLEAN]
DeleteReqs == [pc : {"delete_part", "restore", "delete_preview"},
               file : Files, row : Row, part : 1..NParts, saw : BOOLEAN]
UploadReqs == [pc : {"post", "insert", "preview"}, file : Files, dir : Dirs, saw : BOOLEAN]
CreateReqs == [pc : {"create"}, dir : Folders, parent : Dirs, saw : BOOLEAN]
RulesReqs  == [pc : {"rules"}, dir : Dirs]
RemoveReqs == [pc : {"remove_check", "remove"}, dir : Folders]
ReqStates  == RestReqs \cup MoveReqs \cup ShowReqs \cup OwnedReqs \cup DeleteReqs
              \cup UploadReqs \cup CreateReqs \cup RulesReqs \cup RemoveReqs

TreeTyped == DOMAIN tree \subseteq Folders /\ \A d \in DOMAIN tree : tree[d] \in Dirs

Types ==
    /\ rows \in [Files -> Seq(Row)]
    /\ TreeTyped
    /\ rule \in Dirs
    /\ promised \in [Files -> Row]
    /\ req \in [Requests -> ReqStates]

Holding == {"delete_part", "restore", "delete_preview", "post", "insert"}
Holds(q, f) == req[q].pc \in Holding /\ req[q].file = f

\* A file has one row or one holder or neither, and for good neither once deleted.
Tokens ==
    \A f \in Files :
        /\ Len(rows[f]) <= 1
        /\ \A q \in Requests : Holds(q, f) => rows[f] = <<>>
        /\ \A q, r \in Requests : Holds(q, f) /\ Holds(r, f) => q = r
        /\ f \notin used \/ f \in deleted =>
             rows[f] = <<>> /\ \A q \in Requests : ~Holds(q, f)
        /\ f \in deleted => f \in used

\* What a row stands for is there, and is what was acknowledged last.
Whole ==
    /\ \A f \in Files : HasRow(f) /\ f \notin failed =>
         Parts(f) \subseteq messages /\ rows[f][1] = promised[f]
    /\ \A q \in Requests : At(q, "insert") => Parts(req[q].file) \subseteq messages

\* What a deletion has behind it is gone.
Gone ==
    /\ \A q \in Requests : At(q, "delete_part") =>
         \A i \in 1..(req[q].part - 1) : <<req[q].file, i>> \notin messages
    /\ \A q \in Requests : At(q, "delete_preview") => messages \cap Parts(req[q].file) = {}
    /\ \A f \in deleted : f \in Files /\ messages \cap Parts(f) = {}

Pictures == pictured \subseteq Files /\ pictured \subseteq previews \cup swept \cup deleted

\* A request knows the folder it goes to, and a deletion the one it took the file from.
Seen ==
    \A q \in Requests :
        /\ req[q].pc \in {"move_set", "post", "insert", "create"} => req[q].saw
        /\ req[q].pc \in {"delete_row", "delete_part", "restore"} =>
             req[q].saw \/ req[q].file \in astray
\* What is in a folder that is gone or will be went astray.
Strays ==
    \A d \in Folders : Doomed(d) =>
        /\ \A f \in Files : HasRow(f) /\ rows[f][1].folder = d => f \in astray
        /\ \A e \in DOMAIN tree : tree[e] = d => e \in astray

IndInv == Types /\ Tokens /\ Whole /\ Gone /\ Pictures /\ Seen /\ Strays
-----------------------------------------------------------------------------
(* Types *)

\* The await a request stands at tells what it remembers.
LEMMA Kinds ==
  ASSUME Types, NEW r \in Requests
  PROVE  /\ req[r].pc \in {"move_target", "move_set"} => req[r] \in MoveReqs
         /\ req[r].pc = "show_set" => req[r] \in ShowReqs
         /\ req[r].pc = "delete_row" => req[r] \in OwnedReqs
         /\ req[r].pc \in {"delete_part", "restore", "delete_preview"} => req[r] \in DeleteReqs
         /\ req[r].pc \in {"post", "insert", "preview"} => req[r] \in UploadReqs
         /\ req[r].pc = "create" => req[r] \in CreateReqs
         /\ req[r].pc = "rules" => req[r] \in RulesReqs
         /\ req[r].pc \in {"remove_check", "remove"} => req[r] \in RemoveReqs
<1>1. req[r] \in ReqStates
  BY DEF Types
<1> QED BY <1>1 DEF ReqStates, RestReqs, MoveReqs, ShowReqs, OwnedReqs, DeleteReqs,
                    UploadReqs, CreateReqs, RulesReqs, RemoveReqs

\* A step of one request.
LEMMA GotoTyped ==
  ASSUME Types, NEW r \in Requests, NEW s \in ReqStates, Goto(r, s)
  PROVE  /\ req' \in [Requests -> ReqStates]
         /\ req'[r] = s
         /\ \A q \in Requests \ {r} : req'[q] = req[q]
BY DEF Types, Goto

LEMMA OverTyped == Over \in ReqStates /\ Over.pc = "over" /\ Idle \in ReqStates /\ Idle.pc = "idle"
BY DEF Over, Idle, ReqStates, RestReqs

\* An UPDATE leaves as many rows as it finds.
LEMMA Updated ==
  ASSUME Types, NEW f \in Files, NEW new, new \in [DOMAIN rows[f] -> Row],
         rows' = [rows EXCEPT ![f] = new]
  PROVE  /\ rows' \in [Files -> Seq(Row)]
         /\ \A e \in Files : Len(rows'[e]) = Len(rows[e])
         /\ \A e \in Files \ {f} : rows'[e] = rows[e]
         /\ rows'[f] = new
<1>1. rows[f] \in Seq(Row) /\ DOMAIN rows = Files
  BY DEF Types
<1>2. new \in Seq(Row) /\ Len(new) = Len(rows[f])
  BY <1>1
<1> QED BY <1>1, <1>2 DEF Types

\* What the two UPDATEs write.
LEMMA MovedRow ==
  ASSUME Types, NEW r \in Requests, MoveSet(r)
  PROVE  LET f == req[r].file  d == req[r].dir IN
         /\ f \in Files /\ d \in Dirs
         /\ rows' \in [Files -> Seq(Row)]
         /\ \A e \in Files : Len(rows'[e]) = Len(rows[e])
         /\ \A e \in Files \ {f} : rows'[e] = rows[e]
         /\ rows[f] # <<>> => rows'[f][1] = [rows[f][1] EXCEPT !.folder = d]
<1> DEFINE f == req[r].file
           d == req[r].dir
           new == [i \in DOMAIN rows[f] |-> [rows[f][i] EXCEPT !.folder = d]]
<1>1. req[r] \in MoveReqs
  BY Kinds DEF MoveSet, At
<1>2. f \in Files /\ d \in Dirs
  BY <1>1 DEF MoveReqs
<1>3. rows[f] \in Seq(Row)
  BY <1>2 DEF Types
<1>4. ASSUME NEW i \in DOMAIN rows[f] PROVE [rows[f][i] EXCEPT !.folder = d] \in Row
  <2>1. rows[f][i] \in Row
    BY <1>3
  <2> QED BY <1>2, <2>1 DEF Row
<1>5. new \in [DOMAIN rows[f] -> Row]
  BY <1>4
<1>6. rows' = [rows EXCEPT ![f] = new]
  BY DEF MoveSet, SetFolder
<1>7. rows[f] # <<>> => new[1] = [rows[f][1] EXCEPT !.folder = d]
  BY <1>3
<1> HIDE DEF new
<1> QED BY <1>2, <1>5, <1>6, <1>7, Updated

LEMMA ShownRow ==
  ASSUME Types, NEW r \in Requests, ShowSet(r)
  PROVE  LET f == req[r].file  b == req[r].public IN
         /\ f \in Files /\ b \in BOOLEAN
         /\ rows' \in [Files -> Seq(Row)]
         /\ \A e \in Files : Len(rows'[e]) = Len(rows[e])
         /\ \A e \in Files \ {f} : rows'[e] = rows[e]
         /\ rows[f] # <<>> => rows'[f][1] = [rows[f][1] EXCEPT !.public = b]
<1> DEFINE f == req[r].file
           b == req[r].public
           new == [i \in DOMAIN rows[f] |-> [rows[f][i] EXCEPT !.public = b]]
<1>1. req[r] \in ShowReqs
  BY Kinds DEF ShowSet, At
<1>2. f \in Files /\ b \in BOOLEAN
  BY <1>1 DEF ShowReqs
<1>3. rows[f] \in Seq(Row)
  BY <1>2 DEF Types
<1>4. ASSUME NEW i \in DOMAIN rows[f] PROVE [rows[f][i] EXCEPT !.public = b] \in Row
  <2>1. rows[f][i] \in Row
    BY <1>3
  <2> QED BY <1>2, <2>1 DEF Row
<1>5. new \in [DOMAIN rows[f] -> Row]
  BY <1>4
<1>6. rows' = [rows EXCEPT ![f] = new]
  BY DEF ShowSet, SetPublic
<1>7. rows[f] # <<>> => new[1] = [rows[f][1] EXCEPT !.public = b]
  BY <1>3
<1> HIDE DEF new
<1> QED BY <1>2, <1>5, <1>6, <1>7, Updated

\* A handler that goes on with the locals it has, or with some of them changed.
LEMMA Going ==
  ASSUME Types, NEW r \in Requests, NEW p
  PROVE  /\ req[r] \in MoveReqs /\ p \in {"move_target", "move_set"} =>
              [req[r] EXCEPT !.pc = p] \in ReqStates
         /\ req[r] \in OwnedReqs \cup DeleteReqs
              /\ p \in {"delete_part", "restore", "delete_preview"} =>
              [req[r] EXCEPT !.pc = p] \in ReqStates
         /\ req[r] \in UploadReqs /\ p \in {"post", "insert", "preview"} =>
              [req[r] EXCEPT !.pc = p] \in ReqStates
         /\ req[r] \in RemoveReqs /\ p \in {"remove_check", "remove"} =>
              [req[r] EXCEPT !.pc = p] \in ReqStates
<1>1. 1 \in 1..NParts
  BY DriveAssumption
<1> QED BY <1>1 DEF MoveReqs, OwnedReqs, DeleteReqs, UploadReqs, RemoveReqs, ReqStates

LEMMA RequestTyped ==
  ASSUME Types, NEW r \in Requests, FileRequest(r) \/ UploadRequest(r) \/ FolderRequest(r)
  PROVE  /\ req' \in [Requests -> ReqStates]
         /\ \A q \in Requests \ {r} : req'[q] = req[q]
<1> SUFFICES \E s \in ReqStates : Goto(r, s)
  BY GotoTyped
<1> USE OverTyped DEF Step
<1>1. ASSUME NEW f \in Files, NEW d \in Dirs, MoveOwned(r, f, d) PROVE \E s \in ReqStates : Goto(r, s)
  BY <1>1 DEF MoveOwned, ReqStates, MoveReqs
<1>2. CASE MoveTarget(r)
  <2>1. req[r] \in MoveReqs
    BY <1>2, Kinds DEF MoveTarget, At
  <2>2. [req[r] EXCEPT !.pc = "move_set", !.saw = Exists(req[r].dir)] \in MoveReqs
    BY <2>1 DEF MoveReqs, Exists
  <2> QED BY <1>2, <2>2 DEF MoveTarget, ReqStates
<1>3. CASE MoveSet(r)
  BY <1>3 DEF MoveSet
<1>4. ASSUME NEW f \in Files, NEW b \in BOOLEAN, ShowOwned(r, f, b) PROVE \E s \in ReqStates : Goto(r, s)
  BY <1>4 DEF ShowOwned, ReqStates, ShowReqs
<1>5. CASE ShowSet(r)
  BY <1>5 DEF ShowSet
<1>6. ASSUME NEW f \in Files, DeleteOwned(r, f) PROVE \E s \in ReqStates : Goto(r, s)
  <2>1. HasRow(f) => rows[f][1] \in Row
    BY DEF Types, HasRow
  <2>2. HasRow(f) => [pc |-> "delete_row", file |-> f, row |-> rows[f][1], part |-> 1,
                      saw |-> Exists(rows[f][1].folder)] \in OwnedReqs
    BY <2>1 DEF OwnedReqs, Exists
  <2> QED BY <1>6, <2>2 DEF DeleteOwned, ReqStates
<1>7. CASE DeleteRow(r)
  <2>1. req[r] \in OwnedReqs
    BY <1>7, Kinds DEF DeleteRow, At
  <2> QED BY <1>7, <2>1, Going DEF DeleteRow
<1>8. CASE DeletePart(r)
  <2>1. req[r] \in DeleteReqs
    BY <1>8, Kinds DEF DeletePart, At
  <2>2. req[r].part # NParts => [req[r] EXCEPT !.part = @ + 1] \in DeleteReqs
    BY <2>1, DriveAssumption DEF DeleteReqs
  <2> QED BY <1>8, <2>1, <2>2, Going DEF DeletePart, ReqStates
<1>9. CASE Restore(r)
  BY <1>9 DEF Restore
<1>10. CASE DeletePreview(r)
  BY <1>10 DEF DeletePreview
<1>11. ASSUME NEW f \in Files, NEW d \in Dirs, UploadCheck(r, f, d) PROVE \E s \in ReqStates : Goto(r, s)
  <2>1. Exists(d) \in BOOLEAN
    BY DEF Exists
  <2> QED BY <1>11, <2>1 DEF UploadCheck, ReqStates, UploadReqs
<1>12. CASE UploadPost(r)
  <2>1. req[r] \in UploadReqs
    BY <1>12, Kinds DEF UploadPost, At
  <2>2. Routed(req[r].dir) \subseteq Dirs
    BY <2>1 DEF UploadReqs, Routed, Types, Dirs
  <2>3. \A d \in Dirs : [req[r] EXCEPT !.pc = "insert", !.dir = d,
                                       !.saw = IF d = req[r].dir THEN @ ELSE Exists(d)] \in UploadReqs
    BY <2>1 DEF UploadReqs, Exists
  <2> QED BY <1>12, <2>2, <2>3 DEF UploadPost, ReqStates
<1>13. CASE UploadInsert(r)
  <2>1. req[r] \in UploadReqs
    BY <1>13, Kinds DEF UploadInsert, At
  <2> QED BY <1>13, <2>1, Going DEF UploadInsert
<1>14. CASE UploadPreview(r)
  BY <1>14 DEF UploadPreview
<1>15. ASSUME NEW d \in Folders, NEW p \in Dirs, CreateCheck(r, d, p) PROVE \E s \in ReqStates : Goto(r, s)
  <2>1. Exists(p) \in BOOLEAN
    BY DEF Exists
  <2> QED BY <1>15, <2>1 DEF CreateCheck, ReqStates, CreateReqs
<1>16. CASE CreateFolder(r)
  BY <1>16 DEF CreateFolder
<1>17. ASSUME NEW d \in Folders, RemoveGet(r, d) PROVE \E s \in ReqStates : Goto(r, s)
  BY <1>17 DEF RemoveGet, ReqStates, RemoveReqs
<1>18. CASE RemoveCheck(r)
  <2>1. req[r] \in RemoveReqs
    BY <1>18, Kinds DEF RemoveCheck, At
  <2> QED BY <1>18, <2>1, Going DEF RemoveCheck
<1>19. CASE RemoveFolder(r)
  BY <1>19 DEF RemoveFolder
<1>20. ASSUME NEW d \in Dirs, RulesCheck(r, d) PROVE \E s \in ReqStates : Goto(r, s)
  BY <1>20 DEF RulesCheck, ReqStates, RulesReqs
<1>21. CASE RulesSet(r)
  BY <1>21 DEF RulesSet
<1> QED BY <1>1, <1>2, <1>3, <1>4, <1>5, <1>6, <1>7, <1>8, <1>9, <1>10, <1>11, <1>12, <1>13,
           <1>14, <1>15, <1>16, <1>17, <1>18, <1>19, <1>20, <1>21
        DEF FileRequest, UploadRequest, FolderRequest

LEMMA Inserted ==
  ASSUME Types, NEW f \in Files, NEW row \in Row, InsertRow(f, row)
  PROVE  /\ rows' \in [Files -> Seq(Row)]
         /\ \A e \in Files \ {f} : rows'[e] = rows[e]
         /\ rows[f] = <<>> => Len(rows'[f]) = 1 /\ rows'[f][1] = row
<1>1. rows[f] \in Seq(Row)
  BY DEF Types
<1>2. Append(rows[f], row) \in Seq(Row)
  BY <1>1
<1>3. rows'[f] = Append(rows[f], row)
  BY DEF Types, InsertRow
<1>4. rows[f] = <<>> => Len(Append(rows[f], row)) = 1 /\ Append(rows[f], row)[1] = row
  BY <1>1
<1> QED BY <1>2, <1>3, <1>4 DEF Types, InsertRow

\* What the drive's request handlers may do to the data.
LEMMA DataTyped ==
  ASSUME Types, NEW r \in Requests, FileRequest(r) \/ UploadRequest(r) \/ FolderRequest(r)
  PROVE  rows' \in [Files -> Seq(Row)] /\ TreeTyped' /\ rule' \in Dirs
         /\ promised' \in [Files -> Row]
<1> DEFINE D == rows' \in [Files -> Seq(Row)] /\ TreeTyped' /\ rule' \in Dirs
                /\ promised' \in [Files -> Row]
<1> SUFFICES D
  OBVIOUS
<1>s. rows \in [Files -> Seq(Row)] /\ rule \in Dirs /\ promised \in [Files -> Row]
  BY DEF Types
<1>t. UNCHANGED tree => TreeTyped'
  BY DEF Types, TreeTyped
<1>0. UNCHANGED <<rows, tree, rule, promised>> => D
  BY <1>s, <1>t
<1>1. CASE MoveSet(r)
  <2> DEFINE f == req[r].file
             d == req[r].dir
  <2>1. f \in Files /\ d \in Dirs /\ rows' \in [Files -> Seq(Row)]
    BY <1>1, MovedRow
  <2>2. promised[f] \in Row
    BY <2>1 DEF Types
  <2>3. [promised[f] EXCEPT !.folder = d] \in Row
    BY <2>1, <2>2 DEF Row
  <2>4. promised' \in {promised, [promised EXCEPT ![f] = [promised[f] EXCEPT !.folder = d]]}
    BY <1>1 DEF MoveSet
  <2>5. promised' \in [Files -> Row]
    BY <2>1, <2>3, <2>4 DEF Types
  <2> QED BY <1>1, <2>1, <2>5, <1>s, <1>t DEF MoveSet
<1>2. CASE ShowSet(r)
  <2> DEFINE f == req[r].file
             b == req[r].public
  <2>1. f \in Files /\ b \in BOOLEAN /\ rows' \in [Files -> Seq(Row)]
    BY <1>2, ShownRow
  <2>2. promised[f] \in Row
    BY <2>1 DEF Types
  <2>3. [promised[f] EXCEPT !.public = b] \in Row
    BY <2>1, <2>2 DEF Row
  <2>4. promised' \in {promised, [promised EXCEPT ![f] = [promised[f] EXCEPT !.public = b]]}
    BY <1>2 DEF ShowSet
  <2>5. promised' \in [Files -> Row]
    BY <2>1, <2>3, <2>4 DEF Types
  <2> QED BY <1>2, <2>1, <2>5, <1>s, <1>t DEF ShowSet
<1>3. CASE DeleteRow(r)
  <2>1. <<>> \in Seq(Row)
    OBVIOUS
  <2>2. rows' = [rows EXCEPT ![req[r].file] = <<>>]
    BY <1>3 DEF DeleteRow, DeleteRows
  <2>3. rows' \in [Files -> Seq(Row)]
    BY <2>1, <2>2, <1>s
  <2> QED BY <1>3, <2>3, <1>s, <1>t DEF DeleteRow, history
<1>4. CASE Restore(r)
  <2>1. req[r].file \in Files /\ req[r].row \in Row
    BY <1>4, Kinds DEF Restore, At, DeleteReqs
  <2>2. rows' \in [Files -> Seq(Row)]
    BY <1>4, <2>1, <1>s, Inserted DEF Restore
  <2> QED BY <1>4, <2>2, <1>s, <1>t DEF Restore
<1>5. CASE UploadInsert(r)
  <2> DEFINE row == [folder |-> req[r].dir, public |-> FALSE]
  <2>1. req[r].file \in Files /\ row \in Row
    BY <1>5, Kinds DEF UploadInsert, At, UploadReqs, Row
  <2>2. \/ InsertRow(req[r].file, row) /\ promised' = [promised EXCEPT ![req[r].file] = row]
        \/ UNCHANGED <<rows, promised>>
    BY <1>5 DEF UploadInsert
  <2>3. rows' \in [Files -> Seq(Row)]
    BY <2>1, <2>2, Inserted DEF Types
  <2>4. promised' \in [Files -> Row]
    BY <2>1, <2>2 DEF Types
  <2> QED BY <1>5, <2>3, <2>4, <1>s, <1>t DEF UploadInsert
<1>6. CASE CreateFolder(r)
  <2>1. req[r].dir \in Folders /\ req[r].parent \in Dirs
    BY <1>6, Kinds DEF CreateFolder, At, CreateReqs
  <2>2. TreeTyped'
    BY <1>6, <2>1 DEF CreateFolder, CreateDir, Types, TreeTyped
  <2> QED BY <1>6, <2>2, <1>s DEF CreateFolder
<1>7. CASE RemoveFolder(r)
  <2>1. TreeTyped'
    BY <1>7 DEF RemoveFolder, DeleteDir, Types, TreeTyped
  <2> QED BY <1>7, <2>1, <1>s DEF RemoveFolder, history
<1>8. CASE RulesSet(r)
  <2>1. req[r].dir \in Dirs
    BY <1>8, Kinds DEF RulesSet, At, RulesReqs
  <2> QED BY <1>8, <2>1, <1>s, <1>t DEF RulesSet, history
<1>9. \/ \E f \in Files, d \in Dirs : MoveOwned(r, f, d) \/ UploadCheck(r, f, d)
      \/ \E f \in Files, b \in BOOLEAN : ShowOwned(r, f, b)
      \/ \E f \in Files : DeleteOwned(r, f)
      \/ MoveTarget(r) \/ DeletePart(r) \/ DeletePreview(r)
      => D
  BY <1>0 DEF MoveOwned, UploadCheck, ShowOwned, DeleteOwned, MoveTarget, DeletePart,
              DeletePreview, disk, history
<1>10. \/ UploadPost(r) \/ UploadPreview(r) \/ RemoveCheck(r)
       \/ \E d \in Folders : RemoveGet(r, d) \/ \E p \in Dirs : CreateCheck(r, d, p)
       \/ \E d \in Dirs : RulesCheck(r, d)
       => D
  BY <1>0 DEF UploadPost, UploadPreview, RemoveCheck, RemoveGet, CreateCheck, RulesCheck,
              disk, history
<1> HIDE DEF D
<1> QED BY <1>1, <1>2, <1>3, <1>4, <1>5, <1>6, <1>7, <1>8, <1>9, <1>10
        DEF FileRequest, UploadRequest, FolderRequest

\* What the rest of the drive leaves alone: thumbnail tasks, the sweeper and a crash
\* touch no row, folder or message, and a crash lets no request go on.
LEMMA Elsewhere ==
  ASSUME Types,
         \/ \E f \in Files : TaskFetch(f) \/ TaskStore(f)
         \/ Sweeper \/ Scheduled \/ Crash \/ UNCHANGED vars
  PROVE  /\ UNCHANGED <<rows, tree, rule, messages, used, deleted, failed, promised, astray>>
         /\ req' \in [Requests -> ReqStates]
         /\ \A q \in Requests : req'[q] = req[q] \/ req'[q].pc \in {"idle", "over"}
<1>1. CASE \/ \E f \in Files : TaskFetch(f) \/ TaskStore(f)
           \/ Sweeper \/ Scheduled \/ UNCHANGED vars
  BY <1>1 DEF TaskFetch, TaskStore, Sweeper, SweepUids, SweepOpen, SweepRemove, SweepEnd,
                   NoSweep, Scheduled,
              vars, disk, history, Types
<1>2. CASE Crash
  <2>1. req' \in [Requests -> ReqStates] /\ \A q \in Requests : req'[q].pc \in {"idle", "over"}
    BY <1>2, OverTyped DEF Crash, CutShort
  <2> QED BY <1>2, <2>1 DEF Crash, disk, history
<1> QED BY <1>1, <1>2

LEMMA TypesStep ==
  ASSUME Types, [Next]_vars
  PROVE  Types'
<1>1. CASE \E r \in Requests : FileRequest(r) \/ UploadRequest(r) \/ FolderRequest(r)
  BY <1>1, RequestTyped, DataTyped DEF Types
<1>2. CASE \/ \E f \in Files : TaskFetch(f) \/ TaskStore(f)
           \/ Sweeper \/ Scheduled \/ Crash \/ UNCHANGED vars
  BY <1>2, Elsewhere DEF Types, TreeTyped
<1> QED BY <1>1, <1>2 DEF Next
-----------------------------------------------------------------------------
(* Tokens, Whole, Gone *)

\* A step that hands no file over and touches no row and no message.
LEMMA QuietStep ==
  ASSUME Types, Tokens, Whole, Gone,
         UNCHANGED <<rows, messages, deleted, failed, promised>>, used \subseteq used',
         \A q \in Requests : req'[q] = req[q] \/ req'[q].pc \notin Holding
  PROVE  Tokens' /\ Whole' /\ Gone'
<1>1. ASSUME NEW q \in Requests, NEW f, Holds(q, f)' PROVE Holds(q, f)
  BY <1>1 DEF Holds
<1>2. ASSUME NEW q \in Requests, NEW p \in Holding, At(q, p)' PROVE At(q, p) /\ req'[q] = req[q]
  BY <1>2 DEF At
<1>3. Tokens'
  BY <1>1 DEF Tokens
<1>4. Whole'
  BY <1>2 DEF Whole, HasRow, Holding
<1>5. Gone'
  BY <1>2 DEF Gone, Holding
<1> QED BY <1>3, <1>4, <1>5

\* A step of request r leaves every file but f alone ..
OnlyFile(r, f) ==
    /\ \A q \in Requests \ {r} : req'[q] = req[q]
    /\ \A e \in Files \ {f} : rows'[e] = rows[e] /\ promised'[e] = promised[e]
    /\ \A e \in Files \ {f}, i \in 1..NParts : <<e, i>> \in messages' <=> <<e, i>> \in messages
    /\ messages' = messages \/ Holds(r, f)
    /\ used \subseteq used' /\ failed \subseteq failed'
    /\ deleted \subseteq deleted' /\ deleted' \subseteq deleted \cup {f}

\* .. gives f a row, a holder or neither ..
OneOwner(r, f) ==
    /\ Len(rows'[f]) <= 1
    /\ req'[r].pc \in Holding => req'[r].file = f /\ rows'[f] = <<>>
    /\ req'[r].pc \in Holding \/ rows'[f] # <<>> =>
         f \in used' \ deleted' /\ \A q \in Requests \ {r} : ~Holds(q, f)
    /\ f \in deleted' => f \in used' /\ \A q \in Requests \ {r} : ~Holds(q, f)

\* .. and keeps what is known of f's messages.
RightParts(r, f) ==
    /\ rows'[f] # <<>> /\ f \notin failed' =>
         Parts(f) \subseteq messages' /\ rows'[f][1] = promised'[f]
    /\ req'[r].pc = "insert" => Parts(f) \subseteq messages'
    /\ req'[r].pc = "delete_part" => \A i \in 1..(req'[r].part - 1) : <<f, i>> \notin messages'
    /\ req'[r].pc = "delete_preview" \/ f \in deleted' => messages' \cap Parts(f) = {}

LEMMA FileStep ==
  ASSUME Types, Tokens, Whole, Gone, NEW r \in Requests, NEW f \in Files,
         OnlyFile(r, f), OneOwner(r, f), RightParts(r, f)
  PROVE  Tokens' /\ Whole' /\ Gone'
<1> USE DEF OnlyFile, OneOwner, RightParts
<1>1. ASSUME NEW q \in Requests \ {r}, NEW e PROVE Holds(q, e)' <=> Holds(q, e)
  BY DEF Holds
<1>2. ASSUME NEW e \in Files, e # f PROVE ~Holds(r, e)'
  BY <1>2 DEF Holds
<1>3. ASSUME NEW e \in Files, e # f
      PROVE  (Parts(e) \subseteq messages' <=> Parts(e) \subseteq messages)
             /\ (messages' \cap Parts(e) = {} <=> messages \cap Parts(e) = {})
  BY <1>3 DEF Parts
<1>4. Tokens'
  <2> SUFFICES ASSUME NEW e \in Files
               PROVE  (/\ Len(rows[e]) <= 1
                       /\ \A q \in Requests : Holds(q, e) => rows[e] = <<>>
                       /\ \A q, p \in Requests : Holds(q, e) /\ Holds(p, e) => q = p
                       /\ e \notin used \/ e \in deleted =>
                            rows[e] = <<>> /\ \A q \in Requests : ~Holds(q, e)
                       /\ e \in deleted => e \in used)'
    BY DEF Tokens
  <2>1. CASE e # f
    BY <2>1, <1>1, <1>2 DEF Tokens
  <2>2. CASE e = f
    <3>1. Holds(r, f)' => rows'[f] = <<>> /\ f \in used' \ deleted'
                          /\ \A q \in Requests \ {r} : ~Holds(q, f)
      BY DEF Holds
    <3>2. \A q \in Requests : Holds(q, f)' => rows'[f] = <<>>
      BY <3>1, <1>1
    <3>3. \A q, p \in Requests : Holds(q, f)' /\ Holds(p, f)' => q = p
      BY <3>1, <1>1 DEF Tokens
    <3>4. f \notin used' => \A q \in Requests : ~Holds(q, f)'
      BY <3>1, <1>1 DEF Tokens
    <3> QED BY <2>2, <3>1, <3>2, <3>3, <3>4, <1>1
  <2> QED BY <2>1, <2>2
<1>5. ASSUME NEW q \in Requests \ {r}, req[q].pc \in Holding \ {"post", "restore"},
             messages' # messages
      PROVE  req[q].file \in Files \ {f}
  <2>1. req[q].file \in Files
    BY <1>5, Kinds DEF Holding, DeleteReqs, UploadReqs
  <2>2. Holds(q, req[q].file)
    BY <1>5 DEF Holds
  <2> QED BY <1>5, <2>1, <2>2 DEF Tokens
<1>6. Whole'
  <2>1. ASSUME NEW e \in Files, HasRow(e)', e \notin failed'
        PROVE  Parts(e) \subseteq messages' /\ rows'[e][1] = promised'[e]
    <3>1. CASE e # f
      BY <2>1, <3>1, <1>3 DEF Whole, HasRow
    <3> QED BY <2>1, <3>1 DEF HasRow
  <2>2. ASSUME NEW q \in Requests, At(q, "insert")' PROVE Parts(req'[q].file) \subseteq messages'
    <3>1. CASE q = r
      BY <2>2, <3>1 DEF At, Holding
    <3>2. CASE q # r
      <4>1. At(q, "insert") /\ Parts(req[q].file) \subseteq messages /\ req'[q].file = req[q].file
        BY <2>2, <3>2 DEF At, Whole
      <4> QED BY <3>2, <4>1, <1>3, <1>5 DEF At, Holding
    <3> QED BY <3>1, <3>2
  <2> QED BY <2>1, <2>2 DEF Whole, Parts
<1>7. Gone'
  <2>1. ASSUME NEW q \in Requests, At(q, "delete_part")'
        PROVE  \A i \in 1..(req'[q].part - 1) : <<req'[q].file, i>> \notin messages'
    <3>1. CASE q = r
      BY <2>1, <3>1 DEF At, Holding
    <3>2. CASE q # r
      <4>1. At(q, "delete_part") /\ req'[q] = req[q]
        BY <2>1, <3>2 DEF At
      <4>2. \A i \in 1..(req[q].part - 1) : <<req[q].file, i>> \notin messages
        BY <4>1 DEF Gone
      <4>3. req[q].part \in 1..NParts
        BY <4>1, Kinds DEF At, DeleteReqs
      <4>4. \A i \in 1..(req[q].part - 1) : i \in 1..NParts
        BY <4>3, DriveAssumption
      <4> QED BY <3>2, <4>1, <4>2, <4>4, <1>5 DEF At, Holding
    <3> QED BY <3>1, <3>2
  <2>2. ASSUME NEW q \in Requests, At(q, "delete_preview")'
        PROVE  messages' \cap Parts(req'[q].file) = {}
    <3>1. CASE q = r
      BY <2>2, <3>1 DEF At, Holding
    <3>2. CASE q # r
      <4>1. At(q, "delete_preview") /\ req'[q] = req[q] /\ messages \cap Parts(req[q].file) = {}
        BY <2>2, <3>2 DEF At, Gone
      <4> QED BY <3>2, <4>1, <1>3, <1>5 DEF At, Holding
    <3> QED BY <3>1, <3>2
  <2>3. ASSUME NEW e \in deleted' PROVE e \in Files /\ messages' \cap Parts(e) = {}
    <3>1. CASE e # f
      BY <3>1, <1>3 DEF Gone
    <3> QED BY <3>1
  <2> QED BY <2>1, <2>2, <2>3 DEF Gone, Parts
<1> QED BY <1>4, <1>6, <1>7

\* The requests that look, and those that only add to what is recorded of a stored file.
LEMMA QuietRequests ==
  ASSUME IndInv, NEW r \in Requests,
         \/ \E f \in Files, d \in Dirs : MoveOwned(r, f, d)
         \/ \E f \in Files, b \in BOOLEAN : ShowOwned(r, f, b)
         \/ \E f \in Files : DeleteOwned(r, f)
         \/ MoveTarget(r) \/ UploadPreview(r) \/ FolderRequest(r)
  PROVE  Tokens' /\ Whole' /\ Gone'
<1>1. UNCHANGED <<rows, messages, deleted, failed, promised>> /\ used \subseteq used'
  BY DEF MoveOwned, ShowOwned, DeleteOwned, MoveTarget, UploadPreview, FolderRequest,
         CreateCheck, CreateFolder, RemoveGet, RemoveCheck, RemoveFolder, RulesCheck, RulesSet,
         disk, history
<1> DEFINE Rests == req'[r].pc \notin Holding /\ \A q \in Requests \ {r} : req'[q] = req[q]
<1> SUFFICES Rests
  BY <1>1, QuietStep DEF IndInv
<1>2. DOMAIN req = Requests
  BY DEF IndInv, Types
<1>3. CASE \/ \E f \in Files, d \in Dirs : MoveOwned(r, f, d)
           \/ \E f \in Files, b \in BOOLEAN : ShowOwned(r, f, b)
           \/ \E f \in Files : DeleteOwned(r, f)
  BY <1>2, <1>3, OverTyped DEF MoveOwned, ShowOwned, DeleteOwned, Goto, Holding
<1>4. CASE \/ \E d \in Folders : RemoveGet(r, d) \/ \E p \in Dirs : CreateCheck(r, d, p)
           \/ \E d \in Dirs : RulesCheck(r, d)
  BY <1>2, <1>4, OverTyped DEF RemoveGet, CreateCheck, RulesCheck, Goto, Holding
<1>5. CASE UploadPreview(r) \/ CreateFolder(r) \/ RemoveFolder(r) \/ RulesSet(r)
  BY <1>2, <1>5, OverTyped DEF UploadPreview, CreateFolder, RemoveFolder, RulesSet, Goto, Holding
<1>6. CASE MoveTarget(r)
  <2>1. req[r] \in MoveReqs
    BY <1>6, Kinds DEF IndInv, MoveTarget, At
  <2>2. Goto(r, Over) \/ Goto(r, [req[r] EXCEPT !.pc = "move_set", !.saw = Exists(req[r].dir)])
    BY <1>6 DEF MoveTarget
  <2> QED BY <1>2, <2>1, <2>2, OverTyped DEF Goto, MoveReqs, Holding
<1>7. CASE RemoveCheck(r)
  <2>1. req[r] \in RemoveReqs
    BY <1>7, Kinds DEF IndInv, RemoveCheck, At
  <2>2. Goto(r, Over) \/ Goto(r, [req[r] EXCEPT !.pc = "remove"])
    BY <1>7 DEF RemoveCheck, Step
  <2> QED BY <1>2, <2>1, <2>2, OverTyped DEF Goto, RemoveReqs, Holding
<1> HIDE DEF Rests
<1> QED BY <1>3, <1>4, <1>5, <1>6, <1>7 DEF FolderRequest

\* The two UPDATEs find a row or change nothing.
LEMMA EditKeeps ==
  ASSUME IndInv, NEW r \in Requests, MoveSet(r) \/ ShowSet(r)
  PROVE  Tokens' /\ Whole' /\ Gone'
<1> DEFINE f == req[r].file
<1> USE DEF IndInv
<1>1. f \in Files /\ rows' \in [Files -> Seq(Row)]
      /\ (\A e \in Files : Len(rows'[e]) = Len(rows[e]))
      /\ \A e \in Files \ {f} : rows'[e] = rows[e]
  BY MovedRow, ShownRow
<1>2. rows'[f] # <<>> <=> HasRow(f)
  <2>1. rows[f] \in Seq(Row) /\ rows'[f] \in Seq(Row) /\ Len(rows'[f]) = Len(rows[f])
    BY <1>1 DEF Types
  <2> QED BY <2>1, EmptySeq DEF HasRow
<1>3. promised[f] \in Row /\ DOMAIN promised = Files
  BY <1>1 DEF Types
<1>4. rows'[f] # <<>> /\ f \notin failed' => Parts(f) \subseteq messages' /\ rows'[f][1] = promised'[f]
  <2>1. CASE MoveSet(r)
    <3>1. HasRow(f) => promised'[f] = [promised[f] EXCEPT !.folder = req[r].dir]
      BY <2>1, <1>1, <1>3 DEF MoveSet
    <3>2. HasRow(f) => rows'[f][1] = [rows[f][1] EXCEPT !.folder = req[r].dir]
      BY <2>1, MovedRow DEF HasRow
    <3> QED BY <2>1, <1>1, <1>2, <3>1, <3>2 DEF MoveSet, Whole
  <2>2. CASE ShowSet(r)
    <3>1. HasRow(f) => promised'[f] = [promised[f] EXCEPT !.public = req[r].public]
      BY <2>2, <1>1, <1>3 DEF ShowSet
    <3>2. HasRow(f) => rows'[f][1] = [rows[f][1] EXCEPT !.public = req[r].public]
      BY <2>2, ShownRow DEF HasRow
    <3> QED BY <2>2, <1>1, <1>2, <3>1, <3>2 DEF ShowSet, Whole
  <2> QED BY <2>1, <2>2
<1>5. \A e \in Files \ {f} : promised'[e] = promised[e]
  BY <1>3 DEF MoveSet, ShowSet
<1>6. Goto(r, Over) /\ UNCHANGED <<messages, used, deleted, failed>>
  BY DEF MoveSet, ShowSet
<1>7. req'[r].pc = "over" /\ \A q \in Requests \ {r} : req'[q] = req[q]
  BY <1>6, GotoTyped, OverTyped
<1>8. (rows'[f] # <<>> => rows[f] # <<>>) /\ Len(rows'[f]) <= 1
  BY <1>1, <1>2 DEF HasRow, Tokens
<1>9. rows[f] # <<>> => f \in used \ deleted /\ \A q \in Requests : ~Holds(q, f)
  BY <1>1 DEF Tokens
<1>10. f \in deleted => f \in used /\ messages \cap Parts(f) = {} /\ \A q \in Requests : ~Holds(q, f)
  BY <1>1 DEF Tokens, Gone
<1> HIDE DEF f
<1>a. OnlyFile(r, f)
  BY <1>1, <1>4, <1>5, <1>6, <1>7, <1>8, <1>9, <1>10 DEF OnlyFile
<1>b. OneOwner(r, f)
  BY <1>1, <1>4, <1>5, <1>6, <1>7, <1>8, <1>9, <1>10 DEF OneOwner, Holding
<1>c. RightParts(r, f)
  BY <1>1, <1>4, <1>5, <1>6, <1>7, <1>8, <1>9, <1>10 DEF RightParts, HasRow
<1> QED BY <1>a, <1>b, <1>c, <1>1, FileStep

\* What a holder knows of its file.
LEMMA Held ==
  ASSUME IndInv, NEW r \in Requests, req[r].pc \in Holding
  PROVE  LET f == req[r].file IN
         /\ f \in Files /\ Holds(r, f)
         /\ rows[f] = <<>> /\ f \in used \ deleted
         /\ \A q \in Requests \ {r} : ~Holds(q, f)
<1>1. req[r].file \in Files
  BY Kinds DEF IndInv, Holding, DeleteReqs, UploadReqs
<1>2. Holds(r, req[r].file)
  BY DEF Holds
<1> QED BY <1>1, <1>2 DEF IndInv, Tokens

\* The DELETE that finds the row makes its request the holder.
LEMMA DeleteRowKeeps ==
  ASSUME IndInv, NEW r \in Requests, DeleteRow(r)
  PROVE  Tokens' /\ Whole' /\ Gone'
<1> DEFINE f == req[r].file
<1> USE DEF IndInv
<1>1. req[r] \in OwnedReqs /\ f \in Files
  BY Kinds DEF DeleteRow, At, OwnedReqs
<1>2. rows'[f] = <<>> /\ Len(rows'[f]) <= 1 /\ (\A e \in Files \ {f} : rows'[e] = rows[e])
  BY <1>1 DEF DeleteRow, DeleteRows, Types
<1>3. UNCHANGED <<messages, used, deleted, failed, promised>>
  BY DEF DeleteRow, history
<1>4. CASE HasRow(f)
  <2>1. Goto(r, [req[r] EXCEPT !.pc = "delete_part"])
    BY <1>4 DEF DeleteRow, Step
  <2>2. req'[r] = [req[r] EXCEPT !.pc = "delete_part"]
        /\ \A q \in Requests \ {r} : req'[q] = req[q]
    BY <2>1 DEF Goto, Types
  <2>3. req'[r].pc = "delete_part" /\ req'[r].file = f /\ req'[r].part = 1
    BY <2>2, <1>1 DEF OwnedReqs
  <2>4. f \in used \ deleted /\ \A q \in Requests : ~Holds(q, f)
    BY <1>1, <1>4 DEF Tokens, HasRow
  <2> HIDE DEF f
  <2>a. OnlyFile(r, f)
    BY <1>1, <1>2, <1>3, <2>2, <2>3, <2>4 DEF OnlyFile
  <2>b. OneOwner(r, f)
    BY <1>1, <1>2, <1>3, <2>2, <2>3, <2>4 DEF OneOwner, Holding
  <2>c. RightParts(r, f)
    BY <1>1, <1>2, <1>3, <2>2, <2>3, <2>4 DEF RightParts, HasRow
  <2> QED BY <2>a, <2>b, <2>c, <1>1, FileStep
<1>5. CASE ~HasRow(f)
  <2>1. Goto(r, Over)
    BY <1>5 DEF DeleteRow
  <2>2. req'[r].pc = "over" /\ \A q \in Requests \ {r} : req'[q] = req[q]
    BY <2>1, GotoTyped, OverTyped
  <2>3. \A e \in Files : rows'[e] = rows[e]
    BY <1>1, <1>2, <1>5 DEF HasRow
  <2>4. rows' = rows
    BY <2>3 DEF DeleteRow, DeleteRows, Types
  <2> QED BY <1>3, <2>2, <2>4, QuietStep DEF Holding
<1> QED BY <1>4, <1>5

LEMMA DeletePartKeeps ==
  ASSUME IndInv, NEW r \in Requests, DeletePart(r)
  PROVE  Tokens' /\ Whole' /\ Gone'
<1> DEFINE f == req[r].file
<1> USE DEF IndInv
<1>1. req[r] \in DeleteReqs /\ req[r].pc = "delete_part"
  BY Kinds DEF DeletePart, At
<1>2. f \in Files /\ Holds(r, f) /\ rows[f] = <<>> /\ f \in used \ deleted
      /\ \A q \in Requests \ {r} : ~Holds(q, f)
  BY <1>1, Held DEF Holding
<1>3. UNCHANGED <<rows, used, deleted, failed, promised>>
  BY DEF DeletePart, history
<1>4. \A q \in Requests \ {r} : req'[q] = req[q]
  BY DEF DeletePart, Step, Goto, Types
<1>5. /\ req'[r].file = f /\ req'[r].pc \in {"delete_part", "restore", "delete_preview"}
      /\ messages' \subseteq messages /\ messages \subseteq messages' \cup {<<f, req[r].part>>}
      /\ req'[r].pc # "restore" => <<f, req[r].part>> \notin messages'
      /\ req'[r].pc = "delete_part" => req'[r].part = req[r].part + 1
      /\ req'[r].pc = "delete_preview" => req[r].part = NParts
  <2>1. CASE Step(r, "restore") /\ UNCHANGED messages
    BY <2>1, <1>1 DEF Step, Goto, Types, DeleteReqs
  <2>2. CASE /\ messages' = messages \ {<<f, req[r].part>>}
             /\ Goto(r, IF req[r].part = NParts THEN [req[r] EXCEPT !.pc = "delete_preview"]
                                                ELSE [req[r] EXCEPT !.part = @ + 1])
    <3>1. req'[r] = IF req[r].part = NParts THEN [req[r] EXCEPT !.pc = "delete_preview"]
                                            ELSE [req[r] EXCEPT !.part = @ + 1]
      BY <2>2 DEF Goto, Types
    <3> QED BY <3>1, <2>2, <1>1 DEF DeleteReqs
  <2> QED BY <2>1, <2>2 DEF DeletePart
<1>6. req[r].part \in 1..NParts /\ NParts \in Nat
  BY <1>1, DriveAssumption DEF DeleteReqs
<1>7. \A i \in 1..(req[r].part - 1) : <<f, i>> \notin messages
  BY <1>1 DEF Gone, At
<1>8. req'[r].pc = "delete_part" => \A i \in 1..(req'[r].part - 1) : <<f, i>> \notin messages'
  <2>1. SUFFICES ASSUME req'[r].pc = "delete_part", NEW i \in 1..(req'[r].part - 1)
                 PROVE  <<f, i>> \notin messages'
    OBVIOUS
  <2>2. i \in 1..(req[r].part - 1) \/ i = req[r].part
    BY <2>1, <1>5, <1>6 DEF At
  <2> QED BY <2>1, <2>2, <1>5, <1>7 DEF At
<1>9. req'[r].pc = "delete_preview" => messages' \cap Parts(f) = {}
  <2>1. SUFFICES ASSUME req'[r].pc = "delete_preview", NEW i \in 1..NParts
                 PROVE  <<f, i>> \notin messages'
    BY DEF Parts
  <2>2. i \in 1..(req[r].part - 1) \/ i = req[r].part
    BY <2>1, <1>5, <1>6 DEF At
  <2> QED BY <2>1, <2>2, <1>5, <1>7 DEF At
<1>10. \A e \in Files \ {f}, i \in 1..NParts : <<e, i>> \in messages' <=> <<e, i>> \in messages
  BY <1>5
<1> HIDE DEF f
<1>a. OnlyFile(r, f)
  BY <1>2, <1>3, <1>4, <1>5, <1>8, <1>9, <1>10 DEF OnlyFile
<1>b. OneOwner(r, f)
  BY <1>2, <1>3, <1>4, <1>5, <1>8, <1>9, <1>10 DEF OneOwner, Holding
<1>c. RightParts(r, f)
  BY <1>2, <1>3, <1>4, <1>5, <1>8, <1>9, <1>10 DEF RightParts, HasRow
<1> QED BY <1>a, <1>b, <1>c, <1>2, FileStep

LEMMA RestoreKeeps ==
  ASSUME IndInv, NEW r \in Requests, Restore(r)
  PROVE  Tokens' /\ Whole' /\ Gone'
<1> DEFINE f == req[r].file
<1> USE DEF IndInv
<1>1. req[r] \in DeleteReqs /\ req[r].pc = "restore" /\ req[r].row \in Row
  BY Kinds DEF Restore, At, DeleteReqs
<1>2. f \in Files /\ Holds(r, f) /\ rows[f] = <<>> /\ f \in used \ deleted
      /\ \A q \in Requests \ {r} : ~Holds(q, f)
  BY <1>1, Held DEF Holding
<1>3. UNCHANGED <<messages, used, deleted, promised>> /\ failed' = failed \cup {f}
  BY DEF Restore
<1>4. req'[r].pc = "over" /\ \A q \in Requests \ {r} : req'[q] = req[q]
  BY GotoTyped, OverTyped DEF Restore
<1>5. (\A e \in Files \ {f} : rows'[e] = rows[e]) /\ Len(rows'[f]) <= 1
  <2>1. CASE UNCHANGED rows
    BY <2>1, <1>2 DEF Tokens
  <2>2. CASE InsertRow(f, req[r].row)
    <3>1. Len(rows'[f]) = 1 /\ \A e \in Files \ {f} : rows'[e] = rows[e]
      BY <2>2, <1>1, <1>2, Inserted
    <3> QED BY <3>1
  <2> QED BY <2>1, <2>2 DEF Restore
<1> HIDE DEF f
<1>a. OnlyFile(r, f)
  BY <1>2, <1>3, <1>4, <1>5 DEF OnlyFile
<1>b. OneOwner(r, f)
  BY <1>2, <1>3, <1>4, <1>5 DEF OneOwner, Holding
<1>c. RightParts(r, f)
  BY <1>2, <1>3, <1>4, <1>5 DEF RightParts, HasRow
<1> QED BY <1>a, <1>b, <1>c, <1>2, FileStep

LEMMA DeletePreviewKeeps ==
  ASSUME IndInv, NEW r \in Requests, DeletePreview(r)
  PROVE  Tokens' /\ Whole' /\ Gone'
<1> DEFINE f == req[r].file
<1> USE DEF IndInv
<1>1. req[r].pc = "delete_preview"
  BY DEF DeletePreview, At
<1>2. f \in Files /\ Holds(r, f) /\ rows[f] = <<>> /\ f \in used \ deleted
      /\ \A q \in Requests \ {r} : ~Holds(q, f)
  BY <1>1, Held DEF Holding
<1>3. UNCHANGED <<rows, messages, used, failed, promised>> /\ deleted' = deleted \cup {f}
  BY DEF DeletePreview
<1>4. req'[r].pc = "over" /\ \A q \in Requests \ {r} : req'[q] = req[q]
  BY GotoTyped, OverTyped DEF DeletePreview
<1>5. messages \cap Parts(f) = {} /\ Len(rows[f]) <= 1
  BY <1>1, <1>2 DEF Gone, Tokens, At
<1> HIDE DEF f
<1>a. OnlyFile(r, f)
  BY <1>2, <1>3, <1>4, <1>5 DEF OnlyFile
<1>b. OneOwner(r, f)
  BY <1>2, <1>3, <1>4, <1>5 DEF OneOwner, Holding
<1>c. RightParts(r, f)
  BY <1>2, <1>3, <1>4, <1>5 DEF RightParts, HasRow
<1> QED BY <1>a, <1>b, <1>c, <1>2, FileStep

\* A new uid is nobody's.
LEMMA UploadCheckKeeps ==
  ASSUME IndInv, NEW r \in Requests, NEW f \in Files, NEW d \in Dirs, UploadCheck(r, f, d)
  PROVE  Tokens' /\ Whole' /\ Gone'
<1> USE DEF IndInv
<1>1. f \notin used /\ used' = used \cup {f}
      /\ UNCHANGED <<rows, messages, deleted, failed, promised>>
  BY DEF UploadCheck, history
<1>2. rows[f] = <<>> /\ Len(rows[f]) <= 1 /\ f \notin deleted /\ \A q \in Requests : ~Holds(q, f)
  BY <1>1 DEF Tokens
<1>3. \E s \in ReqStates : Goto(r, s) /\ s.pc \in {"post", "over"} /\ (s.pc = "post" => s.file = f)
  <2>1. Exists(d) \in BOOLEAN
    BY DEF Exists
  <2> QED BY <2>1, OverTyped DEF UploadCheck, ReqStates, UploadReqs
<1>4. /\ req'[r].pc \in {"post", "over"} /\ (req'[r].pc = "post" => req'[r].file = f)
      /\ \A q \in Requests \ {r} : req'[q] = req[q]
  BY <1>3, GotoTyped
<1>a. OnlyFile(r, f)
  BY <1>1, <1>2, <1>4 DEF OnlyFile
<1>b. OneOwner(r, f)
  BY <1>1, <1>2, <1>4 DEF OneOwner, Holding
<1>c. RightParts(r, f)
  BY <1>1, <1>2, <1>4 DEF RightParts, HasRow
<1> QED BY <1>a, <1>b, <1>c, <1>2, FileStep

LEMMA UploadPostKeeps ==
  ASSUME IndInv, NEW r \in Requests, UploadPost(r)
  PROVE  Tokens' /\ Whole' /\ Gone'
<1> DEFINE f == req[r].file
<1> USE DEF IndInv
<1>1. req[r].pc = "post" /\ req[r] \in UploadReqs
  BY Kinds DEF UploadPost, At
<1>2. f \in Files /\ Holds(r, f) /\ rows[f] = <<>> /\ f \in used \ deleted
      /\ \A q \in Requests \ {r} : ~Holds(q, f)
  BY <1>1, Held DEF Holding
<1>3. UNCHANGED <<rows, deleted, failed, promised, used>> /\ messages' = messages \cup Parts(f)
  BY DEF UploadPost, history
<1>4. /\ req'[r].pc = "insert" /\ req'[r].file = f
      /\ \A q \in Requests \ {r} : req'[q] = req[q]
  <2>1. PICK d \in Routed(req[r].dir) :
          Goto(r, [req[r] EXCEPT !.pc = "insert", !.dir = d,
                                 !.saw = IF d = req[r].dir THEN @ ELSE Exists(d)])
    BY DEF UploadPost
  <2> QED BY <2>1, <1>1 DEF Goto, Types, UploadReqs
<1>5. \A e \in Files \ {f}, i \in 1..NParts : <<e, i>> \in messages' <=> <<e, i>> \in messages
  BY <1>3 DEF Parts
<1>6. Len(rows[f]) <= 1
  BY <1>2 DEF Tokens
<1> HIDE DEF f
<1>a. OnlyFile(r, f)
  BY <1>2, <1>3, <1>4, <1>5, <1>6 DEF OnlyFile
<1>b. OneOwner(r, f)
  BY <1>2, <1>3, <1>4, <1>5, <1>6 DEF OneOwner, Holding
<1>c. RightParts(r, f)
  BY <1>2, <1>3, <1>4, <1>5, <1>6 DEF RightParts, HasRow
<1> QED BY <1>a, <1>b, <1>c, <1>2, FileStep

LEMMA UploadInsertKeeps ==
  ASSUME IndInv, NEW r \in Requests, UploadInsert(r)
  PROVE  Tokens' /\ Whole' /\ Gone'
<1> DEFINE f == req[r].file
           row == [folder |-> req[r].dir, public |-> FALSE]
<1> USE DEF IndInv
<1>1. req[r].pc = "insert" /\ req[r] \in UploadReqs /\ row \in Row
  BY Kinds DEF UploadInsert, At, UploadReqs, Row
<1>2. f \in Files /\ Holds(r, f) /\ rows[f] = <<>> /\ f \in used \ deleted
      /\ \A q \in Requests \ {r} : ~Holds(q, f)
  BY <1>1, Held DEF Holding
<1>3. UNCHANGED <<deleted, failed, used>>
  BY DEF UploadInsert
<1>4. \A q \in Requests \ {r} : req'[q] = req[q]
  BY DEF UploadInsert, Step, Goto, Types
<1>5. CASE /\ InsertRow(f, row) /\ promised' = [promised EXCEPT ![f] = row]
           /\ Step(r, "preview") /\ UNCHANGED messages
  <2>1. /\ (\A e \in Files \ {f} : rows'[e] = rows[e])
        /\ Len(rows'[f]) = 1 /\ rows'[f][1] = row
    BY <1>1, <1>2, <1>5, Inserted
  <2>2. req'[r].pc = "preview"
    BY <1>1, <1>5 DEF Step, Goto, Types, UploadReqs
  <2>3. promised'[f] = row /\ \A e \in Files \ {f} : promised'[e] = promised[e]
    BY <1>2, <1>5 DEF Types
  <2>4. Parts(f) \subseteq messages
    BY <1>1 DEF Whole, At
  <2> HIDE DEF f, row
  <2>a. OnlyFile(r, f)
    BY <1>2, <1>3, <1>4, <1>5, <2>1, <2>2, <2>3, <2>4 DEF OnlyFile
  <2>b. OneOwner(r, f)
    BY <1>2, <1>3, <1>4, <1>5, <2>1, <2>2, <2>3, <2>4 DEF OneOwner, Holding
  <2>c. RightParts(r, f)
    BY <1>2, <1>3, <1>4, <1>5, <2>1, <2>2, <2>3, <2>4 DEF RightParts, HasRow
  <2> QED BY <2>a, <2>b, <2>c, <1>2, FileStep
<1>6. CASE /\ \E lost \in SUBSET Parts(f) : messages' = (messages \ Parts(f)) \cup lost
           /\ Goto(r, Over) /\ UNCHANGED <<rows, promised>>
  <2>1. req'[r].pc = "over"
    BY <1>6, GotoTyped, OverTyped
  <2>2. \A e \in Files \ {f}, i \in 1..NParts : <<e, i>> \in messages' <=> <<e, i>> \in messages
    BY <1>6 DEF Parts
  <2>3. Len(rows[f]) <= 1
    BY <1>2 DEF Tokens
  <2> HIDE DEF f
  <2>a. OnlyFile(r, f)
    BY <1>2, <1>3, <1>4, <1>6, <2>1, <2>2, <2>3 DEF OnlyFile
  <2>b. OneOwner(r, f)
    BY <1>2, <1>3, <1>4, <1>6, <2>1, <2>2, <2>3 DEF OneOwner, Holding
  <2>c. RightParts(r, f)
    BY <1>2, <1>3, <1>4, <1>6, <2>1, <2>2, <2>3 DEF RightParts, HasRow
  <2> QED BY <2>a, <2>b, <2>c, <1>2, FileStep
<1> QED BY <1>5, <1>6 DEF UploadInsert

LEMMA TokensStep ==
  ASSUME IndInv, [Next]_vars
  PROVE  Tokens' /\ Whole' /\ Gone'
<1>1. ASSUME NEW r \in Requests, FileRequest(r) \/ UploadRequest(r) \/ FolderRequest(r)
      PROVE  Tokens' /\ Whole' /\ Gone'
  BY <1>1, QuietRequests, EditKeeps, DeleteRowKeeps, DeletePartKeeps, RestoreKeeps,
     DeletePreviewKeeps, UploadCheckKeeps, UploadPostKeeps, UploadInsertKeeps
     DEF FileRequest, UploadRequest
<1>2. CASE \/ \E f \in Files : TaskFetch(f) \/ TaskStore(f)
           \/ Sweeper \/ Scheduled \/ Crash \/ UNCHANGED vars
  BY <1>2, Elsewhere, QuietStep DEF IndInv, Holding
<1> QED BY <1>1, <1>2 DEF Next
-----------------------------------------------------------------------------
(* Pictures *)

LEMMA PicturesStep ==
  ASSUME IndInv, [Next]_vars
  PROVE  Pictures'
<1> USE DEF IndInv, Pictures
<1>1. CASE UNCHANGED <<previews, pictured, swept, deleted>>
  BY <1>1
<1>2. ASSUME NEW f \in Files, PutPreview(f), UNCHANGED <<swept, deleted>> PROVE Pictures'
  BY <1>2 DEF PutPreview
<1>3. ASSUME NEW r \in Requests, FileRequest(r) PROVE Pictures'
  <2>1. CASE DeletePreview(r)
    BY <2>1 DEF DeletePreview, DropPreview
  <2>2. CASE \/ \E f \in Files, d \in Dirs : MoveOwned(r, f, d)
             \/ \E f \in Files, b \in BOOLEAN : ShowOwned(r, f, b)
             \/ \E f \in Files : DeleteOwned(r, f)
             \/ MoveTarget(r) \/ MoveSet(r) \/ ShowSet(r)
    BY <2>2, <1>1 DEF MoveOwned, ShowOwned, DeleteOwned, MoveTarget, MoveSet, ShowSet, disk, history
  <2>3. CASE DeleteRow(r) \/ DeletePart(r) \/ Restore(r)
    BY <2>3, <1>1 DEF DeleteRow, DeletePart, Restore, history
  <2> QED BY <1>3, <2>1, <2>2, <2>3 DEF FileRequest
<1>4. ASSUME NEW r \in Requests, UploadRequest(r) PROVE Pictures'
  <2>1. CASE UploadPreview(r)
    <3>1. req[r].file \in Files
      BY <2>1, Kinds DEF UploadPreview, At, UploadReqs
    <3> QED BY <2>1, <3>1, <1>1, <1>2 DEF UploadPreview
  <2>2. CASE (\E f \in Files, d \in Dirs : UploadCheck(r, f, d)) \/ UploadPost(r) \/ UploadInsert(r)
    BY <2>2, <1>1 DEF UploadCheck, UploadPost, UploadInsert, history
  <2> QED BY <1>4, <2>1, <2>2 DEF UploadRequest
<1>5. ASSUME NEW r \in Requests, FolderRequest(r) PROVE Pictures'
  BY <1>5, <1>1 DEF FolderRequest, CreateCheck, CreateFolder, RemoveGet, RemoveCheck,
                    RemoveFolder, RulesCheck, RulesSet, disk, history
<1>6. ASSUME NEW f \in Files, TaskFetch(f) \/ TaskStore(f) PROVE Pictures'
  BY <1>6, <1>1, <1>2 DEF TaskFetch, TaskStore, disk, history
<1>7. CASE Sweeper
  <2>1. ASSUME NEW f \in Files, SweepRemove(f) PROVE Pictures'
    BY <2>1 DEF SweepRemove, DropPreview
  <2>2. CASE SweepUids \/ SweepOpen \/ SweepEnd \/ NoSweep
    BY <2>2, <1>1 DEF SweepUids, SweepOpen, SweepEnd, NoSweep, disk, history
  <2> QED BY <1>7, <2>1, <2>2 DEF Sweeper
<1>8. CASE Scheduled \/ Crash \/ UNCHANGED vars
  BY <1>8, <1>1 DEF Scheduled, Crash, vars, disk, history
<1> HIDE DEF Pictures
<1> QED BY <1>3, <1>4, <1>5, <1>6, <1>7, <1>8 DEF Next
-----------------------------------------------------------------------------
(* Seen, Strays *)

\* What a request saw of the folder it goes to or restores into.
Saw(s, lost) ==
    /\ s.pc \in {"move_set", "post", "insert", "create"} => s.saw
    /\ s.pc \in {"delete_row", "delete_part", "restore"} => s.saw \/ s.file \in lost

LEMMA SawAll == Seen <=> \A q \in Requests : Saw(req[q], astray)
BY DEF Seen, Saw

\* What arrives in a lost folder is told apart by Arrive.
LEMMA ArrivesAstray ==
  ASSUME NEW x, NEW d, NEW s, Arrive(x, d, s)
  PROVE  /\ astray \subseteq astray'
         /\ Doomed(d) /\ s.saw => x \in astray'
BY DEF Arrive

\* Nothing that went astray is found again.
LEMMA AstrayGrows ==
  ASSUME NEW r \in Requests, FileRequest(r) \/ UploadRequest(r) \/ FolderRequest(r)
  PROVE  astray \subseteq astray'
<1>1. CASE FileRequest(r)
  <2>1. CASE MoveSet(r) \/ Restore(r)
    BY <2>1, ArrivesAstray DEF MoveSet, Restore
  <2> QED BY <1>1, <2>1 DEF FileRequest, MoveOwned, MoveTarget, ShowOwned, ShowSet, DeleteOwned,
                            DeleteRow, DeletePart, DeletePreview, history
<1>2. CASE UploadRequest(r)
  <2>1. CASE UploadInsert(r)
    BY <2>1, ArrivesAstray DEF UploadInsert
  <2> QED BY <1>2, <2>1 DEF UploadRequest, UploadCheck, UploadPost, UploadPreview, history
<1>3. CASE FolderRequest(r)
  <2>1. CASE CreateFolder(r)
    BY <2>1, ArrivesAstray DEF CreateFolder
  <2> QED BY <1>3, <2>1 DEF FolderRequest, CreateCheck, RemoveGet, RemoveCheck, RemoveFolder,
                            RulesCheck, RulesSet, history
<1> QED BY <1>1, <1>2, <1>3

LEMMA SeenStep ==
  ASSUME IndInv, NEW r \in Requests, FileRequest(r) \/ UploadRequest(r) \/ FolderRequest(r)
  PROVE  Seen'
<1> USE DEF IndInv
<1>1. astray \subseteq astray' /\ \A q \in Requests \ {r} : req'[q] = req[q]
  BY AstrayGrows, RequestTyped
<1> DEFINE Fine(s) == Saw(s, astray)
<1>2. SUFFICES \E s : Fine(s) /\ Goto(r, s)
  <2>1. PICK s : Fine(s) /\ Goto(r, s)
    BY <1>2
  <2>2. req'[r] = s
    BY <2>1 DEF Goto, Types
  <2> QED BY <1>1, <2>1, <2>2, SawAll DEF Seen, Saw
<1>3. Fine(req[r]) /\ Fine(Over)
  BY OverTyped DEF Seen, Saw
<1>4. CASE Goto(r, Over)
  BY <1>3, <1>4
<1>5. ASSUME NEW f \in Files, NEW d \in Dirs, MoveOwned(r, f, d) PROVE \E s : Fine(s) /\ Goto(r, s)
  <2>1. Fine([pc |-> "move_target", file |-> f, dir |-> d, saw |-> FALSE])
    BY DEF Saw
  <2> QED BY <1>5, <1>4, <2>1 DEF MoveOwned
<1>6. CASE MoveTarget(r)
  <2>1. req[r] \in MoveReqs
    BY <1>6, Kinds DEF MoveTarget, At
  <2>2. Exists(req[r].dir) =>
          Fine([req[r] EXCEPT !.pc = "move_set", !.saw = Exists(req[r].dir)])
    BY <2>1 DEF MoveReqs, Saw
  <2> QED BY <1>6, <1>4, <2>2 DEF MoveTarget
<1>7. ASSUME NEW f \in Files, NEW b \in BOOLEAN, ShowOwned(r, f, b)
      PROVE  \E s : Fine(s) /\ Goto(r, s)
  <2>1. Fine([pc |-> "show_set", file |-> f, public |-> b])
    BY DEF Saw
  <2> QED BY <1>7, <1>4, <2>1 DEF ShowOwned
<1>8. ASSUME NEW f \in Files, DeleteOwned(r, f) PROVE \E s : Fine(s) /\ Goto(r, s)
  <2> DEFINE d == rows[f][1].folder
             s == [pc |-> "delete_row", file |-> f, row |-> rows[f][1], part |-> 1, saw |-> Exists(d)]
  <2>0. HasRow(f) => rows[f][1] \in Row
    BY DEF Types, HasRow
  <2>1. HasRow(f) => d \in Dirs
    BY <2>0 DEF Row
  <2>2. HasRow(f) => Exists(d) \/ f \in astray
    BY <2>1 DEF Strays, Exists, Doomed, Dirs
  <2>3. HasRow(f) => Fine(s)
    BY <2>2 DEF Saw
  <2> QED BY <1>8, <1>4, <2>3 DEF DeleteOwned
<1>9. CASE DeleteRow(r)
  <2>1. req[r] \in OwnedReqs
    BY <1>9, Kinds DEF DeleteRow, At
  <2>2. Fine([req[r] EXCEPT !.pc = "delete_part"])
    BY <1>3, <2>1 DEF OwnedReqs, Saw
  <2> QED BY <1>9, <1>4, <2>2 DEF DeleteRow, Step
<1>10. CASE DeletePart(r)
  <2>1. req[r] \in DeleteReqs /\ req[r].pc = "delete_part"
    BY <1>10, Kinds DEF DeletePart, At
  <2>2. /\ Fine([req[r] EXCEPT !.pc = "delete_preview"]) /\ Fine([req[r] EXCEPT !.pc = "restore"])
        /\ Fine([req[r] EXCEPT !.part = @ + 1])
    BY <1>3, <2>1 DEF DeleteReqs, Saw
  <2>3. \/ Goto(r, [req[r] EXCEPT !.pc = "delete_preview"]) \/ Goto(r, [req[r] EXCEPT !.pc = "restore"])
        \/ Goto(r, [req[r] EXCEPT !.part = @ + 1])
    BY <1>10 DEF DeletePart, Step
  <2> QED BY <2>2, <2>3
<1>11. ASSUME NEW f \in Files, NEW d \in Dirs, UploadCheck(r, f, d)
       PROVE  \E s : Fine(s) /\ Goto(r, s)
  <2>1. Exists(d) => Fine([pc |-> "post", file |-> f, dir |-> d, saw |-> Exists(d)])
    BY DEF Saw
  <2> QED BY <1>11, <1>4, <2>1 DEF UploadCheck
<1>12. CASE UploadPost(r)
  <2>1. req[r] \in UploadReqs /\ req[r].pc = "post"
    BY <1>12, Kinds DEF UploadPost, At
  <2>2. PICK d \in Routed(req[r].dir) :
          Goto(r, [req[r] EXCEPT !.pc = "insert", !.dir = d,
                                 !.saw = IF d = req[r].dir THEN @ ELSE Exists(d)])
    BY <1>12 DEF UploadPost
  <2>3. d = req[r].dir \/ Exists(d)
    BY <2>2 DEF Routed, Exists
  <2>4. Fine([req[r] EXCEPT !.pc = "insert", !.dir = d,
                            !.saw = IF d = req[r].dir THEN @ ELSE Exists(d)])
    BY <1>3, <2>1, <2>3 DEF UploadReqs, Saw
  <2> QED BY <2>2, <2>4
<1>13. CASE UploadInsert(r)
  <2>1. req[r] \in UploadReqs
    BY <1>13, Kinds DEF UploadInsert, At
  <2>2. Fine([req[r] EXCEPT !.pc = "preview"])
    BY <2>1 DEF UploadReqs, Saw
  <2> QED BY <1>13, <1>4, <2>2 DEF UploadInsert, Step
<1>14. ASSUME NEW d \in Folders, NEW p \in Dirs, CreateCheck(r, d, p)
       PROVE  \E s : Fine(s) /\ Goto(r, s)
  <2>1. Exists(p) => Fine([pc |-> "create", dir |-> d, parent |-> p, saw |-> Exists(p)])
    BY DEF Saw
  <2> QED BY <1>14, <1>4, <2>1 DEF CreateCheck
<1>15. ASSUME NEW d \in Dirs, RemoveGet(r, d) \/ RulesCheck(r, d)
       PROVE  \E s : Fine(s) /\ Goto(r, s)
  <2>1. Fine([pc |-> "remove_check", dir |-> d]) /\ Fine([pc |-> "rules", dir |-> d])
    BY DEF Saw
  <2> QED BY <1>15, <1>4, <2>1 DEF RemoveGet, RulesCheck
<1>16. CASE RemoveCheck(r)
  <2>1. req[r] \in RemoveReqs
    BY <1>16, Kinds DEF RemoveCheck, At
  <2>2. Fine([req[r] EXCEPT !.pc = "remove"])
    BY <2>1 DEF RemoveReqs, Saw
  <2> QED BY <1>16, <1>4, <2>2 DEF RemoveCheck, Step
<1>17. CASE \/ MoveSet(r) \/ ShowSet(r) \/ Restore(r) \/ DeletePreview(r) \/ UploadPreview(r)
            \/ CreateFolder(r) \/ RemoveFolder(r) \/ RulesSet(r)
  BY <1>17, <1>4 DEF MoveSet, ShowSet, Restore, DeletePreview, UploadPreview, CreateFolder,
                     RemoveFolder, RulesSet
<1> HIDE DEF Fine
<1> QED BY <1>5, <1>6, <1>7, <1>8, <1>9, <1>10, <1>11, <1>12, <1>13, <1>14, <1>15, <1>16, <1>17
        DEF FileRequest, UploadRequest, FolderRequest, Dirs

\* A step after which no more folders are doomed than before, and which puts nothing
\* into a doomed one that did not go astray.
LEMMA StraysStep ==
  ASSUME Strays, astray \subseteq astray',
         \A d \in Folders : Doomed(d)' => Doomed(d),
         \A d \in Folders, f \in Files : Doomed(d) /\ rows'[f] # <<>> /\ rows'[f][1].folder = d =>
            (rows[f] # <<>> /\ rows[f][1].folder = d) \/ f \in astray',
         \A d \in Folders, e \in DOMAIN tree' : Doomed(d) /\ tree'[e] = d =>
            (e \in DOMAIN tree /\ tree[e] = d) \/ e \in astray'
  PROVE  Strays'
<1>1. SUFFICES ASSUME NEW d \in Folders, Doomed(d)'
               PROVE  /\ \A f \in Files : rows'[f] # <<>> /\ rows'[f][1].folder = d => f \in astray'
                      /\ \A e \in DOMAIN tree' : tree'[e] = d => e \in astray'
  BY DEF Strays, HasRow
<1>2. Doomed(d)
  BY <1>1
<1> QED BY <1>1, <1>2 DEF Strays, HasRow

\* As many removals are decided, and as many folders are there, as before.
LEMMA NoMoreDoomed ==
  ASSUME DOMAIN tree \subseteq DOMAIN tree',
         \A q \in Requests : req'[q] = req[q] \/ req'[q].pc # "remove"
  PROVE  \A d : Doomed(d)' => Doomed(d)
BY DEF Doomed, Exists, At

\* The requests that leave files and folders where they are.
LEMMA StraysQuiet ==
  ASSUME IndInv, NEW r \in Requests,
         FileRequest(r) \/ UploadRequest(r) \/ FolderRequest(r),
         UNCHANGED <<rows, tree>>, req'[r].pc # "remove"
  PROVE  Strays'
<1>1. \A d : Doomed(d)' => Doomed(d)
  BY RequestTyped, NoMoreDoomed DEF IndInv
<1> QED BY <1>1, AstrayGrows, StraysStep DEF IndInv

LEMMA StraysRows ==
  ASSUME IndInv, NEW r \in Requests,
         MoveSet(r) \/ ShowSet(r) \/ DeleteRow(r) \/ Restore(r) \/ UploadInsert(r)
  PROVE  Strays'
<1> USE DEF IndInv
<1> DEFINE f == req[r].file
<1>1. astray \subseteq astray'
  BY AstrayGrows DEF FileRequest, UploadRequest
<1>2. UNCHANGED tree /\ req'[r].pc # "remove" /\ \A q \in Requests \ {r} : req'[q] = req[q]
  <2>1. UNCHANGED tree /\ \A q \in Requests \ {r} : req'[q] = req[q]
    BY RequestTyped DEF MoveSet, ShowSet, DeleteRow, Restore, UploadInsert, FileRequest,
                        UploadRequest
  <2>2. CASE MoveSet(r) \/ ShowSet(r) \/ Restore(r)
    BY <2>1, <2>2, OverTyped DEF MoveSet, ShowSet, Restore, Goto, Types
  <2>3. CASE DeleteRow(r)
    <3>1. req[r] \in OwnedReqs
      BY <2>3, Kinds DEF DeleteRow, At
    <3> QED BY <2>1, <2>3, <3>1, OverTyped DEF DeleteRow, Step, Goto, Types, OwnedReqs
  <2>4. CASE UploadInsert(r)
    <3>1. req[r] \in UploadReqs
      BY <2>4, Kinds DEF UploadInsert, At
    <3> QED BY <2>1, <2>4, <3>1, OverTyped DEF UploadInsert, Step, Goto, Types, UploadReqs
  <2> QED BY <2>2, <2>3, <2>4, <2>1
<1>3. \A d : Doomed(d)' => Doomed(d)
  BY <1>2, NoMoreDoomed
<1>4. f \in Files
  BY Kinds DEF MoveSet, ShowSet, DeleteRow, Restore, UploadInsert, At, MoveReqs, ShowReqs,
               OwnedReqs, DeleteReqs, UploadReqs
<1>5. \A e \in Files \ {f} : rows'[e] = rows[e]
  <2>1. CASE MoveSet(r) \/ ShowSet(r)
    BY <2>1, MovedRow, ShownRow
  <2>2. CASE DeleteRow(r)
    BY <2>2 DEF DeleteRow, DeleteRows, Types
  <2>3. CASE Restore(r)
    BY <2>3, Kinds, Inserted DEF Restore, At, DeleteReqs
  <2>4. CASE UploadInsert(r)
    <3>1. [folder |-> req[r].dir, public |-> FALSE] \in Row
      BY <2>4, Kinds DEF UploadInsert, At, UploadReqs, Row
    <3> QED BY <2>4, <1>4, <3>1, Inserted DEF UploadInsert
  <2> QED BY <2>1, <2>2, <2>3, <2>4
<1>6. \A d \in Folders : Doomed(d) /\ rows'[f] # <<>> /\ rows'[f][1].folder = d =>
        (rows[f] # <<>> /\ rows[f][1].folder = d) \/ f \in astray'
  <2>1. CASE MoveSet(r)
    <3>1. CASE rows[f] # <<>>
      <4>1. rows'[f][1] = [rows[f][1] EXCEPT !.folder = req[r].dir] /\ rows[f][1] \in Row
        BY <2>1, <3>1, <1>4, MovedRow DEF Types
      <4>2. rows'[f][1].folder = req[r].dir
        BY <4>1 DEF Row
      <4>3. Arrive(f, req[r].dir, req[r]) /\ req[r].saw
        BY <2>1, <3>1 DEF MoveSet, HasRow, Seen, At
      <4> QED BY <4>2, <4>3, ArrivesAstray
    <3>2. CASE rows[f] = <<>>
      <4>1. Len(rows'[f]) = Len(rows[f]) /\ rows'[f] \in Seq(Row)
        BY <2>1, <1>4, MovedRow
      <4> QED BY <3>2, <4>1, EmptySeq
    <3> QED BY <3>1, <3>2
  <2>2. CASE ShowSet(r)
    <3>1. CASE rows[f] # <<>>
      <4>1. rows'[f][1] = [rows[f][1] EXCEPT !.public = req[r].public] /\ rows[f][1] \in Row
        BY <2>2, <3>1, <1>4, ShownRow DEF Types
      <4> QED BY <3>1, <4>1 DEF Row
    <3>2. CASE rows[f] = <<>>
      <4>1. Len(rows'[f]) = Len(rows[f]) /\ rows'[f] \in Seq(Row)
        BY <2>2, <1>4, ShownRow
      <4> QED BY <3>2, <4>1, EmptySeq
    <3> QED BY <3>1, <3>2
  <2>3. CASE DeleteRow(r)
    BY <2>3, <1>4 DEF DeleteRow, DeleteRows, Types
  <2>4. CASE Restore(r)
    <3>1. CASE UNCHANGED rows
      BY <3>1
    <3>2. CASE InsertRow(f, req[r].row) /\ Arrive(f, req[r].row.folder, req[r])
      <4>1. req[r].row \in Row /\ rows[f] = <<>>
        BY <2>4, Kinds, Held DEF Restore, At, DeleteReqs, Holding
      <4>2. rows'[f][1] = req[r].row
        BY <3>2, <4>1, <1>4, Inserted
      <4>3. req[r].saw \/ f \in astray
        BY <2>4 DEF Restore, Seen, At
      <4> QED BY <4>2, <4>3, <3>2, ArrivesAstray
    <3> QED BY <2>4, <3>1, <3>2 DEF Restore
  <2>5. CASE UploadInsert(r)
    <3> DEFINE row == [folder |-> req[r].dir, public |-> FALSE]
    <3>1. CASE UNCHANGED rows
      BY <3>1
    <3>2. CASE InsertRow(f, row) /\ Arrive(f, req[r].dir, req[r])
      <4>1. row \in Row /\ rows[f] = <<>>
        BY <2>5, Kinds, Held DEF UploadInsert, At, UploadReqs, Row, Holding
      <4>2. rows'[f][1] = row
        BY <3>2, <4>1, <1>4, Inserted
      <4>3. req[r].saw
        BY <2>5 DEF UploadInsert, Seen, At
      <4> QED BY <4>2, <4>3, <3>2, ArrivesAstray
    <3> QED BY <2>5, <3>1, <3>2 DEF UploadInsert
  <2> QED BY <2>1, <2>2, <2>3, <2>4, <2>5
<1> HIDE DEF f
<1>7. \A d \in Folders, e \in Files : Doomed(d) /\ rows'[e] # <<>> /\ rows'[e][1].folder = d =>
        (rows[e] # <<>> /\ rows[e][1].folder = d) \/ e \in astray'
  BY <1>4, <1>5, <1>6
<1> QED BY <1>1, <1>2, <1>3, <1>7, StraysStep

\* A folder is created where its parent is, or went astray.
LEMMA StraysCreate ==
  ASSUME IndInv, NEW r \in Requests, CreateFolder(r)
  PROVE  Strays'
<1> USE DEF IndInv
<1> DEFINE e == req[r].dir
           p == req[r].parent
<1>1. UNCHANGED rows /\ tree' = [d \in DOMAIN tree \cup {e} |-> IF d = e THEN p ELSE tree[d]]
      /\ Arrive(e, p, req[r]) /\ req[r].saw
  BY DEF CreateFolder, CreateDir, Seen, At
<1>2. req'[r].pc = "over" /\ \A q \in Requests \ {r} : req'[q] = req[q]
  BY GotoTyped, OverTyped DEF CreateFolder
<1>3. \A d : Doomed(d)' => Doomed(d)
  BY <1>1, <1>2, NoMoreDoomed
<1>4. astray \subseteq astray' /\ (Doomed(p) => e \in astray')
  BY <1>1, ArrivesAstray
<1> HIDE DEF e, p
<1>5. \A d \in Folders, c \in DOMAIN tree' : Doomed(d) /\ tree'[c] = d =>
        (c \in DOMAIN tree /\ tree[c] = d) \/ c \in astray'
  BY <1>1, <1>4
<1> QED BY <1>1, <1>3, <1>4, <1>5, StraysStep

\* A removal is decided over an empty folder, and is doomed from then on.
LEMMA StraysRemove ==
  ASSUME IndInv, NEW r \in Requests, RemoveCheck(r) \/ RemoveFolder(r)
  PROVE  Strays'
<1> USE DEF IndInv
<1>1. req[r] \in RemoveReqs
  BY Kinds DEF RemoveCheck, RemoveFolder, At
<1>2. UNCHANGED <<rows, astray>> /\ \A q \in Requests \ {r} : req'[q] = req[q]
  BY RequestTyped DEF RemoveCheck, RemoveFolder, FolderRequest, disk, history
<1>3. CASE RemoveCheck(r) /\ FolderIsEmpty(req[r].dir)
  <2>1. req'[r] = [req[r] EXCEPT !.pc = "remove"] /\ UNCHANGED tree
    BY <1>3 DEF RemoveCheck, Step, Goto, Types, disk
  <2>2. req'[r].dir = req[r].dir
    BY <2>1, <1>1 DEF RemoveReqs
  <2>3. ASSUME NEW d \in Folders, Doomed(d)' PROVE Doomed(d) \/ d = req[r].dir
    BY <2>1, <2>2, <2>3, <1>2 DEF Doomed, Exists, At
  <2>4. /\ \A f \in Files : HasRow(f) => rows[f][1].folder # req[r].dir
        /\ \A e \in DOMAIN tree : tree[e] # req[r].dir
    <3>1. \A f \in Files : HasRow(f) => 1 \in DOMAIN rows[f]
      BY EmptySeq DEF HasRow, Types
    <3> QED BY <1>3, <3>1 DEF FolderIsEmpty
  <2>5. SUFFICES ASSUME NEW d \in Folders, Doomed(d)'
                 PROVE  /\ \A f \in Files : rows[f] # <<>> /\ rows[f][1].folder = d => f \in astray
                        /\ \A e \in DOMAIN tree : tree[e] = d => e \in astray
    BY <1>2, <2>1 DEF Strays, HasRow
  <2> QED BY <2>3, <2>4, <2>5 DEF Strays, HasRow
<1>4. CASE RemoveCheck(r) /\ ~FolderIsEmpty(req[r].dir)
  <2>1. Goto(r, Over) /\ UNCHANGED tree
    BY <1>4 DEF RemoveCheck, disk
  <2>2. req'[r].pc # "remove"
    BY <2>1, GotoTyped, OverTyped
  <2> QED BY <1>4, <1>2, <2>1, <2>2, StraysQuiet DEF FolderRequest
<1>5. CASE RemoveFolder(r)
  <2>1. req'[r].pc = "over" /\ tree' = [e \in DOMAIN tree \ {req[r].dir} |-> tree[e]]
        /\ req[r].pc = "remove"
    BY <1>5, GotoTyped, OverTyped DEF RemoveFolder, DeleteDir, At
  <2>2. ASSUME NEW d \in Folders, Doomed(d)' PROVE Doomed(d)
    BY <2>1, <2>2, <1>2 DEF Doomed, Exists, At
  <2> QED BY <2>1, <2>2, <1>2, StraysStep
<1> QED BY <1>3, <1>4, <1>5

LEMMA SeenStraysStep ==
  ASSUME IndInv, [Next]_vars
  PROVE  Seen' /\ Strays'
<1> USE DEF IndInv
<1>1. ASSUME NEW r \in Requests, FileRequest(r) \/ UploadRequest(r) \/ FolderRequest(r)
      PROVE  Seen' /\ Strays'
  <2>1. CASE \/ MoveSet(r) \/ ShowSet(r) \/ DeleteRow(r) \/ Restore(r) \/ UploadInsert(r)
             \/ CreateFolder(r) \/ RemoveCheck(r) \/ RemoveFolder(r)
    BY <1>1, <2>1, SeenStep, StraysRows, StraysCreate, StraysRemove
  <2>2. ASSUME UNCHANGED <<rows, tree>>, req'[r].pc # "remove" PROVE Seen' /\ Strays'
    BY <1>1, <2>2, SeenStep, StraysQuiet
  <2>3. DOMAIN req = Requests
    BY DEF Types
  <2>4. ASSUME NEW f \in Files, NEW d \in Dirs, MoveOwned(r, f, d) \/ UploadCheck(r, f, d)
        PROVE  Seen' /\ Strays'
    BY <2>4, <2>2, <2>3, OverTyped DEF MoveOwned, UploadCheck, Goto, disk
  <2>5. ASSUME NEW f \in Files, DeleteOwned(r, f) \/ \E b \in BOOLEAN : ShowOwned(r, f, b)
        PROVE  Seen' /\ Strays'
    BY <2>5, <2>2, <2>3, OverTyped DEF DeleteOwned, ShowOwned, Goto, disk
  <2>6. CASE MoveTarget(r)
    <3>1. req[r] \in MoveReqs
      BY <2>6, Kinds DEF MoveTarget, At
    <3> QED BY <2>6, <2>2, <2>3, <3>1, OverTyped DEF MoveTarget, Goto, disk, MoveReqs
  <2>7. CASE DeletePart(r)
    <3>1. req[r] \in DeleteReqs /\ req[r].pc = "delete_part"
      BY <2>7, Kinds DEF DeletePart, At
    <3> QED BY <2>7, <2>2, <2>3, <3>1 DEF DeletePart, Step, Goto, DeleteReqs
  <2>8. CASE DeletePreview(r) \/ UploadPreview(r) \/ RulesSet(r)
    BY <2>8, <2>2, <2>3, OverTyped DEF DeletePreview, UploadPreview, RulesSet, Goto
  <2>9. CASE UploadPost(r)
    <3>1. req[r] \in UploadReqs
      BY <2>9, Kinds DEF UploadPost, At
    <3>2. PICK d \in Routed(req[r].dir) :
            Goto(r, [req[r] EXCEPT !.pc = "insert", !.dir = d,
                                   !.saw = IF d = req[r].dir THEN @ ELSE Exists(d)])
      BY <2>9 DEF UploadPost
    <3>3. req'[r].pc = "insert"
      BY <2>3, <3>1, <3>2 DEF Goto, UploadReqs
    <3> QED BY <2>9, <2>2, <3>3 DEF UploadPost
  <2>10. ASSUME NEW d \in Dirs,
                \/ RemoveGet(r, d) \/ RulesCheck(r, d) \/ \E p \in Dirs : CreateCheck(r, d, p)
         PROVE  Seen' /\ Strays'
    BY <2>10, <2>2, <2>3, OverTyped DEF RemoveGet, RulesCheck, CreateCheck, Goto, disk
  <2> QED BY <1>1, <2>1, <2>4, <2>5, <2>6, <2>7, <2>8, <2>9, <2>10
          DEF FileRequest, UploadRequest, FolderRequest, Dirs
<1>2. CASE \/ \E f \in Files : TaskFetch(f) \/ TaskStore(f)
           \/ Sweeper \/ Scheduled \/ Crash \/ UNCHANGED vars
  <2>1. /\ UNCHANGED <<rows, tree, astray>>
        /\ \A q \in Requests : req'[q] = req[q] \/ req'[q].pc \in {"idle", "over"}
    BY <1>2, Elsewhere
  <2>2. \A d : Doomed(d)' => Doomed(d)
    BY <2>1, NoMoreDoomed
  <2>3. Seen'
    BY <2>1 DEF Seen
  <2>4. Strays'
    BY <2>1, <2>2, StraysStep
  <2> QED BY <2>3, <2>4
<1> QED BY <1>1, <1>2 DEF Next
-----------------------------------------------------------------------------
(* The invariant and what follows from it *)

LEMMA InitHolds ==
  ASSUME Init
  PROVE  IndInv
<1> USE DriveAssumption, OverTyped
<1>1. Types
  <2>1. [folder |-> Home, public |-> FALSE] \in Row
    BY DEF Row, Dirs
  <2>2. <<[folder |-> Home, public |-> FALSE]>> \in Seq(Row) /\ <<>> \in Seq(Row)
    BY <2>1
  <2>3. rows \in [Files -> Seq(Row)]
    BY <2>2 DEF Init
  <2>4. TreeTyped /\ rule \in Dirs
    BY DEF Init, TreeTyped, Dirs
  <2> QED BY <2>1, <2>3, <2>4 DEF Init, Types
<1>2. ASSUME NEW q \in Requests PROVE req[q] = Idle /\ req[q].pc = "idle"
  BY DEF Init
<1>3. ASSUME NEW f \in Files
      PROVE  /\ Len(rows[f]) <= 1
             /\ rows[f] # <<>> => f \in Stored
             /\ rows[f] # <<>> => rows[f][1] = [folder |-> Home, public |-> FALSE]
  BY DEF Init
<1>4. Tokens
  BY <1>2, <1>3 DEF Init, Tokens, Holds, Holding
<1>5. Whole
  BY <1>2, <1>3 DEF Init, Whole, HasRow, At
<1>6. Gone
  BY <1>2 DEF Init, Gone, At
<1>7. Pictures
  BY DEF Init, Pictures
<1>8. Seen
  BY <1>2 DEF Seen
<1>9. Strays
  <2>1. \A d \in Folders : Doomed(d) => d # Home
    BY <1>2 DEF Init, Doomed, Exists, At
  <2>2. \A f \in Files : HasRow(f) => rows[f][1].folder = Home
    BY <1>3 DEF HasRow
  <2>3. \A e \in DOMAIN tree : tree[e] = Root
    BY DEF Init
  <2> QED BY <2>1, <2>2, <2>3 DEF Strays
<1> QED BY <1>1, <1>4, <1>5, <1>6, <1>7, <1>8, <1>9 DEF IndInv

LEMMA Invariance == Spec => []IndInv
<1>1. Init => IndInv
  BY InitHolds
<1>2. IndInv /\ [Next]_vars => IndInv'
  <2>1. SUFFICES ASSUME IndInv, [Next]_vars PROVE IndInv'
    OBVIOUS
  <2>2. Types'
    BY <2>1, TypesStep DEF IndInv
  <2>3. Tokens' /\ Whole' /\ Gone'
    BY <2>1, TokensStep
  <2>4. Pictures'
    BY <2>1, PicturesStep
  <2>5. Seen' /\ Strays'
    BY <2>1, SeenStraysStep
  <2> QED BY <2>2, <2>3, <2>4, <2>5 DEF IndInv
<1> QED BY <1>1, <1>2, PTL DEF Spec

\* No interleaving of uploads and deletions, failed and restored ones among them, gives a
\* uid a second row, although the table would take one (listing.rs:94-97).
THEOREM RowsUnique == Spec => []OneRowPerFile
<1>1. IndInv => OneRowPerFile
  BY DEF IndInv, Tokens, OneRowPerFile
<1> QED BY <1>1, Invariance, PTL

\* An acknowledged deletion stays: no request that was in flight brings the row back, and
\* every one of the file's messages was removed (listing.rs:94-123).
THEOREM DeletionsFinal == Spec => []DeletedIsFinal
<1>1. IndInv => DeletedIsFinal
  BY DEF IndInv, Tokens, Gone, DeletedIsFinal, HasRow
<1> QED BY <1>1, Invariance, PTL

\* Whatever else runs or crashes, a listed file has all its messages, unless a deletion of
\* it answered an error (listing.rs:98-111).
THEOREM ListingsStored == Spec => []ListedIsStored
<1>1. IndInv => ListedIsStored
  BY DEF IndInv, Whole, ListedIsStored
<1> QED BY <1>1, Invariance, PTL

\* A move or a visibility change that was acknowledged is what the row says until the next
\* one, whatever is interleaved, short of a failed deletion (listing.rs:20-56).
THEOREM EditsKept == Spec => []AcknowledgedEditKept
<1>1. IndInv => AcknowledgedEditKept
  BY DEF IndInv, Whole, AcknowledgedEditKept
<1> QED BY <1>1, Invariance, PTL

\* What ends in a removed folder got there after the removal had looked, or by a request
\* that had looked before the removal: nothing else is lost with it (folders.rs:49-79).
THEOREM LateArrivalsOnly == Spec => []OnlyLateArrivalsLost
<1>1. IndInv => OnlyLateArrivalsLost
  <2>1. SUFFICES ASSUME IndInv PROVE OnlyLateArrivalsLost
    OBVIOUS
  <2>2. ASSUME NEW d \in Dirs, ~Exists(d) PROVE d \in Folders /\ Doomed(d)
    BY <2>2 DEF Dirs, Exists, Doomed
  <2>3. ASSUME NEW f \in Files, HasRow(f) PROVE rows[f][1].folder \in Dirs
    <3>1. rows[f][1] \in Row
      BY <2>1, <2>3 DEF IndInv, Types, HasRow
    <3> QED BY <3>1 DEF Row
  <2>4. \A e \in DOMAIN tree : tree[e] \in Dirs
    BY <2>1 DEF IndInv, Types, TreeTyped
  <2> QED BY <2>1, <2>2, <2>3, <2>4 DEF IndInv, Strays, OnlyLateArrivalsLost
<1> QED BY <1>1, Invariance, PTL

\* A file that is listed has lost no preview but to a sweep (thumbs.rs:127-148).
THEOREM PreviewsKept == Spec => []PreviewKept
<1>1. IndInv => PreviewKept
  BY DEF IndInv, Pictures, Tokens, PreviewKept, HasRow
<1> QED BY <1>1, Invariance, PTL
=============================================================================
