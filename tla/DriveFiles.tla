----------------------------- MODULE DriveFiles -----------------------------
(***************************************************************************)
(* The drive's metadata: file rows and folder rows in the database, the    *)
(* part messages they stand for on Telegram, and the preview files on      *)
(* disk.  Each HTTP handler is a request that awaits between its queries,  *)
(* so requests, detached thumbnail tasks, the preview sweeper and a crash  *)
(* interleave at every await.  Only the owner's requests are modelled: a   *)
(* request of another account ends at its first read, as for a missing id. *)
(***************************************************************************)
EXTENDS Handlers, Sequences

CONSTANTS
    Files,      \* file uids
    Stored,     \* the files present at start, all of them in Home
    Folders,    \* folder uids
    Home,       \* the folder present at start
    Root,       \* the folder id "" of the root
    NParts,     \* messages per file
    MaxCrashes  \* bound on process restarts

ASSUME DriveAssumption ==
    /\ Stored \subseteq Files /\ Home \in Folders /\ Root \notin Folders
    /\ NParts \in Nat \ {0} /\ MaxRequests \in Nat /\ MaxCrashes \in Nat

VARIABLES
    rows,      \* the rows of each uid in table `file`, which has no unique index
    tree,      \* the parent of each folder in table `folder`
    rule,      \* the folder of the account's upload rule, Root when there is none
    messages,  \* the part messages on Telegram
    previews,  \* the uids with a stored AVIF
    used,      \* the uids handed out, of files and of folders
    task,      \* the detached thumbnail task of each file
    sweep,     \* the preview sweeper, off while no sweep is due
    crashes,
    \* What the clients were told and what happened, read by no action:
    deleted,   \* the files whose deletion was acknowledged
    failed,    \* the files with a deletion that gave up half-way
    promised,  \* the folder and visibility last acknowledged
    astray,    \* files and folders that arrived during the removal of the folder
    pictured,  \* the files a preview was stored for
    swept      \* the files whose preview a sweep removed

history == <<deleted, failed, promised, astray, pictured, swept>>
disk    == <<rows, tree, rule, messages, previews, used>>
vars    == <<disk, req, task, sweep, crashes, history>>

-----------------------------------------------------------------------------
Dirs  == Folders \cup {Root}
Parts(f) == {<<f, i>> : i \in 1..NParts}

Calm == [pc |-> "idle"]
Off  == [pc |-> "off"]

Exists(d)  == d = Root \/ d \in DOMAIN tree
HasRow(f)  == rows[f] # <<>>

(* `UPDATE file SET .. WHERE uid = $uid`: every row of the uid. *)
SetFolder(f, d) ==
    rows' = [rows EXCEPT ![f] = [i \in DOMAIN rows[f] |-> [rows[f][i] EXCEPT !.folder = d]]]
SetPublic(f, b) ==
    rows' = [rows EXCEPT ![f] = [i \in DOMAIN rows[f] |-> [rows[f][i] EXCEPT !.public = b]]]
InsertRow(f, row) == rows' = [rows EXCEPT ![f] = Append(@, row)]
DeleteRows(f)     == rows' = [rows EXCEPT ![f] = <<>>]
CreateDir(d, p)   == tree' = [e \in DOMAIN tree \cup {d} |-> IF e = d THEN p ELSE tree[e]]
DeleteDir(d)      == tree' = [e \in DOMAIN tree \ {d} |-> tree[e]]
PutPreview(f)     == previews' = previews \cup {f} /\ pictured' = pictured \cup {f}
DropPreview(f)    == previews' = previews \ {f}
UsedUids == Files \cap used          \* mutant: every uid ever handed out counts as live
LiveUids == {f \in Files : HasRow(f)}

(* Something lands in folder d on behalf of request s; it may be lost there *)
(* only if s saw d exist and its removal has been decided since.            *)
Doomed(d) == ~Exists(d) \/ \E r \in Requests : At(r, "remove") /\ req[r].dir = d
Arrive(x, d, s) ==
    astray' = IF Doomed(d) /\ s.saw THEN astray \cup {x} ELSE astray

Init ==
    /\ rows = [f \in Files |-> IF f \in Stored
                               THEN <<[folder |-> Home, public |-> FALSE]>> ELSE <<>>]
    /\ tree = [d \in {Home} |-> Root] /\ rule = Home
    /\ messages = UNION {Parts(f) : f \in Stored}
    /\ previews = Stored
    /\ used = Stored \cup {Home}
    /\ req = [r \in Requests |-> Idle]
    /\ task = [f \in Files |-> "none"]
    /\ sweep = Calm
    /\ crashes = 0
    /\ deleted = {} /\ failed = {} /\ astray = {} /\ swept = {}
    /\ promised = [f \in Files |-> [folder |-> Home, public |-> FALSE]]
    /\ pictured = Stored

-----------------------------------------------------------------------------
(* PATCH /files/{id}/move *)
MoveOwned(r, f, d) ==
    /\ Arrives(r)
    /\ Goto(r, IF HasRow(f)
               THEN [pc |-> "move_target", file |-> f, dir |-> d, saw |-> FALSE]
               ELSE Over)
    /\ UNCHANGED <<disk, task, sweep, crashes, history>>

MoveTarget(r) ==
    /\ At(r, "move_target")
    /\ Goto(r, IF Exists(req[r].dir)
               THEN [req[r] EXCEPT !.pc = "move_set", !.saw = Exists(req[r].dir)] ELSE Over)
    /\ UNCHANGED <<disk, task, sweep, crashes, history>>

MoveSet(r) ==
    /\ At(r, "move_set")
    /\ LET f == req[r].file  d == req[r].dir
       IN  /\ SetFolder(f, d)
           /\ IF HasRow(f)
              THEN promised' = [promised EXCEPT ![f].folder = d] /\ Arrive(f, d, req[r])
              ELSE UNCHANGED <<promised, astray>>
    /\ Goto(r, Over)
    /\ UNCHANGED <<tree, rule, messages, previews, used, task, sweep, crashes,
                   deleted, failed, pictured, swept>>

(* PATCH /files/{id}/visibility *)
ShowOwned(r, f, b) ==
    /\ Arrives(r)
    /\ Goto(r, IF HasRow(f) THEN [pc |-> "show_set", file |-> f, public |-> b] ELSE Over)
    /\ UNCHANGED <<disk, task, sweep, crashes, history>>

ShowFlip(r) ==                    \* mutant: the stored flag is inverted
    /\ At(r, "show_set")
    /\ LET f == req[r].file
       IN  /\ SetPublic(f, HasRow(f) /\ ~rows[f][1].public)
           /\ promised' = IF HasRow(f)
                          THEN [promised EXCEPT ![f].public = req[r].public] ELSE promised
    /\ Goto(r, Over)
    /\ UNCHANGED <<tree, rule, messages, previews, used, task, sweep, crashes,
                   deleted, failed, astray, pictured, swept>>

ShowSet(r) ==
    /\ At(r, "show_set")
    /\ LET f == req[r].file
       IN  /\ SetPublic(f, req[r].public)
           /\ promised' = IF HasRow(f)
                          THEN [promised EXCEPT ![f].public = req[r].public] ELSE promised
    /\ Goto(r, Over)
    /\ UNCHANGED <<tree, rule, messages, previews, used, task, sweep, crashes,
                   deleted, failed, astray, pictured, swept>>

-----------------------------------------------------------------------------
(* DELETE /files/{id}: the row first, then its messages one by one, and the *)
(* row read at the start put back when a message cannot be deleted.         *)
DeleteOwned(r, f) ==
    /\ Arrives(r)
    /\ \/ HasRow(f) /\ Goto(r, [pc |-> "delete_row", file |-> f, row |-> rows[f][1],
                                part |-> 1, saw |-> Exists(rows[f][1].folder)])
       \/ Goto(r, Over)                       \* no such row, or not signed in
    /\ UNCHANGED <<disk, task, sweep, crashes, history>>

DeleteRowUnchecked(r) ==          \* mutant: the count of deleted rows is ignored
    /\ At(r, "delete_row")
    /\ Step(r, "delete_part")
    /\ DeleteRows(req[r].file)
    /\ UNCHANGED <<tree, rule, messages, previews, used, task, sweep, crashes, history>>

DeleteRowAndPreview(r) ==         \* mutant: the preview goes with the row
    /\ At(r, "delete_row")
    /\ IF HasRow(req[r].file) THEN Step(r, "delete_part") ELSE Goto(r, Over)
    /\ DeleteRows(req[r].file)
    /\ DropPreview(req[r].file)
    /\ UNCHANGED <<tree, rule, messages, used, task, sweep, crashes, history>>

DeleteRowLater(r) ==              \* mutant: the row is deleted after the messages
    /\ At(r, "delete_row")
    /\ IF HasRow(req[r].file) THEN Step(r, "delete_part") ELSE Goto(r, Over)
    /\ UNCHANGED <<disk, task, sweep, crashes, history>>

DeleteRow(r) ==
    /\ At(r, "delete_row")
    /\ IF HasRow(req[r].file) THEN Step(r, "delete_part") ELSE Goto(r, Over)
    /\ DeleteRows(req[r].file)
    /\ UNCHANGED <<tree, rule, messages, previews, used, task, sweep, crashes, history>>

(* A message already gone is skipped; any other error stops the loop. *)
DeletePartSkips(r) ==             \* mutant: the walk ends one part early
    /\ At(r, "delete_part")
    /\ LET s == req[r]
       IN  \/ /\ messages' = messages \ {<<s.file, s.part>>}
              /\ Goto(r, IF s.part + 1 >= NParts THEN [s EXCEPT !.pc = "delete_preview"]
                                                ELSE [s EXCEPT !.part = @ + 1])
           \/ Step(r, "restore") /\ UNCHANGED messages
    /\ UNCHANGED <<rows, tree, rule, previews, used, task, sweep, crashes, history>>

DeletePart(r) ==
    /\ At(r, "delete_part")
    /\ LET s == req[r]
       IN  \/ /\ messages' = messages \ {<<s.file, s.part>>}
              /\ Goto(r, IF s.part = NParts THEN [s EXCEPT !.pc = "delete_preview"]
                                            ELSE [s EXCEPT !.part = @ + 1])
           \/ Step(r, "restore") /\ UNCHANGED messages
    /\ UNCHANGED <<rows, tree, rule, previews, used, task, sweep, crashes, history>>

(* The restoring insert can fail too; the answer is an error in both cases. *)
Restore(r) ==
    /\ At(r, "restore")
    /\ LET s == req[r]
       IN  /\ \/ InsertRow(s.file, s.row) /\ Arrive(s.file, s.row.folder, s)
              \/ UNCHANGED <<rows, astray>>
           /\ failed' = failed \cup {s.file}
    /\ Goto(r, Over)
    /\ UNCHANGED <<tree, rule, messages, previews, used, task, sweep, crashes,
                   deleted, promised, pictured, swept>>

DeletePreview(r) ==
    /\ At(r, "delete_preview")
    /\ DropPreview(req[r].file)
    /\ deleted' = deleted \cup {req[r].file}
    /\ Goto(r, Over)
    /\ UNCHANGED <<rows, tree, rule, messages, used, task, sweep, crashes,
                   failed, promised, astray, pictured, swept>>

-----------------------------------------------------------------------------
(* An upload as the drive sees it: the folder is checked before the body   *)
(* arrives, the row is inserted after the last part was posted.            *)
UploadCheck(r, f, d) ==
    /\ Arrives(r) /\ f \notin used
    /\ used' = used \cup {f}
    /\ Goto(r, IF Exists(d) THEN [pc |-> "post", file |-> f, dir |-> d, saw |-> Exists(d)]
                            ELSE Over)
    /\ UNCHANGED <<rows, tree, rule, messages, previews, task, sweep, crashes, history>>

(* A file without an explicit folder goes where the rule for its kind says, *)
(* if that folder still exists; a stale rule leaves it in the root.         *)
Routed(d) == IF d = Root /\ Exists(rule) THEN {Root, rule} ELSE {d}

UploadPost(r) ==
    /\ At(r, "post")
    /\ messages' = messages \cup Parts(req[r].file)
    /\ \E d \in Routed(req[r].dir) :
          Goto(r, [req[r] EXCEPT !.pc = "insert", !.dir = d, 
                                 !.saw = IF d = req[r].dir THEN @ ELSE Exists(d)])
    /\ UNCHANGED <<rows, tree, rule, previews, used, task, sweep, crashes, history>>

UploadInsert(r) ==
    /\ At(r, "insert")
    /\ LET s == req[r]  row == [folder |-> s.dir, public |-> FALSE]
       IN  \/ /\ InsertRow(s.file, row)
              /\ promised' = [promised EXCEPT ![s.file] = row]
              /\ Arrive(s.file, s.dir, s)
              /\ Step(r, "preview")
              /\ UNCHANGED messages
           \/ /\ \E lost \in SUBSET Parts(s.file) :         \* cleanup_parts
                    messages' = (messages \ Parts(s.file)) \cup lost
              /\ Goto(r, Over)
              /\ UNCHANGED <<rows, promised, astray>>
    /\ UNCHANGED <<tree, rule, previews, used, task, sweep, crashes,
                   deleted, failed, pictured, swept>>

(* The preview at hand is stored, or a task is detached to make one, or the *)
(* file is of a kind that has none.                                         *)
UploadPreview(r) ==
    /\ At(r, "preview")
    /\ LET f == req[r].file
       IN  \/ PutPreview(f) /\ UNCHANGED task
           \/ task' = [task EXCEPT ![f] = "fetch"] /\ UNCHANGED <<previews, pictured>>
           \/ UNCHANGED <<previews, pictured, task>>
    /\ Goto(r, Over)
    /\ UNCHANGED <<rows, tree, rule, messages, used, sweep, crashes,
                   deleted, failed, promised, astray, swept>>

(* download_bounded (and ffmpeg, over the raw endpoint) read the first part. *)
FirstPartReadable(f) == <<f, 1>> \in messages

(* extract_media_thumb reads the first part, then writes the AVIF whether   *)
(* or not the file is still there.                                          *)
TaskFetch(f) ==
    /\ task[f] = "fetch"
    /\ task' = [task EXCEPT ![f] = IF FirstPartReadable(f) THEN "store" ELSE "none"]
    /\ UNCHANGED <<disk, req, sweep, crashes, history>>

TaskStore(f) ==
    /\ task[f] = "store"
    /\ task' = [task EXCEPT ![f] = "none"]
    /\ \/ PutPreview(f)
       \/ UNCHANGED <<previews, pictured>>              \* not decodable
    /\ UNCHANGED <<rows, tree, rule, messages, used, req, sweep, crashes,
                   deleted, failed, promised, astray, swept>>

-----------------------------------------------------------------------------
(* POST /folders and DELETE /folders/{id} *)
CreateCheck(r, d, p) ==
    /\ Arrives(r) /\ d \notin used
    /\ used' = used \cup {d}
    /\ Goto(r, IF Exists(p) THEN [pc |-> "create", dir |-> d, parent |-> p,
                                  saw |-> Exists(p)]
                            ELSE Over)
    /\ UNCHANGED <<rows, tree, rule, messages, previews, task, sweep, crashes, history>>

CreateFolder(r) ==
    /\ At(r, "create")
    /\ LET s == req[r]
       IN  /\ CreateDir(s.dir, s.parent)
           /\ Arrive(s.dir, s.parent, s)
    /\ Goto(r, Over)
    /\ UNCHANGED <<rows, rule, messages, previews, used, task, sweep, crashes,
                   deleted, failed, promised, pictured, swept>>

(* PUT /rules: the folder of a rule is looked up, then the list is written. *)
RulesCheck(r, d) ==
    /\ Arrives(r)
    /\ Goto(r, IF Exists(d) THEN [pc |-> "rules", dir |-> d] ELSE Over)
    /\ UNCHANGED <<disk, task, sweep, crashes, history>>

RulesSet(r) ==
    /\ At(r, "rules")
    /\ rule' = req[r].dir
    /\ Goto(r, Over)
    /\ UNCHANGED <<rows, tree, messages, previews, used, task, sweep, crashes, history>>

RemoveGet(r, d) ==
    /\ Arrives(r)
    /\ Goto(r, IF d \in DOMAIN tree THEN [pc |-> "remove_check", dir |-> d] ELSE Over)
    /\ UNCHANGED <<disk, task, sweep, crashes, history>>

FolderHasNoFile(d) ==             \* mutant: subfolders are not counted
    \A f \in Files : \A i \in DOMAIN rows[f] : rows[f][i].folder # d

FolderIsEmpty(d) ==
    /\ \A f \in Files : \A i \in DOMAIN rows[f] : rows[f][i].folder # d
    /\ \A e \in DOMAIN tree : tree[e] # d

RemoveCheck(r) ==
    /\ At(r, "remove_check")
    /\ LET d == req[r].dir
       IN  IF FolderIsEmpty(d)
           THEN Step(r, "remove") ELSE Goto(r, Over)
    /\ UNCHANGED <<disk, task, sweep, crashes, history>>

RemoveFolder(r) ==
    /\ At(r, "remove")
    /\ DeleteDir(req[r].dir)
    /\ Goto(r, Over)
    /\ UNCHANGED <<rows, rule, messages, previews, used, task, sweep, crashes, history>>

-----------------------------------------------------------------------------
(* The sweeper works at startup and then on the operator's schedule: it     *)
(* reads the uids of all rows, then walks the directory.                    *)
SweepUids ==
    /\ sweep.pc = "idle"
    /\ sweep' = [pc |-> "open", live |-> LiveUids]
    /\ UNCHANGED <<disk, req, task, crashes, history>>

SweepOpen ==
    /\ sweep.pc = "open"
    /\ sweep' = [pc |-> "walk", live |-> sweep.live, todo |-> previews \ sweep.live]
    /\ UNCHANGED <<disk, req, task, crashes, history>>

(* The walk must return what was there when it started and may return what *)
(* was added since.                                                        *)
SweepRemove(f) ==
    /\ sweep.pc = "walk"
    /\ f \in previews \ sweep.live
    /\ DropPreview(f)
    /\ swept' = swept \cup {f}
    /\ UNCHANGED <<rows, tree, rule, messages, used, req, task, sweep, crashes,
                   deleted, failed, promised, astray, pictured>>

SweepEnd ==
    /\ sweep.pc = "walk"
    /\ sweep.todo \cap previews = {}
    /\ sweep' = Calm
    /\ UNCHANGED <<disk, req, task, crashes, history>>

(* The query or the reading of the directory fails, or the schedule is      *)
(* disabled or does not parse: no sweep is due.                             *)
NoSweep ==
    /\ sweep # Off
    /\ sweep' = Off
    /\ UNCHANGED <<disk, req, task, crashes, history>>

(* The setting is polled each minute, and is valid now. *)
Scheduled ==
    /\ sweep = Off
    /\ sweep' = Calm
    /\ UNCHANGED <<disk, req, task, crashes, history>>

(* The process dies: requests, tasks and the sweeper go, the stores stay. *)
Crash ==
    /\ crashes < MaxCrashes
    /\ crashes' = crashes + 1
    /\ CutShort
    /\ task' = [f \in Files |-> "none"]
    /\ sweep' = Calm
    /\ UNCHANGED <<disk, history>>

-----------------------------------------------------------------------------
FileRequest(r) ==
    \/ \E f \in Files, d \in Dirs : MoveOwned(r, f, d)
    \/ MoveTarget(r) \/ MoveSet(r)
    \/ \E f \in Files, b \in BOOLEAN : ShowOwned(r, f, b)
    \/ ShowSet(r)
    \/ \E f \in Files : DeleteOwned(r, f)
    \/ DeleteRow(r) \/ DeletePart(r) \/ Restore(r) \/ DeletePreview(r)

UploadRequest(r) ==
    \/ \E f \in Files, d \in Dirs : UploadCheck(r, f, d)
    \/ UploadPost(r) \/ UploadInsert(r) \/ UploadPreview(r)

FolderRequest(r) ==
    \/ \E d \in Folders, p \in Dirs : CreateCheck(r, d, p)
    \/ CreateFolder(r)
    \/ \E d \in Folders : RemoveGet(r, d)
    \/ RemoveCheck(r) \/ RemoveFolder(r)
    \/ \E d \in Dirs : RulesCheck(r, d)
    \/ RulesSet(r)

Sweeper ==
    \/ SweepUids \/ SweepOpen \/ (\E f \in Files : SweepRemove(f)) \/ SweepEnd
    \/ NoSweep

Next ==
    \/ \E r \in Requests : FileRequest(r) \/ UploadRequest(r) \/ FolderRequest(r)
    \/ \E f \in Files : TaskFetch(f) \/ TaskStore(f)
    \/ Sweeper \/ Scheduled
    \/ Crash

(* A sweep that is due is made and a detached task runs to its end; no      *)
(* request is assumed to be made or to finish, no schedule to be valid.     *)
Fairness ==
    /\ WF_vars(Sweeper)
    /\ \A f \in Files : WF_vars(TaskFetch(f) \/ TaskStore(f))

Spec == Init /\ [][Next]_vars /\ Fairness

-----------------------------------------------------------------------------

(* Table `file` has no unique index on uid, yet a uid never has two rows:   *)
(* a deletion that found no row must not restore one (listing.rs:94-97).    *)
OneRowPerFile == \A f \in Files : Len(rows[f]) <= 1

(* Once a deletion was acknowledged, no other request in flight (a move, a  *)
(* visibility change, another deletion that restores its copy) brings the   *)
(* row back, and none of the file's messages is left on Telegram.           *)
DeletedIsFinal ==
    \A f \in deleted : ~HasRow(f) /\ messages \cap Parts(f) = {}

(* A listed file has all its messages, whatever was in flight at a crash;   *)
(* only a deletion that answered an error may have left a row over messages *)
(* it had already removed (listing.rs:91-93, 98-101).                       *)
ListedIsStored ==
    \A f \in Files : HasRow(f) /\ f \notin failed => Parts(f) \subseteq messages

(* Folder and visibility of a listed file are what the last acknowledged    *)
(* request set; only a failed deletion, which restores the row it read      *)
(* before, can take an acknowledged change back.                            *)
AcknowledgedEditKept ==
    \A f \in Files : HasRow(f) /\ f \notin failed => rows[f][1] = promised[f]

(* "Only when empty" (folders.rs:49): nothing that was in a folder when its *)
(* removal looked is lost with it.  What ends in a folder that is gone was  *)
(* moved, uploaded, created or restored into it between the look and the    *)
(* DELETE, or by a request that had seen the folder before.                 *)
OnlyLateArrivalsLost ==
    /\ \A f \in Files : HasRow(f) /\ ~Exists(rows[f][1].folder) => f \in astray
    /\ \A d \in DOMAIN tree : ~Exists(tree[d]) => d \in astray

(* A file that is listed keeps the preview that was stored for it, through  *)
(* a failed deletion too (listing.rs:121); only the sweeper, which may have *)
(* read the uids before the row was there, can take it away.                *)
PreviewKept ==
    \A f \in pictured : HasRow(f) => f \in previews \/ f \in swept

(* The preview of a file that is gone for good goes too: removed by the     *)
(* deletion, or after a crash or a late thumbnail task by a sweep           *)
(* (main.rs:85-114, thumbs.rs:127-148), provided that from some time on the *)
(* schedule stays valid and no sweep fails; with none only a restart sweeps. *)
OrphanPreviewsSwept ==
    <>[](sweep # Off) =>
        \A f \in Files : <>[](~HasRow(f)) => <>[](f \notin previews)
=============================================================================
