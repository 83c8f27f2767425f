------------------------------ MODULE Downloads ------------------------------
(***************************************************************************)
(* The /download, /open and /show commands (cmd_message.go): each one      *)
(* reads the message, then a goroutine of its own picks a file name in the *)
(* download or the preview folder, streams the media into a temporary      *)
(* file, renames it into place, records the path with the message and      *)
(* hands it to the user.  Nothing is locked between the look at the folder *)
(* and the rename.  Quitting cuts downloads short; the next start sweeps   *)
(* the temporary files (partfiles.go, SessionManager.Init).                *)
(*                                                                         *)
(* A file is named for what is in it: the media of a message, a file of    *)
(* the user's own (Foreign), or the beginning of a download (Partial).     *)
(***************************************************************************)
EXTENDS Naturals

CONSTANTS
  Ids,          \* messages with media
  Downloaders,  \* goroutines of runDownload
  Dirs,         \* download_path and preview_path
  SenderNames,  \* file names senders chose
  NameOf,       \* the sender's file name of each message, or NoName
  NoName,       \* the sender gave no usable name
  Foreign,      \* the content of a file whatscli did not save
  Partial,      \* the content of a temporary file still being written
  None,         \* no file, no path, no task
  Removable,    \* the names of files the user may delete or move away
  Restarts      \* whether the program quits and starts again

VARIABLES
  files,        \* the folders: a content or None at each <<folder, name>>
  parts,        \* the temporary file each goroutine made, or None
  path,         \* messages.local_path of each message
  task,         \* where each goroutine is
  running       \* the program runs

vars == <<files, parts, path, task, running>>

(* "<stem>_<message-id><ext>", and the name of a message without one, are  *)
(* particular to the message: the message itself stands for both.          *)
Names == SenderNames \cup Ids
Files == Dirs \X Names

ASSUME DownloadsAssumption ==
  /\ NameOf \in [Ids -> SenderNames \cup {NoName}]
  /\ SenderNames \cap Ids = {} /\ NoName \notin SenderNames
  /\ {Foreign, Partial, None} \cap Ids = {} /\ None \notin Files
  /\ Foreign # Partial /\ Foreign # None /\ Partial # None
  /\ Removable \subseteq Names /\ Restarts \in BOOLEAN

Contents == Ids \cup {Foreign, Partial}
Parts    == [dir: Dirs, data: Ids \cup {Partial}]
Stages   == {"chosen", "named", "free", "fetching", "done"}
Tasks    == [id: Ids, dir: Dirs, path: {None} \cup Files, name: Names, stage: Stages]

ASSUME NoneAssumption == None \notin Tasks \cup Parts

TypeOK ==
  /\ files \in [Files -> Contents \cup {None}]
  /\ parts \in [Downloaders -> Parts \cup {None}]
  /\ path \in [Ids -> Files \cup {None}]
  /\ task \in [Downloaders -> Tasks \cup {None}]
  /\ running \in BOOLEAN

(* The user's folders may hold files of their own under any sender's name. *)
Init ==
  /\ files \in {[f \in Files |-> IF f \in taken THEN Foreign ELSE None] :
                  taken \in SUBSET (Dirs \X SenderNames)}
  /\ parts = [w \in Downloaders |-> None]
  /\ path = [id \in Ids |-> None]
  /\ task = [w \in Downloaders |-> None]
  /\ running = TRUE

At(w, stage) == running /\ task[w] # None /\ task[w].stage = stage

Target(w) == <<task[w].dir, task[w].name>>

(* hasUsableFileName, downloadFileName. *)
FirstName(id) == IF NameOf[id] = NoName THEN id ELSE NameOf[id]

------------------------------------------------------------------------------
(* runDownload reads the message, with the path recorded so far. *)
Start(w, id, dir) ==
  /\ running /\ task[w] = None
  /\ task' = [task EXCEPT ![w] = [id |-> id, dir |-> dir, path |-> path[id],
                                  name |-> FirstName(id), stage |-> "chosen"]]
  /\ UNCHANGED <<files, parts, path, running>>

(* reusableLocalPath: a regular file directly inside the folder. *)
Reusable(t) == t.path # None /\ t.path[1] = t.dir /\ files[t.path] # None

Reuse(w) ==
  /\ At(w, "chosen") /\ Reusable(task[w])
  /\ task' = [task EXCEPT ![w].name = task[w].path[2], ![w].stage = "done"]
  /\ UNCHANGED <<files, parts, path, running>>

(* Mutant of TryFirstName: a taken name is used all the same. *)
TakeFirstName(w) ==
  /\ At(w, "chosen") /\ ~Reusable(task[w])
  /\ task' = [task EXCEPT ![w].stage = "free"]
  /\ UNCHANGED <<files, parts, path, running>>

(* Mutant of TryFirstName: a file of the name is taken for the message's. *)
TakeAnyFile(w) ==
  /\ At(w, "chosen") /\ ~Reusable(task[w])
  /\ task' = [task EXCEPT ![w].stage = IF files[Target(w)] = None THEN "free" ELSE "done"]
  /\ UNCHANGED <<files, parts, path, running>>

(* The first Lstat of downloadMedia: is the sender's name free? *)
TryFirstName(w) ==
  /\ At(w, "chosen") /\ ~Reusable(task[w])
  /\ LET id == task[w].id
     IN  task' = [task EXCEPT
           ![w].name  = IF files[Target(w)] = None THEN FirstName(id) ELSE id,
           ![w].stage = IF files[Target(w)] = None THEN "free" ELSE "named"]
  /\ UNCHANGED <<files, parts, path, running>>

(* The second Lstat: a file under the message's own name is its copy. *)
TryOwnName(w) ==
  /\ At(w, "named")
  /\ task' = [task EXCEPT ![w].stage = IF files[Target(w)] = None THEN "free" ELSE "done"]
  /\ UNCHANGED <<files, parts, path, running>>

(* os.CreateTemp in the folder of the target; DownloadToFile begins. *)
CreateTemp(w) ==
  /\ At(w, "free")
  /\ parts' = [parts EXCEPT ![w] = [dir |-> task[w].dir, data |-> Partial]]
  /\ task' = [task EXCEPT ![w].stage = "fetching"]
  /\ UNCHANGED <<files, path, running>>

(* DownloadToFile returns without an error: all of the media is written. *)
FinishFetch(w) ==
  /\ At(w, "fetching") /\ parts[w].data = Partial
  /\ parts' = [parts EXCEPT ![w].data = task[w].id]
  /\ UNCHANGED <<files, path, task, running>>

(* Mutant of Rename: before the media is complete. *)
RenameEarly(w) ==
  /\ At(w, "fetching")
  /\ files' = [files EXCEPT ![Target(w)] = parts[w].data]
  /\ parts' = [parts EXCEPT ![w] = None]
  /\ task' = [task EXCEPT ![w].stage = "done"]
  /\ UNCHANGED <<path, running>>

(* os.Rename replaces a file that is already there. *)
Rename(w) ==
  /\ At(w, "fetching") /\ parts[w].data # Partial
  /\ files' = [files EXCEPT ![Target(w)] = parts[w].data]
  /\ parts' = [parts EXCEPT ![w] = None]
  /\ task' = [task EXCEPT ![w].stage = "done"]
  /\ UNCHANGED <<path, running>>

(* The download fails: the temporary file is removed. *)
Fail(w) ==
  /\ At(w, "fetching")
  /\ parts' = [parts EXCEPT ![w] = None]
  /\ task' = [task EXCEPT ![w] = None]
  /\ UNCHANGED <<files, path, running>>

(* fetchMedia records a path that is new (SQLite may refuse: `saved' is    *)
(* FALSE); deliverDownload hands the file to the user either way.          *)
Deliver(w, saved) ==
  /\ At(w, "done")
  /\ path' = IF saved /\ Target(w) # task[w].path
             THEN [path EXCEPT ![task[w].id] = Target(w)]
             ELSE path
  /\ task' = [task EXCEPT ![w] = None]
  /\ UNCHANGED <<files, parts, running>>

------------------------------------------------------------------------------
(* Shutdown cancels the root context and the process exits, whether or not *)
(* the goroutines have come to their cleanup.                              *)
Quit ==
  /\ Restarts /\ running
  /\ running' = FALSE
  /\ task' = [w \in Downloaders |-> None]
  /\ UNCHANGED <<files, parts, path>>

(* Mutant of Restart: nothing is swept. *)
RestartUnswept ==
  /\ ~running
  /\ running' = TRUE
  /\ UNCHANGED <<files, parts, path, task>>

(* Init of the next run: sweepDownloadFolders. *)
Restart ==
  /\ ~running
  /\ running' = TRUE
  /\ parts' = [w \in Downloaders |-> None]
  /\ UNCHANGED <<files, path, task>>

(* The user clears a file away, with whatscli running or not. *)
UserRemovesFile(f) ==
  /\ f[2] \in Removable /\ files[f] # None
  /\ files' = [files EXCEPT ![f] = None]
  /\ UNCHANGED <<parts, path, task, running>>

Download(w) ==
  \/ \E id \in Ids, dir \in Dirs : Start(w, id, dir)
  \/ Reuse(w) \/ TryFirstName(w) \/ TryOwnName(w) \/ CreateTemp(w)
  \/ FinishFetch(w) \/ Rename(w) \/ Fail(w)
  \/ \E saved \in BOOLEAN : Deliver(w, saved)

Next ==
  \/ \E w \in Downloaders : Download(w)
  \/ \E f \in Files : UserRemovesFile(f)
  \/ Quit \/ Restart

Spec == Init /\ [][Next]_vars
------------------------------------------------------------------------------
(* A file under a final name is whole: a download that fails, is cut short *)
(* by quitting or is still running never shows as a saved file.            *)
SavedFilesAreWhole == \A f \in Files : files[f] # Partial

(* Temporary files do not pile up: while the program runs, each belongs to *)
(* a download that is still running.                                       *)
PartsAreInUse ==
  running => \A w \in Downloaders : parts[w] # None => At(w, "fetching")

(* The file handed to the user is the message's, unless the user removed   *)
(* it meanwhile.                                                           *)
DeliversTheMessage ==
  [][\A w \in Downloaders, saved \in BOOLEAN :
       Deliver(w, saved) => files[Target(w)] \in {task[w].id, None}]_vars

(* A download never replaces a file that was there, the user's own or      *)
(* another message's ("if a different file already has the same name, the  *)
(* new one is saved as name_<message-id>.ext").                            *)
NothingOverwritten ==
  [][\A f \in Files : files[f] # None => files'[f] \in {files[f], None}]_vars

(* A repeat download reuses the file saved before: a folder never holds    *)
(* two copies of a message's media.                                        *)
OneCopy ==
  \A id \in Ids, dir \in Dirs, n, m \in Names :
    files[<<dir, n>>] = id /\ files[<<dir, m>>] = id => n = m
==============================================================================
