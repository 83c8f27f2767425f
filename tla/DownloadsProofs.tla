---------------------------- MODULE DownloadsProofs ----------------------------
(***************************************************************************)
(* What Downloads promises for any number of messages, names, folders and  *)
(* goroutines.                                                             *)
(***************************************************************************)
EXTENDS Downloads, TLAPS

(* A goroutine has a temporary file exactly while it fetches, and only a   *)
(* running program has goroutines.                                         *)
PartsMatch ==
  \A w \in Downloaders :
    /\ ~running => task[w] = None
    /\ running /\ task[w] = None => parts[w] = None
    /\ task[w] # None => (task[w].stage = "fetching" <=> parts[w] # None)

IInv == TypeOK /\ PartsMatch /\ SavedFilesAreWhole

LEMMA InitIInv == Init => IInv
<1> SUFFICES ASSUME Init PROVE IInv
  OBVIOUS
<1>1. PICK taken \in SUBSET (Dirs \X SenderNames) :
        files = [f \in Files |-> IF f \in taken THEN Foreign ELSE None]
  BY DEF Init
<1>2. TypeOK
  BY <1>1 DEF Init, TypeOK, Contents
<1>3. PartsMatch
  BY DEF Init, PartsMatch
<1>4. SavedFilesAreWhole
  BY <1>1, DownloadsAssumption DEF SavedFilesAreWhole
<1> QED
  BY <1>2, <1>3, <1>4 DEF IInv

(* The target of a goroutine at work is a file of the folders. *)
LEMMA TargetIsFile ==
  ASSUME TypeOK, NEW w \in Downloaders, task[w] # None
  PROVE  task[w] \in Tasks /\ Target(w) \in Files
BY DEF TypeOK, Tasks, Target, Files

LEMMA FirstNameIsName == \A id \in Ids : FirstName(id) \in Names
BY DownloadsAssumption DEF FirstName, Names

(* Steps of a goroutine that only move it on: their new task is a task,    *)
(* not at "fetching" before nor after.                                     *)
LEMMA MovesOn ==
  ASSUME IInv, NEW w \in Downloaders, NEW t \in Tasks, running,
         task[w] # None => task[w].stage # "fetching",
         t.stage # "fetching",
         task' = [task EXCEPT ![w] = t],
         UNCHANGED <<files, parts, path, running>>
  PROVE  IInv'
<1>1. TypeOK'
  BY DEF IInv, TypeOK
<1>2. PartsMatch'
  BY NoneAssumption DEF IInv, PartsMatch, TypeOK
<1>3. SavedFilesAreWhole'
  BY DEF IInv, SavedFilesAreWhole
<1> QED
  BY <1>1, <1>2, <1>3 DEF IInv

LEMMA NextIInv == IInv /\ [Next]_vars => IInv'
<1> SUFFICES ASSUME IInv, [Next]_vars PROVE IInv'
  OBVIOUS
<1> USE DEF IInv
<1>1. ASSUME NEW w \in Downloaders, Download(w) PROVE IInv'
  <2>1. ASSUME NEW id \in Ids, NEW dir \in Dirs, Start(w, id, dir) PROVE IInv'
    <3> DEFINE t == [id |-> id, dir |-> dir, path |-> path[id],
                     name |-> FirstName(id), stage |-> "chosen"]
    <3>1. t \in Tasks
      BY FirstNameIsName DEF Tasks, Stages, TypeOK
    <3> HIDE DEF IInv
    <3>2. task' = [task EXCEPT ![w] = t] /\ t.stage # "fetching"
      BY <2>1 DEF Start
    <3> QED
      BY <2>1, <3>1, <3>2, MovesOn DEF Start
  <2>2. CASE Reuse(w)
    <3> DEFINE t == [task[w] EXCEPT !.name = task[w].path[2], !.stage = "done"]
    <3>1. task[w] \in Tasks /\ task[w].path \in Files
      BY <2>2, TargetIsFile DEF Reuse, At, Reusable, Tasks
    <3>2. t \in Tasks /\ t.stage # "fetching"
      BY <3>1 DEF Tasks, Stages, Files
    <3>3. task' = [task EXCEPT ![w] = t]
      BY <2>2, <3>1 DEF Reuse, TypeOK, Tasks
    <3> HIDE DEF IInv, t
    <3> QED
      BY <2>2, <3>2, <3>3, MovesOn DEF Reuse, At
  <2>3. CASE TryFirstName(w)
    <3> DEFINE free == files[Target(w)] = None
               t == [task[w] EXCEPT !.name = IF free THEN FirstName(task[w].id) ELSE task[w].id,
                                    !.stage = IF free THEN "free" ELSE "named"]
    <3>1. task[w] \in Tasks
      BY <2>3, TargetIsFile DEF TryFirstName, At
    <3>2. t \in Tasks /\ t.stage # "fetching"
      BY <3>1, FirstNameIsName DEF Tasks, Stages, Names
    <3>3. task' = [task EXCEPT ![w] = t]
      BY <2>3, <3>1 DEF TryFirstName, TypeOK, Tasks
    <3> HIDE DEF IInv, t
    <3> QED
      BY <2>3, <3>2, <3>3, MovesOn DEF TryFirstName, At
  <2>4. CASE TryOwnName(w)
    <3> DEFINE t == [task[w] EXCEPT !.stage = IF files[Target(w)] = None THEN "free" ELSE "done"]
    <3>1. task[w] \in Tasks
      BY <2>4, TargetIsFile DEF TryOwnName, At
    <3>2. t \in Tasks /\ t.stage # "fetching"
      BY <3>1 DEF Tasks, Stages
    <3>3. task' = [task EXCEPT ![w] = t]
      BY <2>4, <3>1 DEF TryOwnName, TypeOK, Tasks
    <3> HIDE DEF IInv, t
    <3> QED
      BY <2>4, <3>2, <3>3, MovesOn DEF TryOwnName, At
  <2>5. CASE CreateTemp(w)
    <3>1. task[w] \in Tasks /\ [dir |-> task[w].dir, data |-> Partial] \in Parts
      BY <2>5, TargetIsFile DEF CreateTemp, At, Tasks, Parts
    <3>2. TypeOK'
      BY <2>5, <3>1 DEF CreateTemp, TypeOK, Tasks, Stages
    <3>3. PartsMatch'
      <4>1. parts' = [parts EXCEPT ![w] = parts'[w]] /\ parts'[w] # None
        BY <2>5, <3>1, NoneAssumption DEF CreateTemp, TypeOK
      <4>2. task' = [task EXCEPT ![w] = task'[w]] /\ task'[w].stage = "fetching"
        BY <2>5, <3>1 DEF CreateTemp, TypeOK, Tasks
      <4>3. task'[w] # None
        BY <2>5, <3>1, <3>2, <4>2, NoneAssumption DEF CreateTemp, TypeOK, Tasks, Stages
      <4> QED
        BY <2>5, <4>1, <4>2, <4>3 DEF CreateTemp, At, PartsMatch, TypeOK
    <3>4. SavedFilesAreWhole'
      BY <2>5 DEF CreateTemp, SavedFilesAreWhole
    <3> QED
      BY <3>2, <3>3, <3>4
  <2>6. CASE FinishFetch(w)
    <3>1. task[w] \in Tasks /\ parts[w] \in Parts
      BY <2>6, TargetIsFile DEF FinishFetch, At, PartsMatch, TypeOK
    <3>2. [parts[w] EXCEPT !.data = task[w].id] \in Parts
      BY <3>1 DEF Parts, Tasks
    <3>3. TypeOK'
      BY <2>6, <3>2 DEF FinishFetch, TypeOK
    <3>4. PartsMatch'
      BY <2>6, <3>2, NoneAssumption DEF FinishFetch, At, PartsMatch, TypeOK
    <3>5. SavedFilesAreWhole'
      BY <2>6 DEF FinishFetch, SavedFilesAreWhole
    <3> QED
      BY <3>3, <3>4, <3>5
  <2>7. CASE Rename(w)
    <3>1. /\ task[w] \in Tasks /\ Target(w) \in Files
          /\ parts[w].data \in Ids
      BY <2>7, TargetIsFile DEF Rename, At, PartsMatch, TypeOK, Parts
    <3>2. TypeOK'
      BY <2>7, <3>1 DEF Rename, TypeOK, Tasks, Stages, Contents
    <3>3. PartsMatch'
      BY <2>7, <3>1, NoneAssumption DEF Rename, At, PartsMatch, TypeOK, Tasks
    <3>4. SavedFilesAreWhole'
      BY <2>7, <3>1, DownloadsAssumption DEF Rename, SavedFilesAreWhole, TypeOK
    <3> QED
      BY <3>2, <3>3, <3>4
  <2>8. CASE Fail(w)
    <3>1. TypeOK'
      BY <2>8 DEF Fail, TypeOK
    <3>2. PartsMatch'
      BY <2>8 DEF Fail, PartsMatch, TypeOK
    <3>3. SavedFilesAreWhole'
      BY <2>8 DEF Fail, SavedFilesAreWhole
    <3> QED
      BY <3>1, <3>2, <3>3
  <2>9. ASSUME NEW saved \in BOOLEAN, Deliver(w, saved) PROVE IInv'
    <3>1. task[w].id \in Ids /\ Target(w) \in Files
      BY <2>9, TargetIsFile DEF Deliver, At, Tasks
    <3>2. TypeOK'
      BY <2>9, <3>1 DEF Deliver, TypeOK
    <3>3. PartsMatch'
      BY <2>9 DEF Deliver, At, PartsMatch, TypeOK
    <3>4. SavedFilesAreWhole'
      BY <2>9 DEF Deliver, SavedFilesAreWhole
    <3> QED
      BY <3>2, <3>3, <3>4
  <2> QED
    BY <1>1, <2>1, <2>2, <2>3, <2>4, <2>5, <2>6, <2>7, <2>8, <2>9 DEF Download
<1>2. ASSUME NEW f \in Files, UserRemovesFile(f) PROVE IInv'
  <2>1. TypeOK'
    BY <1>2 DEF UserRemovesFile, TypeOK
  <2>2. PartsMatch'
    BY <1>2 DEF UserRemovesFile, PartsMatch
  <2>3. SavedFilesAreWhole'
    BY <1>2, DownloadsAssumption DEF UserRemovesFile, SavedFilesAreWhole, TypeOK
  <2> QED
    BY <2>1, <2>2, <2>3
<1>3. CASE Quit
  BY <1>3 DEF Quit, TypeOK, PartsMatch, SavedFilesAreWhole
<1>4. CASE Restart
  BY <1>4 DEF Restart, TypeOK, PartsMatch, SavedFilesAreWhole
<1>5. CASE UNCHANGED vars
  BY <1>5 DEF vars, TypeOK, PartsMatch, SavedFilesAreWhole
<1> QED
  BY <1>1, <1>2, <1>3, <1>4, <1>5 DEF Next

LEMMA Inductive == Spec => []IInv
<1> QED
  BY InitIInv, NextIInv, PTL DEF Spec

(* The type invariant. *)
THEOREM TypeCorrect == Spec => []TypeOK
<1>1. IInv => TypeOK
  BY DEF IInv
<1> QED
  BY Inductive, <1>1, PTL

(* Whatever fails, is quit or runs at the same time, no file under a final *)
(* name holds the beginning of a download (downloadMedia renames last).    *)
THEOREM FilesStayWhole == Spec => []SavedFilesAreWhole
<1>1. IInv => SavedFilesAreWhole
  BY DEF IInv
<1> QED
  BY Inductive, <1>1, PTL

(* Every temporary file belongs to a running download: those a quit leaves *)
(* are swept before the next download starts (sweepDownloadFolders).       *)
THEOREM PartsStayInUse == Spec => []PartsAreInUse
<1>1. IInv => PartsAreInUse
  BY DEF IInv, PartsMatch, PartsAreInUse, At
<1> QED
  BY Inductive, <1>1, PTL
------------------------------------------------------------------------------
(* Two downloads at once may find the same name free; one at a time cannot. *)
OneAtATime == \A v, w \in Downloaders : v = w

(* The name a goroutine saves under is the sender's or the message's own,  *)
(* it is the first choice until that was seen taken, and what is free when *)
(* it is chosen stays free until the rename.                               *)
NamesAreFree ==
  \A w \in Downloaders : task[w] # None =>
    /\ task[w].stage = "chosen" => task[w].name = FirstName(task[w].id)
    /\ task[w].stage \in {"free", "fetching"} => files[Target(w)] = None

(* The new task of w, the only goroutine, is t. *)
LEMMA OnlyTask ==
  ASSUME OneAtATime, TypeOK, NEW w \in Downloaders, NEW t, task' = [task EXCEPT ![w] = t]
  PROVE  task'[w] = t /\ \A v \in Downloaders : task'[v] = t
BY DEF OneAtATime, TypeOK

LEMMA NamesStayFree ==
  ASSUME OneAtATime, IInv, NamesAreFree, Next
  PROVE  NamesAreFree'
<1> USE DEF IInv
<1>1. ASSUME NEW w \in Downloaders, Download(w) PROVE NamesAreFree'
  <2> SUFFICES ASSUME task'[w] # None
               PROVE  /\ task'[w].stage = "chosen" => task'[w].name = FirstName(task'[w].id)
                      /\ task'[w].stage \in {"free", "fetching"} => files'[Target(w)'] = None
    BY DEF NamesAreFree, OneAtATime
  <2>1. ASSUME NEW id \in Ids, NEW dir \in Dirs, Start(w, id, dir)
        PROVE  task'[w].stage = "chosen" /\ task'[w].name = FirstName(task'[w].id)
    BY <2>1 DEF Start, TypeOK
  <2>2. CASE Reuse(w) \/ Rename(w) \/ TryOwnName(w)
    <3>1. task[w] \in Tasks
      BY <2>2, TargetIsFile DEF Reuse, Rename, TryOwnName, At
    <3>2. CASE task'[w].stage = "done"
      BY <3>2
    <3>3. CASE TryOwnName(w) /\ files[Target(w)] = None
      BY <3>1, <3>3 DEF TryOwnName, TypeOK, Tasks, Target
    <3>4. QED BY <2>2, <3>1, <3>2, <3>3 DEF Reuse, Rename, TryOwnName, TypeOK, Tasks
  <2>3. CASE TryFirstName(w)
    <3>1. task[w] \in Tasks /\ task[w].name = FirstName(task[w].id)
      BY <2>3, TargetIsFile DEF TryFirstName, At, NamesAreFree
    <3>2. CASE files[Target(w)] = None
      BY <2>3, <3>1, <3>2 DEF TryFirstName, TypeOK, Tasks, Target
    <3>3. CASE files[Target(w)] # None
      BY <2>3, <3>1, <3>3 DEF TryFirstName, TypeOK, Tasks
    <3>4. QED BY <3>2, <3>3
  <2>4. CASE CreateTemp(w) \/ FinishFetch(w)
    <3>1. task[w] \in Tasks /\ files[Target(w)] = None
      BY <2>4, TargetIsFile DEF CreateTemp, FinishFetch, At, NamesAreFree
    <3>2. task'[w].dir = task[w].dir /\ task'[w].name = task[w].name /\ task'[w].stage = "fetching"
      BY <2>4, <3>1 DEF CreateTemp, FinishFetch, At, TypeOK, Tasks
    <3>3. QED BY <2>4, <3>1, <3>2 DEF CreateTemp, FinishFetch, Target
  <2>5. CASE Fail(w) \/ \E saved \in BOOLEAN : Deliver(w, saved)
    BY <2>5 DEF Fail, Deliver, TypeOK
  <2>6. QED BY <1>1, <2>1, <2>2, <2>3, <2>4, <2>5 DEF Download
<1>2. ASSUME NEW f \in Files, UserRemovesFile(f) PROVE NamesAreFree'
  BY <1>2, TargetIsFile DEF UserRemovesFile, NamesAreFree, TypeOK, Target
<1>3. CASE Quit \/ Restart
  BY <1>3 DEF Quit, Restart, NamesAreFree, Target
<1>4. QED BY <1>1, <1>2, <1>3 DEF Next

LEMMA FreeInvariant ==
  ASSUME OneAtATime
  PROVE  Spec => []NamesAreFree
<1>1. Init => NamesAreFree
  BY DEF Init, NamesAreFree
<1>2. IInv /\ NamesAreFree /\ [Next]_vars => NamesAreFree'
  <2> SUFFICES ASSUME IInv, NamesAreFree, [Next]_vars PROVE NamesAreFree'
    OBVIOUS
  <2>1. CASE Next
    BY <2>1, NamesStayFree
  <2>2. CASE UNCHANGED vars
    BY <2>2 DEF NamesAreFree, Target, vars
  <2>3. QED BY <2>1, <2>2
<1>3. QED BY <1>1, <1>2, Inductive, PTL DEF Spec

(* One download at a time never replaces a file: the name that was free    *)
(* when downloadMedia looked (Lstat) is still free at os.Rename.           *)
THEOREM NothingIsOverwritten ==
  ASSUME OneAtATime
  PROVE  Spec => NothingOverwritten
<1> DEFINE Kept == \A f \in Files : files[f] # None => files'[f] \in {files[f], None}
<1>1. IInv /\ NamesAreFree /\ [Next]_vars => [Kept]_vars
  <2> SUFFICES ASSUME IInv, NamesAreFree, Next, NEW f \in Files, files[f] # None
               PROVE  files'[f] \in {files[f], None}
    OBVIOUS
  <2>1. ASSUME NEW w \in Downloaders, Rename(w)
        PROVE  files'[f] = files[f]
    <3>1. Target(w) \in Files /\ files[Target(w)] = None
      BY <2>1, TargetIsFile DEF Rename, At, IInv, NamesAreFree
    <3>2. QED BY <2>1, <3>1 DEF Rename, IInv, TypeOK
  <2>2. ASSUME NEW g \in Files, UserRemovesFile(g)
        PROVE  files'[f] \in {files[f], None}
    BY <2>2 DEF UserRemovesFile, IInv, TypeOK
  <2>3. CASE files' = files
    BY <2>3
  <2>4. QED
    BY <2>1, <2>2, <2>3
    DEF Next, Download, Start, Reuse, TryFirstName, TryOwnName, CreateTemp,
        FinishFetch, Fail, Deliver, Quit, Restart
<1>2. QED BY <1>1, Inductive, FreeInvariant, PTL DEF Spec, NothingOverwritten

------------------------------------------------------------------------------
(* The user leaves the files alone that have a sender's name.  A file with *)
(* a message's own name may go: nothing else is ever saved under it.       *)
SenderNamesStay == Removable \cap SenderNames = {}

(* A path leads to the message's file, or is the message's own name, under *)
(* which there is no other file.                                           *)
LeadsTo(id, f) == files[f] = id \/ f[2] = id

OwnNamesAreOwn == \A dir \in Dirs, id \in Ids : files[<<dir, id>>] \in {id, None}

PathsLead == \A id \in Ids : path[id] # None => LeadsTo(id, path[id])

TasksLead ==
  \A w \in Downloaders : task[w] # None =>
    /\ task[w].path # None => LeadsTo(task[w].id, task[w].path)
    /\ task[w].name \in Ids => task[w].name = task[w].id
    /\ task[w].stage = "named" => task[w].name = task[w].id
    /\ task[w].stage = "fetching" => parts[w].data \in {task[w].id, Partial}
    /\ task[w].stage = "done" => LeadsTo(task[w].id, Target(w))

Leading == OwnNamesAreOwn /\ PathsLead /\ TasksLead

(* What the only goroutine w is doing leads to its message. *)
Leads(id, t, fs, part) ==
  /\ t.path # None => fs[t.path] = id \/ t.path[2] = id
  /\ t.name \in Ids => t.name = id
  /\ t.stage = "named" => t.name = id
  /\ t.stage = "fetching" => part.data \in {id, Partial}
  /\ t.stage = "done" => fs[<<t.dir, t.name>>] = id \/ t.name = id

LEMMA LeadingOfTask ==
  ASSUME OneAtATime, TypeOK, Leading, NEW w \in Downloaders, UNCHANGED <<files, path>>,
         task'[w] = None \/ Leads(task'[w].id, task'[w], files, parts'[w])
  PROVE  Leading'
<1>1. OwnNamesAreOwn' /\ PathsLead'
  BY DEF Leading, OwnNamesAreOwn, PathsLead, LeadsTo
<1>2. \A v \in Downloaders : v = w
  BY DEF OneAtATime
<1>3. TasksLead'
  BY <1>2 DEF TasksLead, LeadsTo, Leads, Target
<1>4. QED BY <1>1, <1>3 DEF Leading

LEMMA TaskLeads ==
  ASSUME TypeOK, Leading, NEW w \in Downloaders, task[w] # None
  PROVE  Leads(task[w].id, task[w], files, parts[w])
BY DEF Leading, TasksLead, LeadsTo, Leads, Target

LEMMA LeadingStays ==
  ASSUME OneAtATime, SenderNamesStay, IInv, NamesAreFree, Leading, Next
  PROVE  Leading'
<1> USE DEF IInv
<1>1. ASSUME NEW w \in Downloaders, Download(w) PROVE Leading'
  <2> DEFINE t == task[w]
  <2>1. ASSUME NEW id \in Ids, NEW dir \in Dirs, Start(w, id, dir) PROVE Leading'
    <3>1. task'[w] = [id |-> id, dir |-> dir, path |-> path[id],
                      name |-> FirstName(id), stage |-> "chosen"]
      BY <2>1 DEF Start, TypeOK
    <3>2. FirstName(id) \in Ids => FirstName(id) = id
      BY DownloadsAssumption DEF FirstName
    <3>3. path[id] # None => files[path[id]] = id \/ path[id][2] = id
      BY DEF Leading, PathsLead, LeadsTo
    <3>4. Leads(task'[w].id, task'[w], files, parts'[w])
      BY <3>1, <3>2, <3>3 DEF Leads
    <3>5. QED BY <2>1, <3>4, LeadingOfTask DEF Start
  <2>2. ASSUME t # None
        PROVE  /\ t \in Tasks /\ Leads(t.id, t, files, parts[w])
               /\ OwnNamesAreOwn /\ Target(w) \in Files
    BY <2>2, TargetIsFile, TaskLeads DEF Leading
  <2>3. CASE Reuse(w)
    <3>1. /\ t # None /\ t.path # None /\ t.path[1] = t.dir /\ t.path \in Files
          /\ files[t.path] # None
      BY <2>2, <2>3 DEF Reuse, At, Reusable, Tasks
    <3>2. t.path = <<t.dir, t.path[2]>> /\ t.path[2] \in Names
      BY <3>1 DEF Files
    <3>3. files[t.path] = t.id \/ t.path[2] = t.id
      BY <2>2, <3>1 DEF Leads
    <3>4. t.path[2] \in Ids => t.path[2] = t.id
      BY <2>2, <3>1, <3>2, <3>3 DEF OwnNamesAreOwn, Tasks
    <3>5. /\ task'[w].id = t.id /\ task'[w].path = t.path /\ task'[w].dir = t.dir
          /\ task'[w].name = t.path[2] /\ task'[w].stage = "done"
      BY <2>2, <2>3, <3>1 DEF Reuse, TypeOK, Tasks
    <3>6. Leads(task'[w].id, task'[w], files, parts'[w])
      BY <3>2, <3>3, <3>4, <3>5 DEF Leads
    <3>7. QED BY <2>3, <3>6, LeadingOfTask DEF Reuse
  <2>4. CASE TryFirstName(w)
    <3>1. /\ task'[w].id = t.id /\ task'[w].path = t.path
          /\ task'[w].name \in {FirstName(t.id), t.id}
          /\ task'[w].stage = "named" => task'[w].name = t.id
          /\ task'[w].stage \in {"free", "named"} /\ t.id \in Ids
      BY <2>2, <2>4 DEF TryFirstName, At, TypeOK, Tasks
    <3>2. FirstName(t.id) \in Ids => FirstName(t.id) = t.id
      BY <3>1, DownloadsAssumption DEF FirstName
    <3>3. Leads(task'[w].id, task'[w], files, parts'[w])
      BY <2>2, <2>4, <3>1, <3>2 DEF Leads, TryFirstName, At
    <3>4. QED BY <2>4, <3>3, LeadingOfTask DEF TryFirstName
  <2>5. CASE TryOwnName(w)
    <3>1. /\ task'[w].id = t.id /\ task'[w].path = t.path /\ task'[w].dir = t.dir
          /\ task'[w].name = t.name /\ t.name = t.id
          /\ task'[w].stage \in {"free", "done"}
      BY <2>2, <2>5 DEF TryOwnName, At, TypeOK, Tasks, Leads
    <3>2. Leads(task'[w].id, task'[w], files, parts'[w])
      BY <2>2, <2>5, <3>1 DEF Leads, TryOwnName, At
    <3>3. QED BY <2>5, <3>2, LeadingOfTask DEF TryOwnName
  <2>6. CASE CreateTemp(w)
    <3>1. /\ task'[w].id = t.id /\ task'[w].path = t.path /\ task'[w].name = t.name
          /\ task'[w].stage = "fetching" /\ parts'[w].data = Partial
      BY <2>2, <2>6 DEF CreateTemp, At, TypeOK, Tasks
    <3>2. Leads(task'[w].id, task'[w], files, parts'[w])
      BY <2>2, <2>6, <3>1 DEF Leads, CreateTemp, At
    <3>3. QED BY <2>6, <3>2, LeadingOfTask DEF CreateTemp
  <2>7. CASE FinishFetch(w)
    <3>1. parts[w] \in Parts
      BY <2>7 DEF FinishFetch, At, PartsMatch, TypeOK
    <3>2. task' = task /\ parts'[w].data = t.id
      BY <2>7, <3>1 DEF FinishFetch, TypeOK, Parts
    <3>3. Leads(task'[w].id, task'[w], files, parts'[w])
      BY <2>2, <2>7, <3>2 DEF Leads, FinishFetch, At
    <3>4. QED BY <2>7, <3>3, LeadingOfTask DEF FinishFetch
  <2>8. CASE Rename(w)
    <3>1. /\ t \in Tasks /\ Leads(t.id, t, files, parts[w]) /\ Target(w) \in Files
          /\ files[Target(w)] = None /\ t.stage = "fetching" /\ parts[w].data = t.id
          /\ t.name \in Ids => t.name = t.id
      BY <2>2, <2>8 DEF Rename, At, NamesAreFree, Leads
    <3>2. files' = [files EXCEPT ![Target(w)] = t.id]
      BY <2>8, <3>1 DEF Rename
    <3>3. \A f \in Files : files[f] # None => files'[f] = files[f]
      BY <3>1, <3>2 DEF TypeOK
    <3>4. t.id \in Ids /\ t.id # None
      BY <3>1, DownloadsAssumption DEF Tasks
    <3>5. OwnNamesAreOwn'
      <4> SUFFICES ASSUME NEW dir \in Dirs, NEW id \in Ids
                   PROVE  files'[<<dir, id>>] \in {id, None}
        BY DEF OwnNamesAreOwn
      <4>1. files[<<dir, id>>] \in {id, None} /\ <<dir, id>> \in Files
        BY DEF Leading, OwnNamesAreOwn, Files, Names
      <4>2. CASE <<dir, id>> = Target(w)
        <5>1. t.id = id
          BY <3>1, <4>2 DEF Target
        <5>2. QED BY <3>1, <3>2, <4>2, <5>1 DEF TypeOK
      <4>3. CASE <<dir, id>> # Target(w)
        BY <3>1, <3>2, <4>1, <4>3 DEF TypeOK
      <4>4. QED BY <4>2, <4>3
    <3>6. PathsLead'
      <4> SUFFICES ASSUME NEW id \in Ids, path[id] # None
                   PROVE  files'[path[id]] = id \/ path[id][2] = id
        BY <2>8 DEF PathsLead, LeadsTo, Rename
      <4>1. path[id] \in Files /\ (files[path[id]] = id \/ path[id][2] = id) /\ id # None
        BY DownloadsAssumption DEF Leading, PathsLead, LeadsTo, TypeOK
      <4>2. QED BY <3>3, <4>1
    <3>7. TasksLead'
      <4>1. /\ task'[w].id = t.id /\ task'[w].path = t.path /\ task'[w].dir = t.dir
            /\ task'[w].name = t.name /\ task'[w].stage = "done"
        BY <2>8, <3>1 DEF Rename, TypeOK, Tasks
      <4>2. files'[Target(w)] = t.id
        BY <3>1, <3>2 DEF TypeOK
      <4>3. t.path # None => files'[t.path] = t.id \/ t.path[2] = t.id
        BY <3>1, <3>3, <3>4 DEF Leads, Tasks
      <4>4. Leads(task'[w].id, task'[w], files', parts'[w])
        BY <3>1, <4>1, <4>2, <4>3 DEF Leads, Target
      <4>5. \A v \in Downloaders : v = w
        BY DEF OneAtATime
      <4>6. QED BY <4>4, <4>5 DEF TasksLead, LeadsTo, Leads, Target
    <3>8. QED BY <3>5, <3>6, <3>7 DEF Leading
  <2>9. CASE Fail(w)
    BY <2>9, LeadingOfTask DEF Fail, TypeOK
  <2>10. ASSUME NEW saved \in BOOLEAN, Deliver(w, saved) PROVE Leading'
    <3>1. /\ t \in Tasks /\ Leads(t.id, t, files, parts[w]) /\ Target(w) \in Files
          /\ t.stage = "done"
      BY <2>2, <2>10 DEF Deliver, At
    <3>2. task'[w] = None /\ files' = files
      BY <2>10 DEF Deliver, TypeOK
    <3>3. files[Target(w)] = t.id \/ Target(w)[2] = t.id
      BY <3>1 DEF Leads, Target
    <3>4. \A id \in Ids : path'[id] = path[id] \/ (id = t.id /\ path'[id] = Target(w))
      BY <2>10, <3>1 DEF Deliver, TypeOK
    <3>5. PathsLead'
      BY <3>2, <3>3, <3>4 DEF Leading, PathsLead, LeadsTo
    <3>6. TasksLead'
      BY <3>2 DEF TasksLead, OneAtATime
    <3>7. QED BY <3>2, <3>5, <3>6 DEF Leading, OwnNamesAreOwn
  <2>11. QED
    BY <1>1, <2>1, <2>3, <2>4, <2>5, <2>6, <2>7, <2>8, <2>9, <2>10 DEF Download
<1>2. ASSUME NEW f \in Files, UserRemovesFile(f) PROVE Leading'
  <2>1. /\ f[2] \in Ids /\ f[1] \in Dirs /\ f = <<f[1], f[2]>> /\ files' = [files EXCEPT ![f] = None]
        /\ UNCHANGED <<path, task, parts>>
    BY <1>2, DownloadsAssumption DEF UserRemovesFile, SenderNamesStay, Files, Names
  <2>2. files[f] \in {f[2], None}
    BY <2>1 DEF Leading, OwnNamesAreOwn
  <2>3. ASSUME NEW id \in Ids, NEW g \in Files, files[g] = id \/ g[2] = id
        PROVE  files'[g] = id \/ g[2] = id
    BY <2>1, <2>2, <2>3, DownloadsAssumption DEF TypeOK
  <2>4. OwnNamesAreOwn'
    <3>1. \A g \in Files : files'[g] \in {files[g], None}
      BY <2>1 DEF TypeOK
    <3>2. \A dir \in Dirs, id \in Ids : <<dir, id>> \in Files
      BY DEF Files, Names
    <3>3. QED BY <3>1, <3>2 DEF Leading, OwnNamesAreOwn
  <2>5. PathsLead'
    BY <2>1, <2>3 DEF Leading, PathsLead, LeadsTo, TypeOK
  <2>6. TasksLead'
    <3> SUFFICES ASSUME NEW w \in Downloaders, task[w] # None
                 PROVE  Leads(task[w].id, task[w], files', parts[w])
      BY <2>1 DEF TasksLead, LeadsTo, Leads, Target
    <3>1. task[w] \in Tasks /\ Leads(task[w].id, task[w], files, parts[w])
      BY TargetIsFile, TaskLeads
    <3>2. <<task[w].dir, task[w].name>> \in Files /\ <<task[w].dir, task[w].name>>[2] = task[w].name
      BY <3>1 DEF Files, Tasks
    <3>3. task[w].path # None => task[w].path \in Files
      BY <3>1 DEF Tasks
    <3>4. task[w].id \in Ids
      BY <3>1 DEF Tasks
    <3>5. QED BY <2>3, <3>1, <3>2, <3>3, <3>4 DEF Leads
  <2>7. QED BY <2>4, <2>5, <2>6 DEF Leading
<1>3. CASE Quit \/ Restart
  <2>1. \A w \in Downloaders : task'[w] = None
    BY <1>3 DEF Quit, Restart, PartsMatch
  <2>2. OwnNamesAreOwn' /\ PathsLead'
    BY <1>3 DEF Quit, Restart, Leading, OwnNamesAreOwn, PathsLead, LeadsTo
  <2>3. QED BY <2>1, <2>2 DEF Leading, TasksLead
<1>4. QED BY <1>1, <1>2, <1>3 DEF Next

LEMMA LeadingInvariant ==
  ASSUME OneAtATime, SenderNamesStay
  PROVE  Spec => []Leading
<1>1. Init => Leading
  <2> SUFFICES ASSUME Init PROVE Leading
    OBVIOUS
  <2>1. PICK taken \in SUBSET (Dirs \X SenderNames) :
          files = [f \in Files |-> IF f \in taken THEN Foreign ELSE None]
    BY DEF Init
  <2>2. OwnNamesAreOwn
    BY <2>1, DownloadsAssumption DEF OwnNamesAreOwn, Files, Names
  <2>3. PathsLead /\ TasksLead
    BY DEF Init, PathsLead, TasksLead
  <2>4. QED BY <2>2, <2>3 DEF Leading
<1>2. IInv /\ NamesAreFree /\ Leading /\ [Next]_vars => Leading'
  <2> SUFFICES ASSUME IInv, NamesAreFree, Leading, [Next]_vars PROVE Leading'
    OBVIOUS
  <2>1. CASE Next
    BY <2>1, LeadingStays
  <2>2. CASE UNCHANGED vars
    BY <2>2 DEF Leading, OwnNamesAreOwn, PathsLead, TasksLead, LeadsTo, Target, vars
  <2>3. QED BY <2>1, <2>2
<1>3. QED BY <1>1, <1>2, Inductive, FreeInvariant, PTL DEF Spec

(* What /download, /open and /show hand over is the message's own media,   *)
(* reused (reusableLocalPath) or fetched, in any number of folders and     *)
(* across restarts; at worst the user has just removed it.                 *)
THEOREM DeliversItsMessage ==
  ASSUME OneAtATime, SenderNamesStay
  PROVE  Spec => DeliversTheMessage
<1> DEFINE Handed == \A w \in Downloaders, saved \in BOOLEAN :
                       Deliver(w, saved) => files[Target(w)] \in {task[w].id, None}
<1>1. IInv /\ Leading /\ [Next]_vars => [Handed]_vars
  <2> SUFFICES ASSUME IInv, Leading, NEW w \in Downloaders, NEW saved \in BOOLEAN,
                      Deliver(w, saved)
               PROVE  files[Target(w)] \in {task[w].id, None}
    OBVIOUS
  <2>1. task[w] \in Tasks /\ LeadsTo(task[w].id, Target(w))
    BY TargetIsFile DEF Deliver, At, IInv, Leading, TasksLead
  <2>2. Target(w)[2] = task[w].name /\ Target(w) = <<task[w].dir, task[w].name>>
    BY DEF Target
  <2>3. QED BY <2>1, <2>2 DEF LeadsTo, Leading, OwnNamesAreOwn, Tasks
<1>2. QED BY <1>1, Inductive, LeadingInvariant, PTL DEF Spec, DeliversTheMessage
==============================================================================
