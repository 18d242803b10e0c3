------------------------ MODULE DesktopInstallation ------------------------
(***************************************************************************)
(* Installing, migrating and provisioning the desktop program              *)
(* (tools/desktop-installation.ps1, as tools/build-desktop.ps1 and         *)
(* tools/provision-desktop-data.ps1 use it).                               *)
(*                                                                         *)
(* A file system maps paths to contents; a path is a sequence of names.    *)
(* The script runs one statement after the other, each made of elementary  *)
(* operations that are journalled.  Any of them may throw: a check of      *)
(* redirected paths, a hash that differs, an error of the disk.  Then the  *)
(* journal is undone from its end.  Of the preflight, the checks for       *)
(* redirected paths, wrong kinds of files and staged leftovers are left    *)
(* out: what fails them is no file system to start from.                   *)
(***************************************************************************)
EXTENDS Naturals, Sequences, Functions, SequencesExt

CONSTANTS
  Trees,       \* the file systems an installation may find
  CorpusFiles, \* the files of a corpus, as paths within it, in order
  Candidates,  \* contents of the executable to install
  NoCandidate  \* none: only data is provisioned

Dir == "directory"
AppDir == "directory of the application"
AppFile == "file of the application"
Damaged == "damaged"
Nothing == "nothing"

VARIABLES
  fs,      \* the file system
  initial, \* history: the one that was found
  plan,    \* what New-DesktopInstallPlan decided
  stage,   \* the next statement of Invoke-DesktopInstallation
  ops,     \* what is left of the current one
  journal, \* $Tx.Journal, with the snapshots of the recovery directory
  phase

installVars == <<fs, initial, plan, stage, ops, journal, phase>>

-----------------------------------------------------------------------------
(* File systems *)

Install == <<"TajemnikTV", "TajsAnagrams">>
Legacy == <<"TajemnikTV", "AnagramSolver">>
OldProfile == <<"tv.tajemnik.anagramsolver">>
Link == <<"Programs", "TajsAnagrams.lnk">>
LegacyLink == <<"Programs", "AnagramSolver.lnk">>
Recovery == <<"desktop-install">>

OldCorpora == OldProfile \o <<"corpora">>
UserData == Install \o <<"user-data">>
Settings == UserData \o <<"settings.json">>
WebView == UserData \o <<"EBWebView">>
Exe == Install \o <<"TajsAnagrams.exe">>
OldExe == Install \o <<"AnagramSolver.exe">>
Backup == Install \o <<"backup", "TajsAnagrams.exe">>
OldBackup == Install \o <<"backup", "AnagramSolver.exe">>

Exists(tree, path) == path \in DOMAIN tree
Below(tree, path) == {p \in DOMAIN tree : IsPrefix(path, p)}
Without(tree, path) == Restrict(tree, DOMAIN tree \ Below(tree, path))
With(tree, path, content) ==
  [p \in DOMAIN tree \cup {path} |-> IF p = path THEN content ELSE tree[p]]

\* A directory takes with it whatever is in it.
Moved(tree, from, to) ==
  LET moved == {to \o SubSeq(q, Len(from) + 1, Len(q)) : q \in Below(tree, from)}
  IN [p \in moved \cup (DOMAIN tree \ Below(tree, from)) |->
        IF p \in moved THEN tree[from \o SubSeq(p, Len(to) + 1, Len(p))] ELSE tree[p]]

Paths == Seq(STRING) \ {<<>>}

\* What is in a directory has its directory; none of it is the application's of
\* tomorrow, and the recovery directory has a name of its own.
FileSystem(tree) ==
  /\ tree = [p \in DOMAIN tree |-> tree[p]]
  /\ \A p \in DOMAIN tree :
       /\ p \in Paths
       /\ \A i \in DOMAIN p : Exists(tree, SubSeq(p, 1, i))
       /\ tree[p] \notin {AppDir, AppFile, Nothing}
  /\ ~Exists(tree, Recovery)

ASSUME InstallationAssumption ==
  /\ \A tree \in Trees : FileSystem(tree)
  /\ CorpusFiles \in Seq(Paths)
  /\ Nothing \notin Candidates
  /\ NoCandidate \notin Candidates

-----------------------------------------------------------------------------
(* Preflight *)

Effective(tree) == IF Exists(tree, Legacy) THEN Legacy ELSE Install

\* The backup of the earlier name is a file, which is all that a release ever put there
\* (line 164).  The code does not ask: line 166 would move a directory of that name, with
\* all that is in it, to the recovery directory that a commit deletes.
ASSUME BackupAssumption ==
  \A tree \in Trees :
    Below(tree, Effective(tree) \o <<"backup", "AnagramSolver.exe">>)
      \subseteq {Effective(tree) \o <<"backup", "AnagramSolver.exe">>}

MovesProfile(tree) ==
  /\ Exists(tree, OldProfile)
  /\ ~Exists(tree, Effective(tree) \o <<"user-data">>)
       \/ Exists(tree, OldProfile \o <<"settings.json">>)
       \/ Exists(tree, OldProfile \o <<"results.sqlite">>)
       \/ Exists(tree, OldCorpora)

\* New-DesktopInstallPlan throws nothing.
Accepted(tree, dataOnly) ==
  LET at(name) == Exists(tree, Effective(tree) \o <<name>>) IN
  /\ ~(Exists(tree, Legacy) /\ (Exists(tree, Install) \/ dataOnly))
  /\ Exists(tree, Legacy) => ~(at("AnagramSolver.exe") /\ at("TajsAnagrams.exe"))
  /\ ~(Exists(tree, OldCorpora) /\ at("corpora"))
  /\ ~(MovesProfile(tree) /\ at("user-data"))
  /\ ~(Exists(tree, Legacy) /\ Exists(tree, LegacyLink) /\ at("legacy-shortcut.lnk"))

CorpusBefore(tree) ==
  IF Exists(tree, OldCorpora) THEN OldCorpora ELSE Effective(tree) \o <<"corpora">>

\* What the project has and the corpus lacks.
PlanOf(tree, candidate, available) ==
  [moveInstall |-> Exists(tree, Legacy),
   moveCorpora |-> Exists(tree, OldCorpora),
   moveProfile |-> MovesProfile(tree),
   copies |-> {f \in available : ~Exists(tree, CorpusBefore(tree) \o f)},
   candidate |-> candidate]

InstallInit ==
  \E tree \in Trees, candidate \in Candidates \cup {NoCandidate},
     available \in SUBSET ToSet(CorpusFiles) :
    /\ Accepted(tree, candidate = NoCandidate)
    /\ initial = tree
    /\ fs = With(tree, Recovery, Dir)
    /\ plan = PlanOf(tree, candidate, available)
    /\ stage = 1 /\ ops = <<>> /\ journal = <<>> /\ phase = "running"

-----------------------------------------------------------------------------
(* The statements of Invoke-DesktopInstallation *)

Op(do, from, to, content) == [do |-> do, from |-> from, to |-> to, content |-> content]

\* The length of the nearest ancestor that exists.
Known(path) == CHOOSE n \in 0..Len(path) :
  /\ n = 0 \/ Exists(fs, SubSeq(path, 1, n))
  /\ \A m \in (n + 1)..Len(path) : ~Exists(fs, SubSeq(path, 1, m))

\* New-DesktopDirectory: the missing ancestors first.
MakeDirs(path) ==
  [i \in 1..(Len(path) - Known(path)) |->
     Op("mkdir", <<>>, SubSeq(path, 1, Known(path) + i), Dir)]

\* Move-DesktopItem
MoveItem(from, to) == MakeDirs(Front(to)) \o <<Op("move", from, to, Nothing)>>

SnapshotAfterCopy(to, content) ==
  <<Op("copy", <<>>, to, content), Op("save", <<>>, to, Nothing)>>
\* Save-DesktopFile comes before the copy.
Replace(to, content) ==
  <<Op("save", <<>>, to, Nothing), Op("copy", <<>>, to, content)>>

\* Set-DesktopFile
SetFile(content, to) == MakeDirs(Front(to)) \o Replace(to, content)

When(condition, list) == IF condition THEN list ELSE <<>>

NoSettingsSnapshot == <<>>
SaveTheSettings == <<Op("save", <<>>, Settings, Nothing)>>

Statement(k) ==
  LET copies == Len(CorpusFiles)
      installs == plan.candidate # NoCandidate
  IN CASE k = 1 -> When(plan.moveInstall, MoveItem(Legacy, Install))
       [] k = 2 -> When(plan.moveInstall /\ Exists(fs, OldExe), MoveItem(OldExe, Exe))
       [] k = 3 -> When(plan.moveInstall /\ Exists(fs, LegacyLink),
                        MoveItem(LegacyLink, Install \o <<"legacy-shortcut.lnk">>))
       [] k = 4 -> When(plan.moveCorpora, MoveItem(OldCorpora, Install \o <<"corpora">>))
       [] k = 5 -> When(plan.moveProfile, MoveItem(OldProfile, UserData))
       [] k \in 6..(5 + copies) ->
            When(CorpusFiles[k - 5] \in plan.copies,
                 SetFile("corpus of the project", Install \o <<"corpora">> \o CorpusFiles[k - 5]))
       [] k = 6 + copies ->
            When(installs /\ Exists(fs, Exe)
                   /\ (fs[Exe] # plan.candidate \/ ~Exists(fs, Backup)),
                 SetFile(fs[Exe], Backup))
       [] k = 7 + copies ->
            When(installs /\ Exists(fs, OldBackup) /\ Exists(fs, Backup),
                 MoveItem(OldBackup, Recovery \o <<"legacy-backup.exe">>))
       [] k = 8 + copies -> When(installs, SetFile(plan.candidate, Exe))
       [] k = 9 + copies -> When(installs, SetFile("new shortcut", Link))
       [] k = 10 + copies -> When(installs, SaveTheSettings)

LastStage == 10 + Len(CorpusFiles)

Running == phase = "running"

Begin ==
  /\ Running /\ ops = <<>> /\ stage <= LastStage
  /\ ops' = Statement(stage)
  /\ stage' = stage + 1
  /\ UNCHANGED <<fs, initial, plan, journal, phase>>

\* Add-DesktopJournal
Entry(kind, from, to, original) ==
  Append(journal, [kind |-> kind, from |-> from, to |-> to, original |-> original])

At(path) == IF Exists(fs, path) THEN fs[path] ELSE Nothing

Advance == ops' = Tail(ops) /\ UNCHANGED <<initial, plan, stage, phase>>

CreateDirectory ==
  /\ Running /\ ops # <<>> /\ Head(ops).do = "mkdir"
  /\ fs' = With(fs, Head(ops).to, Dir)
  /\ journal' = Entry("directory", <<>>, Head(ops).to, Nothing)
  /\ Advance

Move ==
  /\ Running /\ ops # <<>> /\ Head(ops).do = "move"
  /\ ~Exists(fs, Head(ops).to)
  /\ fs' = Moved(fs, Head(ops).from, Head(ops).to)
  /\ journal' = Entry("move", Head(ops).from, Head(ops).to, Nothing)
  /\ Advance

SaveFile ==
  /\ Running /\ ops # <<>> /\ Head(ops).do = "save"
  /\ journal' = Entry("file", <<>>, Head(ops).to, At(Head(ops).to))
  /\ UNCHANGED fs
  /\ Advance

CopyFile ==
  /\ Running /\ ops # <<>> /\ Head(ops).do = "copy"
  /\ fs' = With(fs, Head(ops).to, Head(ops).content)
  /\ UNCHANGED journal
  /\ Advance

Undo == phase' = "undoing" /\ ops' = <<>> /\ UNCHANGED <<initial, plan, stage, journal>>

\* A copy stops halfway, or its source changed after the preflight.
CopyBreaks ==
  /\ Running /\ ops # <<>> /\ Head(ops).do = "copy"
  /\ fs' = With(fs, Head(ops).to, Damaged)
  /\ Undo

\* Any other exception, before an operation or between two.
Throw ==
  /\ Running
  /\ UNCHANGED fs
  /\ Undo

\* The application creates its data directory, rewrites settings that name
\* paths of the old place, and may leave files of its own (main.rs:281-290).
Started(relocates, leaves) ==
  LET data == IF Exists(fs, UserData) THEN fs ELSE With(fs, UserData, AppDir)
      settings == IF relocates THEN With(data, Settings, AppFile) ELSE data
  IN IF leaves THEN With(settings, WebView, AppFile) ELSE settings

Activate ==
  /\ Running /\ ops = <<>> /\ stage = LastStage + 1
  /\ plan.candidate # NoCandidate
  /\ \E relocates, leaves \in BOOLEAN :
       /\ relocates => Exists(fs, Settings)
       /\ leaves => ~Exists(fs, WebView)
       /\ fs' = Started(relocates, leaves)
  /\ \/ Undo
     \/ stage' = stage + 1 /\ UNCHANGED <<initial, plan, ops, journal, phase>>

\* The recovery directory goes, with its snapshots.
Commit ==
  /\ Running /\ ops = <<>>
  /\ stage = LastStage + (IF plan.candidate = NoCandidate THEN 1 ELSE 2)
  /\ phase' = "committed"
  /\ fs' = Without(fs, Recovery)
  /\ journal' = <<>>
  /\ UNCHANGED <<initial, plan, stage, ops>>

-----------------------------------------------------------------------------
(* Undo-DesktopInstallation *)

OldestFirst == <<Head(journal), Tail(journal)>>
\* The entry to undo and what is left after it.
NextUndo == <<Last(journal), Front(journal)>>

\* Nothing is overwritten by a move, and no directory is deleted that holds
\* anything.
Undoable(entry) ==
  CASE entry.kind = "file" -> TRUE
    [] entry.kind = "move" -> Exists(fs, entry.to) /\ ~Exists(fs, entry.from)
    [] entry.kind = "directory" -> Below(fs, entry.to) = {entry.to}

Undoing == phase = "undoing" /\ journal # <<>>

RestoreFile ==
  /\ Undoing /\ NextUndo[1].kind = "file"
  /\ LET entry == NextUndo[1] IN
       fs' = IF entry.original # Nothing THEN With(fs, entry.to, entry.original)
                                         ELSE Without(fs, entry.to)
  /\ journal' = NextUndo[2]
  /\ UNCHANGED <<initial, plan, stage, ops, phase>>

MoveBack ==
  /\ Undoing /\ NextUndo[1].kind = "move"
  /\ Undoable(NextUndo[1])
  /\ fs' = Moved(fs, NextUndo[1].to, NextUndo[1].from)
  /\ journal' = NextUndo[2]
  /\ UNCHANGED <<initial, plan, stage, ops, phase>>

RemoveDirectory ==
  /\ Undoing /\ NextUndo[1].kind = "directory"
  /\ Undoable(NextUndo[1])
  /\ fs' = Without(fs, NextUndo[1].to)
  /\ journal' = NextUndo[2]
  /\ UNCHANGED <<initial, plan, stage, ops, phase>>

\* The entry cannot be undone as things are: the rest is left for a person.
Blocked ==
  /\ Undoing /\ ~Undoable(NextUndo[1])
  /\ phase' = "blocked"
  /\ UNCHANGED <<fs, initial, plan, stage, ops, journal>>

\* The disk fails again during the undo; a file may be left half restored.
UndoBreaks ==
  /\ Undoing
  /\ phase' = "broken"
  /\ fs' = IF NextUndo[1].original # Nothing THEN With(fs, NextUndo[1].to, Damaged) ELSE fs
  /\ UNCHANGED <<initial, plan, stage, ops, journal>>

RolledBack ==
  /\ phase = "undoing" /\ journal = <<>>
  /\ phase' = "rolled back"
  /\ UNCHANGED <<fs, initial, plan, stage, ops, journal>>

InstallNext ==
  \/ Begin \/ CreateDirectory \/ Move \/ SaveFile \/ CopyFile
  \/ CopyBreaks \/ Throw \/ Activate \/ Commit
  \/ RestoreFile \/ MoveBack \/ RemoveDirectory
  \/ Blocked \/ UndoBreaks \/ RolledBack

InstallSpec == InstallInit /\ [][InstallNext]_installVars

-----------------------------------------------------------------------------
(* Properties *)

\* Without the recovery directory and what the application left.
Own(tree) ==
  LET rest == Without(tree, Recovery)
  IN Restrict(rest, {p \in DOMAIN rest : rest[p] \notin {AppDir, AppFile}})

\* A failed installation that says it was rolled back was: every file and every
\* directory is where it was and holds what it held, wherever it failed and
\* whatever the started application rewrote (lines 115-137, 183-187).
RollbackRestores == phase = "rolled back" => Own(fs) = initial

\* An undo gives up for a reason of its own only where the application left
\* something in a directory the installation made (line 132: "never erase
\* unowned files"): the installer's own steps never stand in each other's way.
BlockedOnlyByTheApplication ==
  phase = "blocked" =>
    /\ Last(journal).kind = "directory"
    /\ \A p \in Below(fs, Last(journal).to) \ {Last(journal).to} :
         fs[p] \in {AppDir, AppFile}

\* What a new release replaces on purpose.
Replaced ==
  {Effective(initial) \o <<"backup", name>> : name \in {"TajsAnagrams.exe", "AnagramSolver.exe"}}
    \cup {Link}
    \cup IF At(Settings) = AppFile
           THEN {OldProfile \o <<"settings.json">>,
                 Effective(initial) \o <<"user-data", "settings.json">>}
           ELSE {}

\* At no time, so after no crash, failed undo or commit, is a file of the user
\* gone: its contents are in the file system or in a snapshot that is still
\* there (lines 2-3).  Only a commit lets go of what it replaces.
NothingIsLost ==
  LET kept == Range(fs) \cup {journal[i].original : i \in DOMAIN journal}
      spared == IF phase = "committed" THEN Replaced ELSE {}
  IN \A p \in DOMAIN initial \ spared : initial[p] \in kept

\* "Rollback covers synchronous failures" (line 2): only a disk that fails again
\* leaves an undo unfinished.
RollbackCoversFailures == phase # "blocked"
=============================================================================
