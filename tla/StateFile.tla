------------------------------ MODULE StateFile ------------------------------
(***************************************************************************)
(* adapters/statejson: the state file across starts of the process.  Open  *)
(* reads, migrates, repairs and validates it, archives what it is about to *)
(* rewrite, and resets the two formats that predate projects; Save         *)
(* replaces it by the rename of a synced temporary file.  Around them run  *)
(* the mutations of Workspace, failing writes, and crashes of the process  *)
(* or of the machine between any two steps.                                *)
(*                                                                         *)
(* What lies on the disk is the directory entry of the state file, the     *)
(* timestamped archives, the fixed-name backup of a reset and the dialog   *)
(* directory.  No code syncs the directory, so a power failure may undo    *)
(* the last change of these entries: `settled` is the disk without it.     *)
(* File contents are synced before they are named and are atomic.          *)
(***************************************************************************)
EXTENDS Workspace

CONSTANTS
  Absent, Broken,   \* no file; one no release could have written whole
  Legacy,           \* a recognized version 1 or 2 file
  Stored,           \* the other files earlier releases may have left
  NoSession,        \* nothing loaded, nothing being saved
  MaxFaults         \* bound: crashes and failing writes

VARIABLES
  disk,      \* [file, archives, aside, dialogs]
  settled,   \* the disk before its last change
  faults     \* crashes and failing writes so far

vars == <<workVars, disk, settled, faults>>

\* Repository.version: what Save writes.
Current == 9

\* Files that decode; `equipment` marks tasks with the fields version 8 had.
Files == [version : {3, 4, 5, 7, 8, 9}, equipment : BOOLEAN, browser : Browsers]

\* `archives` - no timestamped archive yet, only archives of what the file
\* held before, or among them a complete one of what it holds now.
Disks ==
  [file : Files \cup {Absent, Broken, Legacy}, archives : {"none", "older", "current"},
   aside : {"none", "partial", "complete"}, dialogs : {"none", "live", "moved"}]

\* down - not running; archiving, copying, moving - inside Open; saving,
\* saved - before and after the rename of a Save; running - serving requests.
Phases == {"down", "archiving", "copying", "moving", "saving", "saved", "running"}

-----------------------------------------------------------------------------
(***************************************************************************)
(* Decoding.                                                               *)
(***************************************************************************)

\* Fault: the repair forgets the call that was running.
Normalize_KeepsLease(b) ==
  [b EXCEPT !.active = IF IsKnownProfile(b, @) THEN @ ELSE Barista]

\* normalize: an unknown profile gives way to the default one, and a call the
\* stopped process left behind is closed.
Normalize(b) ==
  [b EXCEPT !.active = IF IsKnownProfile(b, @) THEN @ ELSE Barista, !.lease = NoChat]

\* validate: no two profiles of a session have the same lower-case name.
Validate(b) == \A m, n \in b.profiles : LowerOf[m] = LowerOf[n] => m = n

\* The strict decoder knows no equipment; migrateV8 removes it from version 8.
Decodes(f) == f \in Files /\ (f.equipment => f.version = 8)

Readable(f) == Decodes(f) /\ Validate(Normalize(f.browser))

\* The file Open would write is not the one it has read.
Rewritten(f) == f.version # Current \/ Normalize(f.browser) # f.browser

\* fromState: every field of the session goes to the file as it is.
Encoded(b) == [version |-> Current, equipment |-> FALSE, browser |-> b]

\* What a session says about places holds within it.
Located(b) ==
  /\ b.project \in b.projects \cup {NoProject}
  /\ b.chat # NoChat => b.project # NoProject /\ b.place[b.chat] = b.project
  /\ b.lease # NoChat => b.place[b.lease] # NoProject
  /\ \A c \in Chats : b.place[c] \in b.projects \cup {NoProject}

\* The files earlier starts have left: their references held when they were
\* saved, and what this release has saved is what it can read.
ASSUME StateFileAssumption ==
  /\ Stored \subseteq Files
  /\ \A f \in Stored :
       /\ Located(f.browser)
       /\ f.version = Current /\ ~f.equipment
            => Validate(f.browser) /\ IsKnownProfile(f.browser, f.browser.active)
  /\ {Absent, Broken, Legacy} \cap Files = {}
  /\ Absent # Broken /\ Absent # Legacy /\ Broken # Legacy
  /\ NoSession \notin Browsers
  /\ MaxFaults \in Nat

Init ==
  /\ mem = NoSession /\ cand = NoSession /\ phase = "down"
  /\ \E f \in {Absent, Broken, Legacy} \cup Stored, d \in {"none", "live"} :
       /\ d = "live" => f = Legacy
       /\ disk = [file |-> f, archives |-> "none", aside |-> "none", dialogs |-> d]
  /\ settled = disk
  /\ faults = 0

-----------------------------------------------------------------------------
(***************************************************************************)
(* Open.                                                                   *)
(***************************************************************************)
Opening == mem = NoSession

\* A step that does not touch the disk, and one that changes an entry of it.
Stay == UNCHANGED <<disk, settled, faults>>
Enter(d) == disk' = d /\ settled' = disk /\ UNCHANGED faults

OpenFresh ==
  /\ phase = "down" /\ disk.file = Absent
  /\ phase' = "saving" /\ cand' = NewBrowser
  /\ UNCHANGED mem /\ Stay

OpenUnchanged ==
  /\ phase = "down" /\ Readable(disk.file) /\ ~Rewritten(disk.file)
  /\ phase' = "running" /\ mem' = disk.file.browser
  /\ UNCHANGED cand /\ Stay

OpenRewritten ==
  /\ phase = "down" /\ Readable(disk.file) /\ Rewritten(disk.file)
  /\ phase' = "archiving" /\ cand' = Normalize(disk.file.browser)
  /\ UNCHANGED mem /\ Stay

\* Fault: the archive has one fixed name and is created exclusively.
Archive_FixedName ==
  /\ phase = "archiving"
  /\ \/ /\ disk.archives = "none" /\ phase' = "saving"
        /\ Enter([disk EXCEPT !.archives = "current"])
        /\ UNCHANGED <<mem, cand>>
     \/ /\ disk.archives # "none" /\ phase' = "down" /\ cand' = NoSession
        /\ UNCHANGED mem /\ Stay

\* A new file per start, named by the time, complete before Save begins.
Archive ==
  /\ phase = "archiving"
  /\ phase' = "saving"
  /\ Enter([disk EXCEPT !.archives = "current"])
  /\ UNCHANGED <<mem, cand>>

\* The backup of a reset has a fixed name and is created exclusively.
OpenLegacy ==
  /\ phase = "down" /\ disk.file = Legacy /\ disk.aside = "none"
  /\ phase' = "copying"
  /\ Enter([disk EXCEPT !.aside = "partial"])
  /\ UNCHANGED <<mem, cand>>

CopyLegacy ==
  /\ phase = "copying"
  /\ phase' = "moving"
  /\ Enter([disk EXCEPT !.aside = "complete"])
  /\ UNCHANGED <<mem, cand>>

MoveDialogs ==
  /\ phase = "moving"
  /\ phase' = "saving" /\ cand' = NewBrowser
  /\ Enter([disk EXCEPT !.dialogs = IF @ = "live" THEN "moved" ELSE @])
  /\ UNCHANGED mem

\* Fault: a file that cannot be read is taken for a fresh start.
OpenRefused_Resets ==
  /\ phase = "down" /\ disk.file # Absent /\ ~Readable(disk.file)
  /\ disk.file = Legacy => disk.aside # "none"
  /\ phase' = "saving" /\ cand' = NewBrowser
  /\ UNCHANGED mem /\ Stay

\* The process exits, to be started again, and leaves everything as it is.
OpenRefused ==
  /\ phase = "down" /\ disk.file # Absent /\ ~Readable(disk.file)
  /\ disk.file = Legacy => disk.aside # "none"
  /\ UNCHANGED vars

-----------------------------------------------------------------------------
(***************************************************************************)
(* Save.                                                                   *)
(***************************************************************************)

\* The temporary file is complete and synced: rename.
Replace ==
  /\ phase = "saving"
  /\ phase' = "saved"
  /\ Enter([disk EXCEPT !.file = Encoded(cand),
                         !.archives = IF @ = "none" THEN @ ELSE "older"])
  /\ UNCHANGED <<mem, cand>>

Publish ==
  /\ phase = "saved"
  /\ phase' = "running"
  /\ mem' = cand /\ cand' = NoSession
  /\ Stay

Operate == phase = "running" /\ Mutate /\ Stay

-----------------------------------------------------------------------------
(***************************************************************************)
(* Faults.                                                                 *)
(***************************************************************************)
Fault == faults < MaxFaults /\ faults' = faults + 1

\* Fault: the candidate is published although it could not be saved.
SaveFails_Publishes ==
  /\ Fault /\ phase = "saving"
  /\ phase' = IF Opening THEN "down" ELSE "running"
  /\ mem' = (IF Opening THEN mem ELSE cand) /\ cand' = NoSession
  /\ UNCHANGED <<disk, settled>>

\* The temporary file or the rename fails: the caller keeps what was
\* published.  A failed reset renames the dialogs back if it can, and leaves
\* its backup behind.
SaveFails ==
  /\ Fault /\ phase = "saving"
  /\ phase' = IF Opening THEN "down" ELSE "running"
  /\ cand' = NoSession
  /\ \/ UNCHANGED disk
     \/ /\ disk.file = Legacy /\ disk.dialogs = "moved"
        /\ disk' = [disk EXCEPT !.dialogs = "live"]
  /\ UNCHANGED <<mem, settled>>

\* A step of Open before the save fails: the process exits.
OpenFails ==
  /\ Fault /\ phase \in {"archiving", "copying", "moving"}
  /\ phase' = "down" /\ cand' = NoSession
  /\ UNCHANGED <<mem, disk, settled>>

Crash ==
  /\ Fault /\ phase # "down"
  /\ phase' = "down" /\ mem' = NoSession /\ cand' = NoSession
  /\ UNCHANGED <<disk, settled>>

PowerFailure ==
  /\ Fault
  /\ phase' = "down" /\ mem' = NoSession /\ cand' = NoSession
  /\ disk' \in {disk, settled} /\ settled' = disk'

Progress ==
  \/ OpenFresh \/ OpenUnchanged \/ OpenRewritten \/ Archive
  \/ OpenLegacy \/ CopyLegacy \/ MoveDialogs \/ OpenRefused
  \/ Replace \/ Publish

Next ==
  \/ Progress \/ Operate
  \/ SaveFails \/ OpenFails \/ Crash \/ PowerFailure

\* The container is started again until it runs; a step of Open or Save that
\* does not fail ends.  Users owe nothing.
Spec == Init /\ [][Next]_vars /\ WF_vars(Progress)

-----------------------------------------------------------------------------
\* Only a file that predates profiles may lack an active one.
TypeOK ==
  /\ mem \in Browsers \cup {NoSession}
  /\ cand \in Browsers \cup {NoSession}
  /\ \A b \in {mem, cand} \ {NoSession} : b.active # NoProfile
  /\ phase \in Phases
  /\ disk \in Disks /\ settled \in Disks
  /\ faults \in 0..MaxFaults

(***************************************************************************)
(* What a session refers to is in it: the selected chat lies in the        *)
(* selected project, the lease belongs to an existing chat, the active     *)
(* profile is a known one, chats lie in existing projects - after every    *)
(* order of creations, selections, deletions, commits and restarts.        *)
(***************************************************************************)
Consistent(b) == Located(b) /\ IsKnownProfile(b, b.active)

ReferencesExist == mem # NoSession => Consistent(mem)

(***************************************************************************)
(* Whatever this release has saved it can open again, and the profiles and *)
(* the active one are then what they were: no sequence of accepted         *)
(* operations builds a session that the next start refuses.                *)
(***************************************************************************)
SavedStateReopens ==
  disk.file \in Files /\ disk.file.version = Current /\ ~disk.file.equipment =>
    /\ Readable(disk.file)
    /\ Normalize(disk.file.browser).active = disk.file.browser.active

(***************************************************************************)
(* What is served is what a new start of the process would find: nothing   *)
(* is shown before it is in the file, and a failed save leaves both alone. *)
(***************************************************************************)
PublishedIsDurable == phase = "running" => disk.file = Encoded(mem)

(***************************************************************************)
(* A call that was running when the process stopped holds no lease after   *)
(* the start: the session is never busy for a worker that is not there.    *)
(***************************************************************************)
NoOrphanedLease ==
  [][Opening /\ mem' # NoSession => mem'.lease = NoChat]_vars

(***************************************************************************)
(* A start replaces a file only when a complete copy of it lies beside it, *)
(* and a file it cannot read it does not replace at all.                   *)
(***************************************************************************)
ArchivedFirst ==
  [][Opening /\ phase = "saving" /\ phase' = "saved" =>
       \/ disk.file = Absent
       \/ Readable(disk.file) /\ disk.archives = "current"
       \/ disk.file = Legacy /\ disk.aside = "complete"]_vars

(***************************************************************************)
(* When the faults end, a readable file is served, however many starts     *)
(* were interrupted while they migrated it.  A legacy file is excluded:    *)
(* an interrupted reset leaves its backup, which stops every later start.  *)
(***************************************************************************)
Reopens ==
  (phase = "down" /\ (Readable(disk.file) \/ disk.file = Absent) /\ settled.file # Legacy)
    ~> phase = "running"
=============================================================================
