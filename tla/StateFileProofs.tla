--------------------------- MODULE StateFileProofs ---------------------------
(***************************************************************************)
(* The safety properties of StateFile for every set of identifiers, names  *)
(* and files of earlier starts, every case folding and every number of     *)
(* faults.                                                                 *)
(***************************************************************************)
EXTENDS StateFile, TLAPS

\* What every file on the disk, and the one before its last change, holds.
FileHolds(f) ==
  f \in Files =>
    /\ Located(f.browser)
    /\ f.version = Current /\ f.equipment = FALSE
         => IsKnownProfile(f.browser, f.browser.active)

FilesHold == FileHolds(disk.file) /\ FileHolds(settled.file)

SessionsHold ==
  /\ mem # NoSession => Consistent(mem)
  /\ cand # NoSession => Consistent(cand)

\* What may be replaced: nothing, a file that was archived, or one set aside.
Replaceable ==
  \/ disk.file = Absent
  \/ Readable(disk.file) /\ disk.archives = "current"
  \/ disk.file = Legacy /\ disk.aside = "complete"

\* What each phase of the process knows of the disk and of its two sessions.
Staged ==
  /\ phase \in {"down", "copying", "moving"} => mem = NoSession /\ cand = NoSession
  /\ phase = "archiving" =>
       mem = NoSession /\ cand # NoSession /\ Readable(disk.file) /\ cand.lease = NoChat
  /\ phase \in {"copying", "moving"} => disk.file = Legacy
  /\ phase = "moving" => disk.aside = "complete"
  /\ phase \in {"saving", "saved"} =>
       cand # NoSession /\ (mem = NoSession => cand.lease = NoChat)
  /\ phase = "saving" =>
       IF mem = NoSession THEN Replaceable ELSE disk.file = Encoded(mem)
  /\ phase = "saved" => disk.file = Encoded(cand)
  /\ phase = "running" => mem # NoSession /\ cand = NoSession /\ disk.file = Encoded(mem)

IInv == TypeOK /\ FilesHold /\ SessionsHold /\ Staged

-----------------------------------------------------------------------------
(***************************************************************************)
(* Facts about sessions.                                                   *)
(***************************************************************************)
LEMMA NewIsSound == NewBrowser \in Browsers /\ Consistent(NewBrowser)
BY WorkspaceAssumption DEF NewBrowser, Browsers, Consistent, Located, IsKnownProfile

\* normalize repairs the active profile and touches no place.
LEMMA NormalizeRepairs ==
  ASSUME NEW b \in Browsers, Located(b)
  PROVE  /\ Normalize(b) \in Browsers
         /\ Consistent(Normalize(b))
         /\ Normalize(b).lease = NoChat
         /\ Normalize(b).profiles = b.profiles
         /\ IsKnownProfile(b, b.active) => Normalize(b).active = b.active
BY WorkspaceAssumption
DEF Normalize, Browsers, Consistent, Located, IsKnownProfile

\* Whatever a mutation saves is a session whose references hold.
LEMMA MutateIsSound ==
  ASSUME mem \in Browsers, Consistent(mem), Mutate
  PROVE  /\ cand' \in Browsers /\ Consistent(cand')
         /\ phase = "running" /\ phase' = "saving" /\ mem' = mem
<1> USE WorkspaceAssumption DEF Save, Browsers, Consistent, Located, IsKnownProfile
<1>1. ASSUME NEW p \in Projects, CreateProject(p)
      PROVE  cand' \in Browsers /\ Consistent(cand') /\ Save(cand')
  BY <1>1 DEF CreateProject
<1>2. ASSUME NEW p \in Projects, SelectProject(p)
      PROVE  cand' \in Browsers /\ Consistent(cand') /\ Save(cand')
  BY <1>2 DEF SelectProject
<1>3. ASSUME NEW p \in Projects, DeleteProject(p)
      PROVE  cand' \in Browsers /\ Consistent(cand') /\ Save(cand')
  BY <1>3 DEF DeleteProject, InProject
<1>4. ASSUME NEW p \in Projects, NEW c \in Chats, CreateChat(p, c)
      PROVE  cand' \in Browsers /\ Consistent(cand') /\ Save(cand')
  BY <1>4 DEF CreateChat
<1>5. ASSUME NEW p \in Projects, NEW c \in Chats, SelectChat(p, c)
      PROVE  cand' \in Browsers /\ Consistent(cand') /\ Save(cand')
  BY <1>5 DEF SelectChat
<1>6. ASSUME NEW p \in Projects, NEW c \in Chats, DeleteChat(p, c)
      PROVE  cand' \in Browsers /\ Consistent(cand') /\ Save(cand')
  BY <1>6 DEF DeleteChat
<1>7. ASSUME NEW n \in Names, CreateProfile(n)
      PROVE  cand' \in Browsers /\ Consistent(cand') /\ Save(cand')
  BY <1>7 DEF CreateProfile
<1>8. ASSUME NEW n \in Names, DeleteProfile(n)
      PROVE  cand' \in Browsers /\ Consistent(cand') /\ Save(cand')
  BY <1>8 DEF DeleteProfile
<1>9. ASSUME NEW n \in Names \cup BuiltIns, SelectProfile(n)
      PROVE  cand' \in Browsers /\ Consistent(cand') /\ Save(cand')
  BY <1>9 DEF SelectProfile
<1>10. ASSUME NEW c \in Chats, Claim(c)
       PROVE  cand' \in Browsers /\ Consistent(cand') /\ Save(cand')
  BY <1>10 DEF Claim
<1>11. CASE Settle
  BY <1>11 DEF Settle
<1>12. CASE Touch
  BY <1>12 DEF Touch
<1> QED
  BY <1>1, <1>2, <1>3, <1>4, <1>5, <1>6, <1>7, <1>8, <1>9, <1>10, <1>11, <1>12 DEF Mutate

-----------------------------------------------------------------------------
(***************************************************************************)
(* The invariant holds.                                                    *)
(***************************************************************************)
LEMMA InitHolds == Init => IInv
<1> USE WorkspaceAssumption, StateFileAssumption
<1> SUFFICES ASSUME Init PROVE IInv
  OBVIOUS
<1>1. PICK f \in {Absent, Broken, Legacy} \cup Stored, d \in {"none", "live"} :
        disk = [file |-> f, archives |-> "none", aside |-> "none", dialogs |-> d]
  BY DEF Init
<1>2. TypeOK
  BY <1>1 DEF Init, TypeOK, Disks, Phases
<1>3. FileHolds(f)
  BY <1>1 DEF FileHolds
<1>4. FilesHold
  BY <1>1, <1>3 DEF Init, FilesHold
<1> QED
  BY <1>2, <1>4 DEF Init, IInv, SessionsHold, Staged

LEMMA StepHolds == IInv /\ [Next]_vars => IInv'
<1> SUFFICES ASSUME IInv, [Next]_vars PROVE IInv'
  OBVIOUS
<1> USE WorkspaceAssumption, StateFileAssumption DEF IInv
<1>0. disk.file \in Files => disk.file.browser \in Browsers
  BY DEF Files
<1>1. CASE OpenFresh
  BY <1>1, NewIsSound
  DEF OpenFresh, Stay, TypeOK, Phases, FilesHold, SessionsHold, Staged, Replaceable,
      Consistent, IsKnownProfile, NewBrowser
<1>2. CASE OpenUnchanged
  <2> DEFINE b == disk.file.browser
  <2>1. disk.file \in Files /\ b \in Browsers /\ Located(b) /\ Normalize(b) = b
        /\ disk.file.version = Current /\ disk.file.equipment = FALSE
    BY <1>2 DEF OpenUnchanged, Readable, Rewritten, Decodes, Files, FilesHold, FileHolds, Current
  <2>2. Consistent(b) /\ b.lease = NoChat
    BY <2>1, NormalizeRepairs
  <2>3. disk.file = Encoded(b)
    BY <2>1 DEF Files, Encoded
  <2>4. TypeOK'
    BY <1>2, <2>1, <2>2 DEF OpenUnchanged, Stay, TypeOK, Phases, Consistent, IsKnownProfile, Browsers
  <2>5. (FilesHold /\ SessionsHold /\ Staged)'
    BY <1>2, <2>1, <2>2, <2>3
    DEF OpenUnchanged, Stay, FilesHold, SessionsHold, Staged
  <2> QED BY <2>4, <2>5
<1>3. CASE OpenRewritten
  <2> DEFINE b == disk.file.browser
  <2>1. disk.file \in Files /\ b \in Browsers /\ Located(b)
    BY <1>3 DEF OpenRewritten, Readable, Decodes, Files, FilesHold, FileHolds
  <2>2. /\ Normalize(b) \in Browsers /\ Consistent(Normalize(b))
        /\ Normalize(b).lease = NoChat
    BY <2>1, NormalizeRepairs
  <2>3. TypeOK'
    BY <1>3, <2>2 DEF OpenRewritten, Stay, TypeOK, Phases, Consistent, IsKnownProfile, Browsers
  <2>4. mem = NoSession
    BY <1>3 DEF OpenRewritten, Staged
  <2>5. (FilesHold /\ SessionsHold /\ Staged)'
    BY <1>3, <2>2, <2>4
    DEF OpenRewritten, Stay, FilesHold, SessionsHold, Staged
  <2> QED BY <2>3, <2>5
<1>4. CASE Archive
  BY <1>4
  DEF Archive, Enter, TypeOK, Phases, Disks, FilesHold, SessionsHold, Staged, Replaceable
<1>5. CASE OpenLegacy
  BY <1>5
  DEF OpenLegacy, Enter, TypeOK, Phases, Disks, FilesHold, SessionsHold, Staged
<1>6. CASE CopyLegacy
  BY <1>6
  DEF CopyLegacy, Enter, TypeOK, Phases, Disks, FilesHold, SessionsHold, Staged
<1>7. CASE MoveDialogs
  BY <1>7, NewIsSound
  DEF MoveDialogs, Enter, TypeOK, Phases, Disks, FilesHold, SessionsHold, Staged,
      Replaceable, Consistent, IsKnownProfile, NewBrowser
<1>8. CASE OpenRefused
  BY <1>8
  DEF OpenRefused, vars, workVars, TypeOK, FilesHold, SessionsHold, Staged, Replaceable
<1>9. CASE Replace
  <2>1. cand \in Browsers /\ Consistent(cand)
    BY <1>9 DEF Replace, Staged, SessionsHold, TypeOK
  <2>2. Encoded(cand) \in Files /\ FileHolds(Encoded(cand))
    BY <2>1 DEF Encoded, Files, Current, FileHolds, Consistent
  <2>3. TypeOK'
    BY <1>9, <2>2 DEF Replace, Enter, TypeOK, Phases, Disks
  <2>4. disk'.file = Encoded(cand) /\ settled' = disk
    BY <1>9 DEF Replace, Enter, TypeOK, Disks
  <2>5. (FilesHold /\ SessionsHold)'
    BY <1>9, <2>2, <2>4 DEF Replace, FilesHold, SessionsHold
  <2>6. Staged'
    BY <1>9, <2>4 DEF Replace, Staged
  <2> QED BY <2>3, <2>5, <2>6
<1>10. CASE Publish
  BY <1>10
  DEF Publish, Stay, TypeOK, Phases, FilesHold, SessionsHold, Staged
<1>11. CASE Operate
  <2>1. phase = "running" /\ mem \in Browsers /\ Consistent(mem) /\ disk.file = Encoded(mem)
        /\ mem # NoSession
    BY <1>11 DEF Operate, Staged, SessionsHold, TypeOK
  <2>2. /\ cand' \in Browsers /\ Consistent(cand')
        /\ phase' = "saving" /\ mem' = mem /\ disk' = disk /\ settled' = settled
        /\ faults' = faults
    BY <1>11, <2>1, MutateIsSound DEF Operate, Stay
  <2>3. cand' # NoSession
    BY <2>2
  <2>4. TypeOK'
    BY <2>2 DEF TypeOK, Phases, Consistent, IsKnownProfile, Browsers
  <2>5. (FilesHold /\ SessionsHold /\ Staged)'
    BY <2>1, <2>2, <2>3 DEF FilesHold, SessionsHold, Staged
  <2> QED BY <2>4, <2>5
<1>12. CASE SaveFails
  <2>1. disk'.file = disk.file /\ disk' \in Disks /\ settled' = settled
    BY <1>12 DEF SaveFails, TypeOK, Disks
  <2>2. faults' \in 0..MaxFaults
    BY <1>12 DEF SaveFails, Fault, TypeOK
  <2>3. mem' = mem /\ cand' = NoSession
        /\ phase' = IF mem = NoSession THEN "down" ELSE "running"
    BY <1>12 DEF SaveFails, Opening
  <2>4. TypeOK'
    BY <2>1, <2>2, <2>3 DEF TypeOK, Phases
  <2>5. (FilesHold /\ SessionsHold)'
    BY <2>1, <2>3 DEF FilesHold, SessionsHold
  <2>6. Staged'
    BY <1>12, <2>1, <2>3 DEF SaveFails, Staged
  <2> QED BY <2>4, <2>5, <2>6
<1>13. CASE OpenFails
  <2>1. /\ mem = NoSession /\ mem' = NoSession /\ cand' = NoSession /\ phase' = "down"
        /\ disk' = disk /\ settled' = settled
    BY <1>13 DEF OpenFails, Staged
  <2>2. faults' \in 0..MaxFaults
    BY <1>13 DEF OpenFails, Fault, TypeOK
  <2> QED BY <2>1, <2>2 DEF TypeOK, Phases, FilesHold, SessionsHold, Staged
<1>14. CASE Crash
  <2>1. /\ mem' = NoSession /\ cand' = NoSession /\ phase' = "down"
        /\ disk' = disk /\ settled' = settled
    BY <1>14 DEF Crash
  <2>2. faults' \in 0..MaxFaults
    BY <1>14 DEF Crash, Fault, TypeOK
  <2> QED BY <2>1, <2>2 DEF TypeOK, Phases, FilesHold, SessionsHold, Staged
<1>15. CASE PowerFailure
  <2>1. /\ mem' = NoSession /\ cand' = NoSession /\ phase' = "down"
        /\ disk' \in {disk, settled} /\ settled' = disk'
    BY <1>15 DEF PowerFailure
  <2>2. faults' \in 0..MaxFaults
    BY <1>15 DEF PowerFailure, Fault, TypeOK
  <2> QED BY <2>1, <2>2 DEF TypeOK, Phases, FilesHold, SessionsHold, Staged
<1>16. CASE UNCHANGED vars
  BY <1>16
  DEF vars, workVars, TypeOK, FilesHold, SessionsHold, Staged, Replaceable
<1> QED
  BY <1>1, <1>2, <1>3, <1>4, <1>5, <1>6, <1>7, <1>8, <1>9, <1>10, <1>11, <1>12, <1>13,
     <1>14, <1>15, <1>16
  DEF Next, Progress

\* The strengthening that the safety properties rest on.
THEOREM Safety == Spec => []IInv
<1> QED BY InitHolds, StepHolds, PTL DEF Spec

-----------------------------------------------------------------------------
\* Sessions, files and phases keep their types, whatever fails.
THEOREM TypeCorrect == Spec => []TypeOK
<1>1. IInv => TypeOK
  BY DEF IInv
<1> QED BY <1>1, Safety, PTL

\* What a session refers to is in it, after every order of operations and starts.
THEOREM ReferencesHold == Spec => []ReferencesExist
<1>1. IInv => ReferencesExist
  BY DEF IInv, SessionsHold, ReferencesExist
<1> QED BY <1>1, Safety, PTL

\* What is served is what the next start of the process would find.
THEOREM ServedIsSaved == Spec => []PublishedIsDurable
<1>1. IInv => PublishedIsDurable
  BY DEF IInv, Staged, PublishedIsDurable
<1> QED BY <1>1, Safety, PTL

\* No start replaces a file of which it keeps no complete copy.
THEOREM NothingIsOverwritten == Spec => ArchivedFirst
<1>1. IInv /\ [Next]_vars =>
        [Opening /\ phase = "saving" /\ phase' = "saved" =>
           \/ disk.file = Absent
           \/ Readable(disk.file) /\ disk.archives = "current"
           \/ disk.file = Legacy /\ disk.aside = "complete"]_vars
  BY DEF IInv, Staged, Replaceable, Opening
<1> QED BY <1>1, Safety, PTL DEF Spec, ArchivedFirst

\* No call of a stopped process keeps its session busy after the start.
THEOREM LeasesEndWithTheProcess == Spec => NoOrphanedLease
<1>1. IInv /\ [Next]_vars =>
        [Opening /\ mem' # NoSession => mem'.lease = NoChat]_vars
  <2> SUFFICES ASSUME IInv, [Next]_vars, mem = NoSession, mem' # NoSession
               PROVE  mem'.lease = NoChat
    BY DEF Opening
  <2>1. CASE OpenUnchanged
    <3> DEFINE b == disk.file.browser
    <3>1. b \in Browsers /\ Located(b) /\ Normalize(b) = b /\ mem' = b
      BY <2>1 DEF OpenUnchanged, Readable, Rewritten, Decodes, Files, IInv, FilesHold, FileHolds
    <3> QED BY <3>1, NormalizeRepairs
  <2>2. CASE Publish
    BY <2>2 DEF Publish, IInv, Staged
  <2>3. CASE Operate
    BY <2>3 DEF Operate, IInv, Staged
  <2>4. CASE SaveFails \/ OpenFails \/ Crash \/ PowerFailure
    BY <2>4 DEF SaveFails, OpenFails, Crash, PowerFailure, Opening
  <2>5. CASE OpenFresh \/ OpenRewritten \/ Archive \/ OpenLegacy \/ CopyLegacy \/ MoveDialogs
             \/ OpenRefused \/ Replace \/ UNCHANGED vars
    BY <2>5
    DEF OpenFresh, OpenRewritten, Archive, OpenLegacy, CopyLegacy, MoveDialogs, OpenRefused,
        Replace, vars, workVars
  <2> QED BY <2>1, <2>2, <2>3, <2>4, <2>5 DEF Next, Progress
<1> QED BY <1>1, Safety, PTL DEF Spec, NoOrphanedLease
-----------------------------------------------------------------------------
(***************************************************************************)
(* What has been saved can be opened again, provided that names which      *)
(* agree in lower case also agree under the folding that CreateProfile     *)
(* compares them with.                                                     *)
(***************************************************************************)
NamesAgree ==
  \A m, n \in Names \cup BuiltIns : LowerOf[m] = LowerOf[n] => FoldOf[m] = FoldOf[n]

FileIsUnique(f) ==
  f \in Files /\ f.version = Current /\ f.equipment = FALSE => Validate(f.browser)

NamesAreUnique ==
  /\ mem # NoSession => Validate(mem)
  /\ cand # NoSession => Validate(cand)
  /\ FileIsUnique(disk.file) /\ FileIsUnique(settled.file)

LEMMA MutateKeepsNamesUnique ==
  ASSUME NamesAgree, mem \in Browsers, Validate(mem), Mutate
  PROVE  Validate(cand')
<1> USE DEF Save, Validate, Browsers
<1>1. ASSUME NEW n \in Names, CreateProfile(n) PROVE Validate(cand')
  <2>1. \A m \in mem.profiles : FoldOf[m] # FoldOf[n]
    BY <1>1 DEF CreateProfile, ProfileNameExists
  <2>2. \A m \in mem.profiles : LowerOf[m] # LowerOf[n]
    BY <2>1 DEF NamesAgree
  <2>3. cand'.profiles = mem.profiles \cup {n}
    BY <1>1 DEF CreateProfile
  <2> QED BY <2>2, <2>3
<1>2. ASSUME NEW n \in Names, DeleteProfile(n) PROVE Validate(cand')
  BY <1>2 DEF DeleteProfile
<1>3. ASSUME cand'.profiles = mem.profiles PROVE Validate(cand')
  BY <1>3
<1>4. ASSUME NEW p \in Projects,
             \/ CreateProject(p) \/ SelectProject(p) \/ DeleteProject(p)
             \/ \E c \in Chats : CreateChat(p, c) \/ SelectChat(p, c) \/ DeleteChat(p, c)
      PROVE  cand'.profiles = mem.profiles
  BY <1>4
  DEF CreateProject, SelectProject, DeleteProject, CreateChat, SelectChat, DeleteChat
<1>5. ASSUME \/ \E n \in Names \cup BuiltIns : SelectProfile(n)
             \/ \E c \in Chats : Claim(c)
             \/ Settle \/ Touch
      PROVE  cand'.profiles = mem.profiles
  BY <1>5 DEF SelectProfile, Claim, Settle, Touch
<1> QED
  BY <1>1, <1>2, <1>3, <1>4, <1>5 DEF Mutate

LEMMA NamesStayUnique ==
  ASSUME NamesAgree
  PROVE  IInv /\ NamesAreUnique /\ [Next]_vars => NamesAreUnique'
<1> SUFFICES ASSUME IInv, NamesAreUnique, [Next]_vars PROVE NamesAreUnique'
  OBVIOUS
<1> USE StateFileAssumption
<1>1. CASE OpenFresh \/ MoveDialogs
  <2>1. Validate(NewBrowser)
    BY DEF Validate, NewBrowser
  <2>2. cand' = NewBrowser /\ mem' = mem
    BY <1>1 DEF OpenFresh, MoveDialogs
  <2>3. disk'.file = disk.file /\ settled' \in {disk, settled}
    BY <1>1 DEF OpenFresh, MoveDialogs, Stay, Enter, IInv, TypeOK, Disks
  <2> QED BY <2>1, <2>2, <2>3 DEF NamesAreUnique
<1>2. CASE OpenUnchanged
  BY <1>2 DEF OpenUnchanged, Stay, Readable, Rewritten, NamesAreUnique
<1>3. CASE OpenRewritten
  BY <1>3 DEF OpenRewritten, Stay, Readable, NamesAreUnique
<1>4. CASE Archive \/ OpenLegacy \/ CopyLegacy
  <2>1. disk'.file = disk.file /\ settled' = disk
    BY <1>4 DEF Archive, OpenLegacy, CopyLegacy, Enter, IInv, TypeOK, Disks
  <2>2. mem' = mem /\ cand' = cand
    BY <1>4 DEF Archive, OpenLegacy, CopyLegacy
  <2> QED BY <2>1, <2>2 DEF NamesAreUnique
<1>5. CASE Replace
  <2>1. disk'.file = Encoded(cand) /\ settled' = disk
    BY <1>5 DEF Replace, Enter, IInv, TypeOK, Disks
  <2>2. FileIsUnique(Encoded(cand))
    BY <1>5 DEF Replace, IInv, Staged, NamesAreUnique, FileIsUnique, Encoded
  <2> QED BY <1>5, <2>1, <2>2 DEF Replace, NamesAreUnique
<1>6. CASE Publish
  BY <1>6 DEF Publish, Stay, NamesAreUnique
<1>7. CASE Operate
  <2>1. mem \in Browsers /\ Consistent(mem) /\ Validate(mem)
    BY <1>7 DEF Operate, IInv, TypeOK, SessionsHold, Staged, NamesAreUnique
  <2>2. Validate(cand') /\ mem' = mem
    BY <1>7, <2>1, MutateKeepsNamesUnique, MutateIsSound DEF Operate
  <2> QED BY <1>7, <2>2 DEF Operate, Stay, NamesAreUnique
<1>8. CASE SaveFails
  <2>1. disk'.file = disk.file
    BY <1>8 DEF SaveFails, IInv, TypeOK, Disks
  <2>2. mem' = mem /\ cand' = NoSession /\ settled' = settled
    BY <1>8 DEF SaveFails
  <2> QED BY <2>1, <2>2 DEF NamesAreUnique
<1>9. CASE OpenFails \/ Crash \/ PowerFailure
  <2>1. /\ mem' \in {mem, NoSession} /\ cand' = NoSession
        /\ disk' \in {disk, settled} /\ settled' \in {disk, settled}
    BY <1>9 DEF OpenFails, Crash, PowerFailure
  <2> QED BY <2>1 DEF NamesAreUnique
<1>10. CASE OpenRefused \/ UNCHANGED vars
  BY <1>10 DEF OpenRefused, vars, workVars, NamesAreUnique
<1> QED
  BY <1>1, <1>2, <1>3, <1>4, <1>5, <1>6, <1>7, <1>8, <1>9, <1>10 DEF Next, Progress

\* No sequence of accepted operations builds a session the next start refuses,
\* and the start keeps the profile that was active.
THEOREM SavedReopens == NamesAgree => (Spec => []SavedStateReopens)
<1> SUFFICES ASSUME NamesAgree PROVE Spec => []SavedStateReopens
  OBVIOUS
<1>1. Init => NamesAreUnique
  <2> SUFFICES ASSUME Init PROVE NamesAreUnique
    OBVIOUS
  <2>1. PICK f \in {Absent, Broken, Legacy} \cup Stored, d \in {"none", "live"} :
          disk = [file |-> f, archives |-> "none", aside |-> "none", dialogs |-> d]
    BY DEF Init
  <2> QED BY <2>1, StateFileAssumption DEF Init, NamesAreUnique, FileIsUnique
<1>2. IInv /\ NamesAreUnique /\ [Next]_vars => NamesAreUnique'
  BY NamesStayUnique
<1>3. IInv /\ NamesAreUnique => SavedStateReopens
  <2> SUFFICES ASSUME IInv, NamesAreUnique,
                      disk.file \in Files, disk.file.version = Current, ~disk.file.equipment
               PROVE  /\ Readable(disk.file)
                      /\ Normalize(disk.file.browser).active = disk.file.browser.active
    BY DEF SavedStateReopens
  <2> DEFINE b == disk.file.browser
  <2>1. b \in Browsers /\ disk.file.equipment = FALSE
    BY DEF Files
  <2>2. Located(b) /\ IsKnownProfile(b, b.active) /\ Validate(b)
    BY <2>1 DEF IInv, FilesHold, FileHolds, NamesAreUnique, FileIsUnique
  <2>3. Normalize(b).profiles = b.profiles /\ Normalize(b).active = b.active
    BY <2>1, <2>2, NormalizeRepairs
  <2> QED BY <2>1, <2>2, <2>3 DEF Readable, Decodes, Validate
<1> QED BY <1>1, <1>2, <1>3, Safety, PTL DEF Spec
=============================================================================
