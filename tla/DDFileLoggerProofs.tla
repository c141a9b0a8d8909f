------------------------- MODULE DDFileLoggerProofs -------------------------
(***************************************************************************)
(* Machine-checked proofs about the file logger, for all values of the      *)
(* settings, all bounds and any failures.  What is open and what is final   *)
(* is proved however the clock moves.  What depends on the order of the     *)
(* files' names, which are times, is proved when every file is created      *)
(* after the last one (Clock = "apart"): without that it does not hold.     *)
(***************************************************************************)
EXTENDS DDFileLoggerInvariant, SequenceTheorems, FiniteSetTheorems, WellFoundedInduction, TLAPS

\* The elements of a sequence.
LEMMA SeqElements ==
    ASSUME NEW S, NEW s \in Seq(S)
    PROVE  /\ Len(s) \in Nat
           /\ DOMAIN s = 1 .. Len(s)
           /\ \A i \in DOMAIN s : i \in Nat /\ s[i] \in S
  BY ElementOfSeq, LenProperties

\* The fields of the files, and what the directory links to.
LEMMA FileFacts ==
    ASSUME TypeOK
    PROVE  /\ Len(files) \in Nat
           /\ DOMAIN files = 1 .. Len(files)
           /\ \A i \in DOMAIN files : /\ i \in Nat
                                      /\ files[i] \in FileRecord
                                      /\ files[i].name \in Names
                                      /\ files[i].size \in Nat
           /\ \A f \in DOMAIN disk : f \in Names /\ disk[f] \in DOMAIN files
           /\ Names \subseteq Nat
           /\ now \in Nat /\ MaxTime \in Nat /\ None \notin Nat
  <1>1. files \in Seq(FileRecord) /\ now \in Names
    BY DEF TypeOK
  <1>2. Names \subseteq Nat /\ MaxTime \in Nat /\ None \notin Nat
    BY DDFileLoggerAssumption DEF Names
  <1>3. /\ Len(files) \in Nat
        /\ DOMAIN files = 1 .. Len(files)
        /\ \A i \in DOMAIN files : i \in Nat /\ files[i] \in FileRecord
    BY <1>1, SeqElements
  <1>4. \A f \in DOMAIN disk : f \in Names /\ disk[f] \in DOMAIN files
    BY DEF TypeOK
  <1> QED
    BY <1>1, <1>2, <1>3, <1>4 DEF FileRecord

\* Archiving changes one attribute of the file the name links to, and nothing else.
LEMMA ArchiveFacts ==
    ASSUME NEW fs \in Seq(FileRecord), NEW f, NEW success \in BOOLEAN,
           f \in DOMAIN disk => disk[f] \in DOMAIN fs
    PROVE  /\ Archive(fs, f, success) \in Seq(FileRecord)
           /\ Len(Archive(fs, f, success)) = Len(fs)
           /\ DOMAIN Archive(fs, f, success) = DOMAIN fs
           /\ \A i \in DOMAIN fs :
                 /\ Archive(fs, f, success)[i].name = fs[i].name
                 /\ Archive(fs, f, success)[i].size = fs[i].size
                 /\ Archive(fs, f, success)[i].archived <=>
                       (fs[i].archived \/ (success /\ f \in DOMAIN disk /\ i = disk[f]))
  <1>1. CASE ~(success /\ f \in DOMAIN disk)
    BY <1>1 DEF Archive
  <1>2. CASE success /\ f \in DOMAIN disk
    <2> DEFINE k == disk[f]
               e == [fs[k] EXCEPT !.archived = TRUE]
               gs == [fs EXCEPT ![k] = e]
    <2>1. k \in 1 .. Len(fs) /\ DOMAIN fs = 1 .. Len(fs) /\ fs[k] \in FileRecord
      BY <1>2, SeqElements
    <2>2. Archive(fs, f, success) = gs
      BY <1>2 DEF Archive
    <2>3. /\ e \in FileRecord
          /\ e.name = fs[k].name /\ e.size = fs[k].size /\ e.archived = TRUE
      BY <2>1 DEF FileRecord
    <2> HIDE DEF e, k
    <2>4. /\ gs \in Seq(FileRecord)
          /\ Len(gs) = Len(fs)
          /\ \A i \in 1 .. Len(fs) : gs[i] = IF i = k THEN e ELSE fs[i]
      BY <2>1, <2>3, ExceptSeq
    <2>5. DOMAIN gs = DOMAIN fs
      BY <2>1, <2>4, SeqElements
    <2> HIDE DEF gs
    <2>6. \A i \in DOMAIN fs :
             /\ gs[i].name = fs[i].name
             /\ gs[i].size = fs[i].size
             /\ gs[i].archived <=> (fs[i].archived \/ i = k)
      BY <2>1, <2>3, <2>4
    <2> QED
      BY <1>2, <2>2, <2>4, <2>5, <2>6 DEF k
  <1> QED
    BY <1>1, <1>2

\* What one more file does to the sequence of files.
LEMMA AppendFacts ==
    ASSUME NEW fs \in Seq(FileRecord), NEW e \in FileRecord
    PROVE  /\ Append(fs, e) \in Seq(FileRecord)
           /\ Len(Append(fs, e)) = Len(fs) + 1
           /\ DOMAIN Append(fs, e) = 1 .. (Len(fs) + 1)
           /\ \A i \in DOMAIN fs : i \in DOMAIN Append(fs, e) /\ Append(fs, e)[i] = fs[i]
           /\ Append(fs, e)[Len(fs) + 1] = e
  <1>1. /\ Append(fs, e) \in Seq(FileRecord)
        /\ Len(Append(fs, e)) = Len(fs) + 1
        /\ \A i \in 1 .. Len(fs) : Append(fs, e)[i] = fs[i]
        /\ Append(fs, e)[Len(fs) + 1] = e
    BY AppendProperties
  <1>2. DOMAIN fs = 1 .. Len(fs) /\ Len(fs) \in Nat
    BY SeqElements
  <1>3. DOMAIN Append(fs, e) = 1 .. (Len(fs) + 1)
    BY <1>1, SeqElements
  <1> QED
    BY <1>1, <1>2, <1>3

\* The files with other sizes, as far as they are not archived.
Resized(fs) ==
    /\ fs \in Seq(FileRecord)
    /\ Len(fs) = Len(files)
    /\ DOMAIN fs = DOMAIN files
    /\ \A i \in DOMAIN files : /\ fs[i].name = files[i].name
                               /\ fs[i].archived = files[i].archived
                               /\ files[i].archived => fs[i].size = files[i].size

\* Writing a message, or not, resizes the open file.
LEMMA WriteResizes ==
    ASSUME TypeOK, handle # None, ~files[handle].archived, NEW written \in BOOLEAN
    PROVE  /\ Resized(files)
           /\ Resized(IF written THEN [files EXCEPT ![handle].size = @ + 1] ELSE files)
           /\ \A i \in DOMAIN files : i # handle =>
                 (IF written THEN [files EXCEPT ![handle].size = @ + 1] ELSE files)[i] = files[i]
  <1> DEFINE e == [files[handle] EXCEPT !.size = @ + 1]
             gs == [files EXCEPT ![handle] = e]
  <1>1. files \in Seq(FileRecord) /\ handle \in DOMAIN files
    BY DEF TypeOK
  <1>2. /\ handle \in 1 .. Len(files) /\ DOMAIN files = 1 .. Len(files)
        /\ files[handle] \in FileRecord
    BY <1>1, SeqElements
  <1>3. e \in FileRecord /\ e.name = files[handle].name /\ e.archived = files[handle].archived
    BY <1>2 DEF FileRecord
  <1>4. [files EXCEPT ![handle].size = @ + 1] = gs
    OBVIOUS
  <1> HIDE DEF e
  <1>5. /\ gs \in Seq(FileRecord)
        /\ Len(gs) = Len(files)
        /\ \A i \in 1 .. Len(files) : gs[i] = IF i = handle THEN e ELSE files[i]
    BY <1>1, <1>2, <1>3, ExceptSeq
  <1>6. DOMAIN gs = DOMAIN files
    BY <1>2, <1>5, SeqElements
  <1> HIDE DEF gs
  <1>7. \A i \in DOMAIN files : /\ gs[i].name = files[i].name
                                /\ gs[i].archived = files[i].archived
                                /\ files[i].archived => gs[i].size = files[i].size
    BY <1>2, <1>3, <1>5
  <1>8. Resized(gs)
    BY <1>5, <1>6, <1>7 DEF Resized
  <1>9. Resized(files)
    BY <1>1 DEF Resized
  <1> QED
    BY <1>2, <1>4, <1>5, <1>8, <1>9

-----------------------------------------------------------------------------
(* Types.                                                                    *)

\* The parts of the type invariant: the files, what the logger has open, the rest.
FilesTyped ==
    /\ now \in Names
    /\ files \in Seq(FileRecord)
    /\ DOMAIN disk \subseteq Names /\ \A f \in DOMAIN disk : disk[f] \in DOMAIN files
    /\ completionQueue \in [Names -> Nat]
    /\ unmarked \subseteq Names
OpenTyped ==
    /\ info \in Names \cup {None}
    /\ created \in Names \cup {None}
    /\ handle \in DOMAIN files \cup {None}
    /\ watched \in DOMAIN files \cup {None}
    /\ timer \in Nat \cup {None}
    /\ unchecked \in BOOLEAN
SettingsTyped ==
    /\ maximumFileSize \in MaximumFileSizes /\ rollingFrequency \in RollingFrequencies
    /\ maximumNumberOfLogFiles \in MaximumNumbers /\ logFilesDiskQuota \in DiskQuotas
DeletionTyped == requested \in Nat /\ passes \in Seq(SUBSET Names) /\ undeleted \subseteq Names
NoticesTyped == announced \in [Names -> Nat] /\ lost \subseteq Names
CountersTyped == logged \in Nat /\ incidents \in Nat /\ launches \in Nat
StageTyped == stage \in {"idle", "open", "watch"}

LEMMA TypeParts ==
    TypeOK <=> /\ FilesTyped /\ OpenTyped /\ SettingsTyped /\ DeletionTyped /\ NoticesTyped
               /\ CountersTyped /\ StageTyped
  BY DEF TypeOK, FilesTyped, OpenTyped, SettingsTyped, DeletionTyped, NoticesTyped, CountersTyped,
         StageTyped

LEMMA CreationDateTyped == TypeOK => CreationDate \in Names \cup {None}
  BY DEF TypeOK, CreationDate

LEMMA ScheduleTyped ==
    ASSUME TypeOK, NEW date \in Names \cup {None}, NEW frequency \in Nat
    PROVE  Schedule(date, frequency) \in Nat \cup {None}
  BY FileFacts DEF Schedule

LEMMA AttemptTyped ==
    ASSUME TypeOK, NEW success, Attempt(success)
    PROVE  incidents' \in Nat
  BY DEF TypeOK, Attempt

LEMMA AnnounceTyped ==
    ASSUME TypeOK, NEW f \in Names, NEW success, Announce(f, success)
    PROVE  completionQueue' \in [Names -> Nat] /\ unmarked' \subseteq Names
  BY DEF TypeOK, Announce

LEMMA RollTyped ==
    ASSUME TypeOK, info # None, NEW fs, Resized(fs), NEW success \in BOOLEAN,
           RollFrom(fs, success), UNCHANGED <<now, disk>>
    PROVE  FilesTyped' /\ OpenTyped'
  <1>1. /\ fs \in Seq(FileRecord) /\ DOMAIN fs = DOMAIN files
        /\ info \in DOMAIN disk => disk[info] \in DOMAIN fs
    BY FileFacts DEF Resized
  <1>2. files' \in Seq(FileRecord) /\ DOMAIN files' = DOMAIN files
    <2>1. files' = Archive(fs, info, success)
      BY DEF RollFrom
    <2> HIDE DEF Archive
    <2> QED
      BY <1>1, <2>1, ArchiveFacts
  <1>3. completionQueue' \in [Names -> Nat] /\ unmarked' \subseteq Names
    <2>1. info \in Names /\ Announce(info, success)
      BY DEF TypeOK, RollFrom
    <2> QED
      BY <2>1, AnnounceTyped
  <1>4. FilesTyped'
    BY <1>2, <1>3 DEF TypeOK, FilesTyped
  <1>5. OpenTyped'
    BY DEF RollFrom, Forget, OpenTyped
  <1> QED
    BY <1>4, <1>5

LEMMA RollNowTyped ==
    ASSUME OpenIInv, lt_rollLogFileNow, UNCHANGED <<now, disk>>
    PROVE  FilesTyped' /\ OpenTyped' /\ incidents' \in Nat
  <1>1. TypeOK
    BY DEF OpenIInv
  <1>2. CASE handle = None
    BY <1>1, <1>2 DEF lt_rollLogFileNow, TypeOK, FilesTyped, OpenTyped, archive, open
  <1>3. CASE handle # None
    <2>1. PICK success \in BOOLEAN : Attempt(success) /\ RollFrom(files, success)
      BY <1>3 DEF lt_rollLogFileNow
    <2>2. info # None /\ Resized(files)
      BY <1>1, <1>3, WriteResizes DEF OpenIInv, HandleIsInfo
    <2> QED
      BY <1>1, <2>1, <2>2, RollTyped, AttemptTyped
  <1> QED
    BY <1>2, <1>3

LEMMA RollDueToAgeTyped ==
    ASSUME OpenIInv, NEW frequency \in Nat, RollDueToAge(frequency), UNCHANGED <<now, disk>>
    PROVE  FilesTyped' /\ OpenTyped' /\ incidents' \in Nat
  <1>1. TypeOK
    BY DEF OpenIInv
  <1>2. CASE lt_rollLogFileNow
    BY <1>2, RollNowTyped
  <1>3. CASE /\ timer' = Schedule(CreationDate, frequency)
             /\ created' = CreationDate
             /\ UNCHANGED <<archive, info, handle, watched, unchecked, incidents>>
    <2>1. created' \in Names \cup {None} /\ timer' \in Nat \cup {None}
      BY <1>1, <1>3, CreationDateTyped, ScheduleTyped
    <2> QED
      BY <1>1, <1>3, <2>1 DEF TypeOK, FilesTyped, OpenTyped, archive
  <1> QED
    BY <1>2, <1>3 DEF RollDueToAge

LEMMA WriteTyped ==
    ASSUME OpenIInv, handle # None, UNCHANGED <<now, disk>>,
           NEW date \in Names \cup {None}, NEW rollingTimer \in Nat \cup {None},
           NEW vnode \in DOMAIN files \cup {None},
           Write(date, rollingTimer, vnode)
    PROVE  FilesTyped' /\ OpenTyped' /\ incidents' \in Nat /\ logged' \in Nat
  <1>1. TypeOK /\ info # None /\ ~files[handle].archived
    BY DEF OpenIInv, HandleIsInfo
  <1>2. PICK written \in BOOLEAN, checked \in BOOLEAN, success \in BOOLEAN :
           LET fs == IF written THEN [files EXCEPT ![handle].size = @ + 1] ELSE files
           IN  /\ incidents' \in {incidents, incidents + 1}
               /\ logged' = logged + 1
               /\ \/ RollFrom(fs, success)
                  \/ /\ files' = fs /\ created' = date /\ timer' = rollingTimer
                     /\ watched' = vnode /\ unchecked' = ~checked
                     /\ UNCHANGED <<unmarked, completionQueue, info, handle>>
    <2>1. \A success : Attempt(success) => incidents' \in {incidents, incidents + 1}
      BY DEF Attempt
    <2> HIDE DEF RollFrom, Attempt, TooLarge
    <2> QED
      BY <2>1 DEF Write
  <1>2a. PICK fs : fs = IF written THEN [files EXCEPT ![handle].size = @ + 1] ELSE files
    OBVIOUS
  <1>3. Resized(fs)
    BY <1>1, <1>2a, WriteResizes
  <1>4. incidents' \in Nat /\ logged' \in Nat
    <2>1. incidents' \in {incidents, incidents + 1} /\ logged' = logged + 1
      BY <1>2
    <2> QED
      BY <1>1, <2>1 DEF TypeOK
  <1>5. CASE RollFrom(fs, success)
    BY <1>1, <1>3, <1>4, <1>5, RollTyped
  <1>6. CASE /\ files' = fs /\ created' = date /\ timer' = rollingTimer /\ watched' = vnode
             /\ unchecked' = ~checked
             /\ UNCHANGED <<unmarked, completionQueue, info, handle>>
    <2>1. files' \in Seq(FileRecord) /\ DOMAIN files' = DOMAIN files
      BY <1>3, <1>6 DEF Resized
    <2>2. FilesTyped'
      BY <1>1, <1>6, <2>1 DEF TypeOK, FilesTyped
    <2>3. OpenTyped'
      BY <1>1, <1>6, <2>1 DEF TypeOK, OpenTyped
    <2> QED
      BY <1>4, <2>2, <2>3
  <1> HIDE DEF RollFrom, Attempt
  <1> QED
    BY <1>2, <1>2a, <1>5, <1>6

LEMMA CreateTyped ==
    ASSUME TypeOK, NEW fs \in Seq(FileRecord), Len(fs) = Len(files), DOMAIN fs = DOMAIN files,
           NEW success, CreateNewLogFile(fs, success),
           completionQueue' \in [Names -> Nat], unmarked' \subseteq Names,
           UNCHANGED <<handle, watched, timer, unchecked>>
    PROVE  FilesTyped' /\ OpenTyped' /\ incidents' \in Nat /\ requested' \in Nat
  <1>1. incidents' \in Nat /\ requested' \in Nat
    <2>1. incidents \in Nat /\ requested \in Nat
      BY DEF TypeOK
    <2>2. \A b : Attempt(b) => incidents' = incidents \/ incidents' = incidents + 1
      BY DEF Attempt
    <2>3. incidents' = incidents \/ incidents' = incidents + 1
      <3> HIDE DEF Attempt
      <3> QED
        BY <2>2 DEF CreateNewLogFile
    <2>4. requested' = requested \/ requested' = requested + 1
      <3> HIDE DEF Attempt
      <3> QED
        BY DEF CreateNewLogFile
    <2> QED
      BY <2>1, <2>3, <2>4
  <1>2. CASE info' = None /\ created' = None /\ files' = fs /\ UNCHANGED <<now, disk>>
    BY <1>1, <1>2 DEF TypeOK, FilesTyped, OpenTyped
  <1>3. CASE ~(info' = None /\ created' = None /\ files' = fs /\ UNCHANGED <<now, disk>>)
    <2>1. PICK f \in Names : f = IF Clock = "apart" THEN now + 1 ELSE now
      <3>1. PICK f : f = IF Clock = "apart" THEN now + 1 ELSE now
        OBVIOUS
      <3>2. f <= MaxTime
        BY <1>3, <3>1 DEF CreateNewLogFile
      <3>3. f \in Nat /\ MaxTime \in Nat
        BY <3>1, FileFacts
      <3> QED
        BY <3>1, <3>2, <3>3 DEF Names
    <2>2. PICK e \in FileRecord : e = [name |-> f, size |-> 0, archived |-> FALSE]
      <3>1. [name |-> f, size |-> 0, archived |-> FALSE] \in FileRecord
        BY DEF FileRecord
      <3> QED
        BY <3>1
    <2>3. PICK n \in Nat : n = Len(fs) + 1
      BY FileFacts
    <2>4. /\ now' = f /\ files' = Append(fs, e) /\ info' = f /\ created' = None
          /\ disk' = [g \in DOMAIN disk \cup {f} |-> IF g = f THEN n ELSE disk[g]]
      BY <1>3, <2>1, <2>2, <2>3 DEF CreateNewLogFile
    <2>5. /\ files' \in Seq(FileRecord) /\ n \in DOMAIN files'
          /\ \A i \in DOMAIN files : i \in DOMAIN files'
      BY <2>3, <2>4, AppendFacts
    <2>6. FilesTyped'
      BY <2>4, <2>5 DEF TypeOK, FilesTyped
    <2>7. OpenTyped'
      BY <2>4, <2>5 DEF TypeOK, OpenTyped
    <2> QED
      BY <1>1, <2>6, <2>7
  <1> QED
    BY <1>2, <1>3

\* What finding a file comes to.
LEMMA FindCases ==
    ASSUME OpenIInv, FindLogFile
    PROVE  \/ /\ info # None /\ info' = info /\ created' = CreationDate
              /\ UNCHANGED <<now, disk, archive, requested, incidents>>
           \/ /\ info = None
              /\ \A f \in DOMAIN disk : ~IsNewest(f) \/ File(f).archived
              /\ CreateNewLogFile(files, TRUE) /\ UNCHANGED <<unmarked, completionQueue>>
              /\ DOMAIN disk # {} => \E f \in DOMAIN disk : IsNewest(f)
           \/ /\ info = None
              /\ \E f \in DOMAIN disk :
                    /\ IsNewest(f) /\ ~File(f).archived /\ info' = f /\ created' = f
                    /\ UNCHANGED <<now, disk, archive, requested, incidents>>
           \/ /\ info = None
              /\ \E f \in DOMAIN disk, success \in BOOLEAN :
                    /\ IsNewest(f) /\ ~File(f).archived
                    /\ CreateNewLogFile(Archive(files, f, success), success)
                    /\ Announce(f, success)
  <1>1. InfoUnarchived /\ \A f \in DOMAIN disk : f \in Nat
    BY FileFacts DEF OpenIInv
  <1>2. \A f, g \in DOMAIN disk : IsNewest(f) /\ IsNewest(g) => f = g
    BY <1>1 DEF IsNewest
  <1> HIDE DEF CreateNewLogFile, Archive, Announce, File, IsNewest, ShouldBeArchived, CreationDate
  <1>3. CASE info # None
    BY <1>1, <1>3 DEF FindLogFile, Keep, InfoUnarchived
  <1>4. CASE info = None /\ DOMAIN disk = {}
    BY <1>4 DEF FindLogFile, Renew
  <1>5. CASE info = None /\ DOMAIN disk # {}
    <2>1. PICK f \in DOMAIN disk :
            /\ IsNewest(f)
            /\ \/ MayResume(f) /\ Keep(f, f)
               \/ File(f).archived /\ Renew
               \/ /\ ~File(f).archived
                  /\ \E success \in BOOLEAN :
                        CreateNewLogFile(Archive(files, f, success), success) /\ Announce(f, success)
      BY <1>5 DEF FindLogFile
    <2>2. CASE MayResume(f) /\ Keep(f, f)
      BY <1>5, <2>1, <2>2 DEF MayResume, Keep
    <2>3. CASE File(f).archived /\ Renew
      BY <1>2, <1>5, <2>1, <2>3 DEF Renew
    <2> QED
      BY <1>5, <2>1, <2>2, <2>3
  <1> QED
    BY <1>3, <1>4, <1>5

LEMMA FindTyped ==
    ASSUME OpenIInv, FindLogFile, UNCHANGED <<handle, watched, timer, unchecked>>
    PROVE  FilesTyped' /\ OpenTyped' /\ incidents' \in Nat /\ requested' \in Nat
  <1>1. TypeOK /\ files \in Seq(FileRecord)
    BY DEF OpenIInv, TypeOK
  <1>2. ASSUME info' \in Names, created' \in Names \cup {None},
               UNCHANGED <<now, disk, archive, requested, incidents>>
        PROVE  FilesTyped' /\ OpenTyped' /\ incidents' \in Nat /\ requested' \in Nat
    BY <1>1, <1>2 DEF TypeOK, FilesTyped, OpenTyped, archive
  <1>3. ASSUME CreateNewLogFile(files, TRUE), UNCHANGED <<unmarked, completionQueue>>
        PROVE  FilesTyped' /\ OpenTyped' /\ incidents' \in Nat /\ requested' \in Nat
    <2>1. completionQueue' \in [Names -> Nat] /\ unmarked' \subseteq Names
      BY <1>1, <1>3 DEF TypeOK
    <2> QED
      BY <1>1, <1>3, <2>1, CreateTyped
  <1>4. ASSUME NEW f \in DOMAIN disk, NEW success \in BOOLEAN,
               CreateNewLogFile(Archive(files, f, success), success), Announce(f, success)
        PROVE  FilesTyped' /\ OpenTyped' /\ incidents' \in Nat /\ requested' \in Nat
    <2>1. PICK fs : fs = Archive(files, f, success)
      OBVIOUS
    <2>2. f \in Names /\ disk[f] \in DOMAIN files
      BY <1>1, FileFacts
    <2>3. fs \in Seq(FileRecord) /\ Len(fs) = Len(files) /\ DOMAIN fs = DOMAIN files
      BY <1>1, <2>1, <2>2, ArchiveFacts
    <2>4. completionQueue' \in [Names -> Nat] /\ unmarked' \subseteq Names
      BY <1>1, <1>4, <2>2, AnnounceTyped
    <2>5. CreateNewLogFile(fs, success)
      BY <1>4, <2>1
    <2> QED
      BY <1>1, <2>3, <2>4, <2>5, CreateTyped
  <1>5. \A f \in DOMAIN disk : f \in Names
    BY <1>1, FileFacts
  <1>6. info # None => info \in Names
    BY <1>1 DEF TypeOK
  <1> HIDE DEF CreateNewLogFile, Archive, Announce, File, IsNewest, CreationDate
  <1> QED
    BY <1>1, <1>2, <1>3, <1>4, <1>5, <1>6, FindCases, CreationDateTyped

\* The elements of a part of a sequence, and of two parts put together.
LEMMA SubSeqElements ==
    ASSUME NEW S, NEW s \in Seq(S), NEW m \in Nat, NEW n \in Nat, 1 <= m, n <= Len(s)
    PROVE  /\ SubSeq(s, m, n) \in Seq(S)
           /\ Range(SubSeq(s, m, n)) \subseteq Range(s)
  <1>1. Len(s) \in Nat /\ DOMAIN s = 1 .. Len(s) /\ \A i \in DOMAIN s : s[i] \in S
    BY SeqElements
  <1>2. \A i \in m .. n : i \in DOMAIN s /\ s[i] \in S
    BY <1>1
  <1>3. m \in Int /\ n \in Int
    OBVIOUS
  <1>4. /\ SubSeq(s, m, n) \in Seq(S)
        /\ Len(SubSeq(s, m, n)) = IF m <= n THEN n - m + 1 ELSE 0
        /\ \A i \in 1 .. n - m + 1 : SubSeq(s, m, n)[i] = s[m + i - 1]
    BY <1>2, <1>3, SubSeqProperties
  <1>5. PICK t : t = SubSeq(s, m, n)
    OBVIOUS
  <1>6. DOMAIN t = 1 .. Len(t) /\ Len(t) \in Nat
    BY <1>4, <1>5, SeqElements
  <1>7. \A i \in DOMAIN t : m + i - 1 \in m .. n /\ i \in 1 .. n - m + 1
    BY <1>4, <1>5, <1>6
  <1>8. \A i \in DOMAIN t : m + i - 1 \in DOMAIN s /\ t[i] = s[m + i - 1]
    BY <1>2, <1>4, <1>5, <1>7
  <1>9. Range(t) \subseteq Range(s)
    BY <1>8 DEF Range
  <1> QED
    BY <1>4, <1>5, <1>9

LEMMA ConcatElements ==
    ASSUME NEW S, NEW s \in Seq(S), NEW t \in Seq(S)
    PROVE  /\ s \o t \in Seq(S)
           /\ Range(s \o t) \subseteq Range(s) \cup Range(t)
  <1>1. /\ s \o t \in Seq(S)
        /\ Len(s \o t) = Len(s) + Len(t)
        /\ \A i \in 1 .. Len(s) + Len(t) : (s \o t)[i] = IF i <= Len(s) THEN s[i] ELSE t[i - Len(s)]
    BY ConcatProperties
  <1>2. /\ Len(s) \in Nat /\ DOMAIN s = 1 .. Len(s)
        /\ Len(t) \in Nat /\ DOMAIN t = 1 .. Len(t)
    BY SeqElements
  <1>3. PICK u : u = s \o t
    OBVIOUS
  <1>4. DOMAIN u = 1 .. Len(s) + Len(t)
    BY <1>1, <1>3, SeqElements
  <1>5. \A i \in DOMAIN u : \/ i \in DOMAIN s /\ u[i] = s[i]
                            \/ i - Len(s) \in DOMAIN t /\ u[i] = t[i - Len(s)]
    <2> TAKE i \in DOMAIN u
    <2>0. i \in 1 .. Len(s) + Len(t)
      BY <1>4
    <2>1. u[i] = IF i <= Len(s) THEN s[i] ELSE t[i - Len(s)]
      BY <1>1, <1>3, <2>0
    <2>2. i <= Len(s) => i \in DOMAIN s
      BY <1>2, <2>0
    <2>3. ~(i <= Len(s)) => i - Len(s) \in DOMAIN t
      BY <1>2, <2>0
    <2> QED
      BY <2>1, <2>2, <2>3
  <1>6. Range(u) \subseteq Range(s) \cup Range(t)
    BY <1>5 DEF Range
  <1> QED
    BY <1>1, <1>3, <1>6

\* A pass gets shorter, or ends; the others stay as they are.
LEMMA DeletionPasses ==
    ASSUME TypeOK, NEW p \in DOMAIN passes, NEW f,
           passes' = IF passes[p] = {f}
                     THEN SubSeq(passes, 1, p - 1) \o SubSeq(passes, p + 1, Len(passes))
                     ELSE [passes EXCEPT ![p] = @ \ {f}]
    PROVE  /\ passes' \in Seq(SUBSET Names)
           /\ \A q \in DOMAIN passes' : \E r \in DOMAIN passes : passes'[q] \subseteq passes[r]
  <1>1. passes \in Seq(SUBSET Names)
    BY DEF TypeOK
  <1>2. /\ Len(passes) \in Nat /\ DOMAIN passes = 1 .. Len(passes) /\ p \in Nat
        /\ \A q \in DOMAIN passes : q \in Nat /\ passes[q] \in SUBSET Names
    BY <1>1, SeqElements
  <1>3. CASE passes[p] = {f}
    <2> DEFINE s == SubSeq(passes, 1, p - 1)
               t == SubSeq(passes, p + 1, Len(passes))
    <2>1. /\ p - 1 \in Nat /\ p - 1 <= Len(passes) /\ p + 1 \in Nat /\ 1 <= p + 1
          /\ 1 \in Nat /\ 1 <= 1 /\ Len(passes) <= Len(passes)
      BY <1>2
    <2>2. s \in Seq(SUBSET Names) /\ Range(s) \subseteq Range(passes)
      BY <1>1, <2>1, SubSeqElements, Zenon
    <2>3. t \in Seq(SUBSET Names) /\ Range(t) \subseteq Range(passes)
      BY <1>1, <1>2, <2>1, SubSeqElements, Zenon
    <2>4. passes' = s \o t
      BY <1>3
    <2> HIDE DEF s, t
    <2>5. s \o t \in Seq(SUBSET Names) /\ Range(s \o t) \subseteq Range(s) \cup Range(t)
      BY <2>2, <2>3, ConcatElements, Zenon
    <2>6. Range(passes') \subseteq Range(passes)
      BY <2>2, <2>3, <2>4, <2>5
    <2>7. \A q \in DOMAIN passes' : \E r \in DOMAIN passes : passes'[q] = passes[r]
      BY <2>6, Zenon DEF Range
    <2> QED
      BY <2>4, <2>5, <2>7
  <1>4. CASE passes[p] # {f}
    <2>1. PICK d \in SUBSET Names : d = passes[p] \ {f}
      BY <1>2
    <2>2. passes' = [passes EXCEPT ![p] = d]
      BY <1>4, <2>1
    <2>3. /\ [passes EXCEPT ![p] = d] \in Seq(SUBSET Names)
          /\ Len([passes EXCEPT ![p] = d]) = Len(passes)
          /\ \A i \in 1 .. Len(passes) : [passes EXCEPT ![p] = d][i] = IF i = p THEN d ELSE passes[i]
      BY <1>1, <1>2, ExceptSeq
    <2>4. DOMAIN passes' = DOMAIN passes
      BY <2>2
    <2>5. \A q \in DOMAIN passes : passes'[q] \subseteq passes[q]
      BY <1>2, <2>1, <2>2, <2>3
    <2> QED
      BY <2>2, <2>3, <2>4, <2>5
  <1> QED
    BY <1>3, <1>4

\* What a pass decides to delete is in the directory.
LEMMA ToDeleteListed ==
    ASSUME TypeOK
    PROVE  ToDelete \in SUBSET Names /\ ToDelete \subseteq DOMAIN disk
  <1>1. ToDelete \subseteq DOMAIN disk
    BY DEF ToDelete, Excess
  <1>2. DOMAIN disk \subseteq Names
    BY DEF TypeOK
  <1> HIDE DEF ToDelete
  <1> QED
    BY <1>1, <1>2

\* A pass starts, or not, and what is pending afterwards.
LEMMA StartDeletionPasses ==
    ASSUME TypeOK, passes' = IF ToDelete = {} THEN passes ELSE Append(passes, ToDelete)
    PROVE  /\ passes' \in Seq(SUBSET Names)
           /\ \A p \in DOMAIN passes' :
                 (p \in DOMAIN passes /\ passes'[p] = passes[p]) \/ passes'[p] = ToDelete
  <1>1. passes \in Seq(SUBSET Names)
    BY DEF TypeOK
  <1>2. PICK d \in SUBSET Names : d = ToDelete
    BY ToDeleteListed
  <1>3. CASE d = {}
    BY <1>1, <1>2, <1>3
  <1>4. CASE d # {}
    <2>1. passes' = Append(passes, d)
      BY <1>2, <1>4
    <2>2. /\ Append(passes, d) \in Seq(SUBSET Names)
          /\ Len(Append(passes, d)) = Len(passes) + 1
          /\ \A i \in 1 .. Len(passes) : Append(passes, d)[i] = passes[i]
          /\ Append(passes, d)[Len(passes) + 1] = d
      BY <1>1, AppendProperties
    <2>3. DOMAIN passes = 1 .. Len(passes) /\ Len(passes) \in Nat
      BY <1>1, SeqElements
    <2>4. DOMAIN passes' = 1 .. (Len(passes) + 1)
      BY <2>1, <2>2, SeqElements
    <2>5. \A p \in DOMAIN passes' : p \in DOMAIN passes \/ p = Len(passes) + 1
      BY <2>3, <2>4
    <2> QED
      BY <1>2, <2>1, <2>2, <2>3, <2>5
  <1> QED
    BY <1>3, <1>4

\* Every step keeps the types.
LEMMA NextTyped ==
    ASSUME OpenIInv, Next
    PROVE  TypeOK'
  <1>1. /\ TypeOK /\ HandleIsInfo
        /\ FilesTyped /\ OpenTyped /\ SettingsTyped /\ DeletionTyped /\ NoticesTyped
        /\ CountersTyped /\ StageTyped
    BY TypeParts DEF OpenIInv
  <1>2. ASSUME FilesTyped', OpenTyped', SettingsTyped', DeletionTyped', NoticesTyped',
               CountersTyped', StageTyped'
        PROVE  TypeOK'
    BY <1>2 DEF TypeOK, FilesTyped, OpenTyped, SettingsTyped, DeletionTyped, NoticesTyped,
                CountersTyped, StageTyped
  <1>3. UNCHANGED settings => SettingsTyped'
    BY <1>1 DEF SettingsTyped, settings
  <1>4. UNCHANGED deletion => DeletionTyped'
    BY <1>1 DEF DeletionTyped, deletion
  <1>5. UNCHANGED notices => NoticesTyped'
    BY <1>1 DEF NoticesTyped, notices
  <1>6. UNCHANGED counters => CountersTyped'
    BY <1>1 DEF CountersTyped, counters
  <1>7. UNCHANGED stage => StageTyped'
    BY <1>1 DEF StageTyped
  <1>8. UNCHANGED <<now, disk, archive>> => FilesTyped'
    BY <1>1 DEF FilesTyped, archive
  <1>9. UNCHANGED <<archive, open>> => OpenTyped'
    BY <1>1 DEF OpenTyped, archive, open
  <1>10. ASSUME info' = None, created' = None, handle' = None, watched' = None, timer' = None,
                unchecked' = FALSE
         PROVE  OpenTyped'
    BY <1>10 DEF OpenTyped
  <1>11. ASSUME incidents' \in Nat, UNCHANGED <<logged, launches>> PROVE CountersTyped'
    BY <1>1, <1>11 DEF CountersTyped
  <1>12. /\ created \in Names \cup {None} /\ timer \in Nat \cup {None}
         /\ watched \in DOMAIN files \cup {None} /\ rollingFrequency \in Nat
    BY <1>1, DDFileLoggerAssumption DEF TypeOK
  <1>20. CASE logMessage
    <2>1. PICK date \in Names \cup {None}, fires \in Nat \cup {None},
               vnode \in DOMAIN files \cup {None} :
            date = created /\ fires = timer /\ vnode = watched
      BY <1>12
    <2>2. /\ Write(date, fires, vnode) /\ handle # None
          /\ UNCHANGED <<now, disk, stage, settings, deletion, notices, launches>>
      BY <1>20, <2>1 DEF logMessage
    <2>3. FilesTyped' /\ OpenTyped' /\ incidents' \in Nat /\ logged' \in Nat
      BY <2>2, WriteTyped
    <2>4. CountersTyped'
      BY <1>1, <2>2, <2>3 DEF CountersTyped
    <2> QED
      BY <1>2, <1>3, <1>4, <1>5, <1>7, <2>2, <2>3, <2>4
  <1>21. CASE logMessageFindsFile \/ currentLogFileInfo
    <2>1. /\ FindLogFile /\ (stage' = "open" \/ stage' = stage)
          /\ UNCHANGED <<handle, watched, timer, unchecked, settings, passes, undeleted, notices,
                         logged, launches>>
      BY <1>21 DEF logMessageFindsFile, currentLogFileInfo
    <2>2. FilesTyped' /\ OpenTyped' /\ incidents' \in Nat /\ requested' \in Nat
      BY <2>1, FindTyped
    <2>3. DeletionTyped' /\ CountersTyped' /\ StageTyped'
      BY <1>1, <2>1, <2>2 DEF DeletionTyped, CountersTyped, StageTyped
    <2> QED
      BY <1>2, <1>3, <1>5, <2>1, <2>2, <2>3
  <1>22. CASE rollLogFile \/ LogFileWasMoved
    <2>1. /\ lt_rollLogFileNow
          /\ UNCHANGED <<now, disk, stage, settings, deletion, notices, logged, launches>>
      BY <1>22 DEF rollLogFile, LogFileWasMoved
    <2>2. FilesTyped' /\ OpenTyped' /\ incidents' \in Nat
      BY <2>1, RollNowTyped
    <2> QED
      BY <1>2, <1>3, <1>4, <1>5, <1>7, <1>11, <2>1, <2>2
  <1>23. CASE lt_cleanup
    <2>1. CountersTyped' /\ UNCHANGED <<now, disk, archive, stage, settings, deletion, notices>>
      BY <1>1, <1>23 DEF lt_cleanup, CountersTyped
    <2>2. OpenTyped'
      BY <1>10, <1>23 DEF lt_cleanup, Forget
    <2> QED
      BY <1>2, <1>3, <1>4, <1>5, <1>7, <1>8, <2>1, <2>2
  <1>24. ASSUME NEW n \in MaximumFileSizes, setMaximumFileSize(n) PROVE TypeOK'
    <2>1. UNCHANGED <<now, disk, stage, deletion, notices, logged, launches>> /\ SettingsTyped'
      BY <1>1, <1>24 DEF setMaximumFileSize, SettingsTyped
    <2>2. incidents' \in Nat
      BY <1>1, <1>24 DEF setMaximumFileSize, Attempt, CountersTyped
    <2>3. FilesTyped' /\ OpenTyped'
      <3>1. CASE UNCHANGED <<archive, info, created, handle, watched, timer>> /\ unchecked' \in BOOLEAN
        <4>1. OpenTyped'
          BY <1>1, <3>1 DEF OpenTyped, archive
        <4> QED
          BY <1>8, <2>1, <3>1, <4>1
      <3>2. ASSUME handle # None, NEW success \in BOOLEAN, RollFrom(files, success)
            PROVE  FilesTyped' /\ OpenTyped'
        <4>1. info # None /\ Resized(files)
          BY <1>1, <3>2, WriteResizes DEF HandleIsInfo
        <4> QED
          BY <1>1, <2>1, <3>2, <4>1, RollTyped
      <3> HIDE DEF RollFrom
      <3> QED
        BY <1>24, <3>1, <3>2 DEF setMaximumFileSize
    <2> QED
      BY <1>2, <1>4, <1>5, <1>7, <1>11, <2>1, <2>2, <2>3
  <1>25. ASSUME NEW n \in RollingFrequencies, setRollingFrequency(n) PROVE TypeOK'
    <2>1. UNCHANGED <<now, disk, stage, deletion, notices, logged, launches>> /\ SettingsTyped'
      BY <1>1, <1>25 DEF setRollingFrequency, SettingsTyped
    <2>2. FilesTyped' /\ OpenTyped' /\ incidents' \in Nat
      <3>1. CASE UNCHANGED <<archive, open, incidents>>
        BY <1>1, <1>8, <1>9, <2>1, <3>1 DEF CountersTyped
      <3>2. CASE RollDueToAge(n)
        BY <2>1, <3>2, DDFileLoggerAssumption, RollDueToAgeTyped
      <3> QED
        BY <1>25, <3>1, <3>2 DEF setRollingFrequency
    <2> QED
      BY <1>2, <1>4, <1>5, <1>7, <1>11, <2>1, <2>2
  <1>26. ASSUME NEW n, \/ n \in MaximumNumbers /\ setMaximumNumberOfLogFiles(n)
                       \/ n \in DiskQuotas /\ setLogFilesDiskQuota(n)
         PROVE  TypeOK'
    <2>1. /\ UNCHANGED <<now, disk, archive, open, stage, notices, counters>>
          /\ SettingsTyped' /\ DeletionTyped'
      BY <1>1, <1>26 DEF setMaximumNumberOfLogFiles, setLogFilesDiskQuota, SettingsTyped, DeletionTyped
    <2> QED
      BY <1>2, <1>5, <1>6, <1>7, <1>8, <1>9, <2>1
  <1>27. CASE OpenLogFile
    <2>1. /\ UNCHANGED <<now, disk, archive, info, created, watched, timer, unchecked, settings,
                         deletion, notices, logged, launches>>
          /\ stage' \in {"idle", "watch"}
          /\ handle' = handle \/ (info \in DOMAIN disk /\ handle' = disk[info])
          /\ incidents' \in {incidents, incidents + 1}
      BY <1>27 DEF OpenLogFile, Attempt
    <2>2. StageTyped' /\ CountersTyped'
      BY <1>1, <2>1 DEF StageTyped, CountersTyped
    <2>3. OpenTyped'
      BY <1>1, <2>1 DEF OpenTyped, FilesTyped, archive
    <2> QED
      BY <1>2, <1>3, <1>4, <1>5, <1>8, <2>1, <2>2, <2>3
  <1>28. CASE WatchAndWrite
    <2>1. PICK date \in Names \cup {None} : date = CreationDate
      BY <1>1, CreationDateTyped
    <2>2. PICK fires \in Nat \cup {None} : fires = Schedule(date, rollingFrequency)
      BY <1>1, <1>12, ScheduleTyped
    <2>3. PICK vnode \in DOMAIN files \cup {None} : vnode = IF Linked(handle) THEN handle ELSE None
      BY <1>1 DEF TypeOK
    <2>4. /\ Write(date, fires, vnode) /\ handle # None /\ stage' = "idle"
          /\ UNCHANGED <<now, disk, settings, deletion, notices, launches>>
      BY <1>1, <1>28, <2>1, <2>2, <2>3 DEF WatchAndWrite, HandleIsInfo
    <2>5. FilesTyped' /\ OpenTyped' /\ incidents' \in Nat /\ logged' \in Nat
      BY <2>4, WriteTyped
    <2>6. CountersTyped' /\ StageTyped'
      BY <1>1, <2>4, <2>5 DEF CountersTyped, StageTyped
    <2> QED
      BY <1>2, <1>3, <1>4, <1>5, <2>4, <2>5, <2>6
  <1>29. CASE RollingTimerFires
    <2>1. /\ RollDueToAge(rollingFrequency)
          /\ UNCHANGED <<now, disk, stage, settings, deletion, notices, logged, launches>>
      BY <1>29 DEF RollingTimerFires
    <2>2. FilesTyped' /\ OpenTyped' /\ incidents' \in Nat
      BY <1>12, <2>1, RollDueToAgeTyped
    <2> QED
      BY <1>2, <1>3, <1>4, <1>5, <1>7, <1>11, <2>1, <2>2
  <1>30. CASE StartDeletion
    <2>1. /\ requested' \in Nat /\ undeleted' = {}
          /\ passes' = (IF ToDelete = {} THEN passes ELSE Append(passes, ToDelete))
          /\ UNCHANGED <<now, disk, archive, open, stage, settings, notices, counters>>
      BY <1>1, <1>30 DEF StartDeletion, DeletionTyped
    <2>2. passes' \in Seq(SUBSET Names)
      BY <1>1, <2>1, StartDeletionPasses
    <2>3. DeletionTyped'
      BY <2>1, <2>2 DEF DeletionTyped
    <2> QED
      BY <1>2, <1>3, <1>5, <1>6, <1>7, <1>8, <1>9, <2>1, <2>3
  <1>31. ASSUME NEW p \in DOMAIN passes, DeleteOldLogFile(p) PROVE TypeOK'
    <2>1. PICK f \in passes[p] :
            /\ disk' = Restrict(disk, DOMAIN disk \ {f}) \/ disk' = disk
            /\ undeleted' \in {undeleted, undeleted \cup {f}}
            /\ incidents' \in {incidents, incidents + 1}
            /\ passes' = IF passes[p] = {f}
                         THEN SubSeq(passes, 1, p - 1) \o SubSeq(passes, p + 1, Len(passes))
                         ELSE [passes EXCEPT ![p] = @ \ {f}]
            /\ UNCHANGED <<now, archive, open, stage, settings, requested, notices, logged, launches>>
      BY <1>31 DEF DeleteOldLogFile, Attempt
    <2>2. f \in Names
      BY <1>1, SeqElements DEF TypeOK
    <2>3. passes' \in Seq(SUBSET Names)
      BY <1>1, <2>1, DeletionPasses
    <2>4. DeletionTyped' /\ CountersTyped'
      BY <1>1, <2>1, <2>2, <2>3 DEF DeletionTyped, CountersTyped
    <2>5. FilesTyped'
      <3>1. DOMAIN disk' \subseteq DOMAIN disk /\ \A g \in DOMAIN disk' : disk'[g] = disk[g]
        BY <2>1 DEF Restrict
      <3> QED
        BY <1>1, <2>1, <3>1 DEF FilesTyped, archive
    <2> QED
      BY <1>2, <1>3, <1>5, <1>7, <1>9, <2>1, <2>4, <2>5
  <1>32. ASSUME NEW f \in Names, didArchiveLogFile(f) PROVE TypeOK'
    <2>1. /\ completionQueue' = [completionQueue EXCEPT ![f] = @ - 1] /\ completionQueue[f] > 0
          /\ announced' = [announced EXCEPT ![f] = @ + 1]
          /\ UNCHANGED <<now, disk, files, unmarked, open, stage, settings, deletion, lost, counters>>
      BY <1>32 DEF didArchiveLogFile
    <2>2. FilesTyped' /\ NoticesTyped'
      BY <1>1, <2>1 DEF FilesTyped, NoticesTyped
    <2>3. OpenTyped'
      BY <1>1, <2>1 DEF OpenTyped, open
    <2> QED
      BY <1>2, <1>3, <1>4, <1>6, <1>7, <2>1, <2>2, <2>3
  <1>33. CASE Tick \/ SetClockBack
    <2>1. /\ now' \in Names /\ incidents' \in Nat
          /\ UNCHANGED <<disk, archive, open, stage, settings, deletion, notices, logged, launches>>
      <3>1. CASE Tick
        <4>1. now' = now + 1 /\ now < MaxTime
          BY <3>1 DEF Tick
        <4>2. now' \in Names
          BY <1>1, <4>1, FileFacts DEF Names
        <4> QED
          BY <1>1, <3>1, <4>2 DEF Tick, CountersTyped, counters
      <3>2. CASE SetClockBack
        <4>1. now' \in 0 .. now /\ now \in 0 .. MaxTime /\ MaxTime \in Nat
          BY <1>1, <3>2, FileFacts DEF SetClockBack, Names, FilesTyped
        <4>2. now' \in Names
          BY <4>1 DEF Names
        <4> QED
          BY <1>1, <3>2, <4>2 DEF SetClockBack, CountersTyped, Attempt
      <3> QED
        BY <1>33, <3>1, <3>2
    <2>2. FilesTyped'
      BY <1>1, <2>1 DEF FilesTyped, archive
    <2> QED
      BY <1>2, <1>3, <1>4, <1>5, <1>7, <1>9, <1>11, <2>1, <2>2
  <1>34. CASE RemovedByOthers
    <2>1. /\ incidents' \in Nat /\ \E f : disk' = Restrict(disk, DOMAIN disk \ {f})
          /\ UNCHANGED <<now, archive, open, stage, settings, deletion, notices, logged, launches>>
      BY <1>1, <1>34 DEF RemovedByOthers, Attempt, CountersTyped
    <2>2. FilesTyped'
      <3>1. DOMAIN disk' \subseteq DOMAIN disk /\ \A g \in DOMAIN disk' : disk'[g] = disk[g]
        BY <2>1 DEF Restrict
      <3> QED
        BY <1>1, <2>1, <3>1 DEF FilesTyped, archive
    <2> QED
      BY <1>2, <1>3, <1>4, <1>5, <1>7, <1>9, <1>11, <2>1, <2>2
  <1>35. CASE Crash
    <2>1. OpenTyped'
      BY <1>10, <1>35 DEF Crash, Forget
    <2>2. <<>> \in Seq(SUBSET Names)
      OBVIOUS
    <2>3. FilesTyped' /\ SettingsTyped' /\ DeletionTyped' /\ NoticesTyped' /\ CountersTyped' /\ StageTyped'
      BY <1>1, <1>3, <1>35, <2>2
         DEF Crash, FilesTyped, DeletionTyped, NoticesTyped, CountersTyped, StageTyped
    <2> QED
      BY <1>2, <2>1, <2>3
  <1> HIDE DEF TypeOK
  <1>40. CASE Client
    BY <1>20, <1>21, <1>22, <1>23, <1>24, <1>25, <1>26, <1>40 DEF Client
  <1>41. CASE LoggerQueue
    BY <1>22, <1>27, <1>28, <1>29, <1>41 DEF LoggerQueue
  <1>42. CASE DeleteOldLogFiles
    BY <1>30, <1>31, <1>42 DEF DeleteOldLogFiles
  <1> QED
    BY <1>32, <1>33, <1>34, <1>35, <1>40, <1>41, <1>42 DEF Next

-----------------------------------------------------------------------------
(* The kinds of step, and that every action is of one of them.               *)

\* Rolling closes the open file and archives it.
RollKind ==
    /\ handle # None /\ stage' = "idle"
    /\ \E success \in BOOLEAN : \E fs \in Seq(FileRecord) : Resized(fs) /\ RollFrom(fs, success)
    /\ UNCHANGED <<now, disk, passes, notices>>

\* A file to write is looked for.
FindKind ==
    /\ stage = "idle" /\ FindLogFile
    /\ stage' = "idle" \/ (stage' = "open" /\ handle = None)
    /\ UNCHANGED <<handle, passes, notices>>

\* Apart from what a message adds to the open file, only settings, sources and counters change.
KeepKind ==
    /\ Resized(files')
    /\ stage' \in {stage, "idle"}
    /\ UNCHANGED <<now, disk, unmarked, completionQueue, info, handle, passes, notices>>

\* The current file is opened.
OpenKind ==
    /\ stage = "open" /\ stage' = "watch"
    /\ info # None /\ info \in DOMAIN disk /\ handle' = disk[info]
    /\ UNCHANGED <<now, disk, archive, info, passes, notices>>

\* The logger or the process ends.
ForgetKind ==
    /\ info' = None /\ handle' = None /\ stage' = "idle"
    /\ passes' = passes \/ passes' = <<>>
    /\ UNCHANGED <<now, disk, files, unmarked, announced>>
    /\ \/ UNCHANGED <<completionQueue, lost>>
       \/ /\ lost' = lost \cup {f \in Names : completionQueue[f] > 0}
          /\ completionQueue' = [f \in Names |-> 0]

\* Files leave the directory, and the lists of the passes.
UnlinkKind ==
    /\ DOMAIN disk' \subseteq DOMAIN disk
    /\ \A f \in DOMAIN disk' : disk'[f] = disk[f]
    /\ \A p \in DOMAIN passes' : \E q \in DOMAIN passes : passes'[p] \subseteq passes[q]
    /\ UNCHANGED <<now, archive, info, handle, stage, notices>>

\* A pass decides what to delete.
DecideKind ==
    /\ passes' = IF ToDelete = {} THEN passes ELSE Append(passes, ToDelete)
    /\ UNCHANGED <<now, disk, archive, info, handle, stage, notices>>

\* A call is made that was dispatched.
CallKind ==
    /\ \E f \in Names : /\ completionQueue[f] > 0
                        /\ completionQueue' = [completionQueue EXCEPT ![f] = @ - 1]
                        /\ announced' = [announced EXCEPT ![f] = @ + 1]
    /\ UNCHANGED <<now, disk, files, unmarked, info, handle, stage, passes, lost>>

\* The clock moves.
ClockKind ==
    /\ now' = now + 1 \/ (Clock # "adjusted" => \A i \in DOMAIN files : files[i].name <= now')
    /\ UNCHANGED <<disk, archive, info, handle, stage, passes, notices>>

StepKind ==
    \/ RollKind \/ FindKind \/ KeepKind \/ OpenKind \/ ForgetKind \/ UnlinkKind \/ DecideKind
    \/ CallKind \/ ClockKind

LEMMA NextKinds ==
    ASSUME OpenIInv, [Next]_vars
    PROVE  StepKind
  <1>1. /\ TypeOK /\ HandleIsInfo /\ files \in Seq(FileRecord)
        /\ handle # None => info # None /\ ~files[handle].archived
    BY DEF OpenIInv, TypeOK, HandleIsInfo
  <1>2. Resized(files)
    BY <1>1 DEF Resized
  <1>3. UNCHANGED <<now, disk, archive, info, handle, stage, passes, notices>> => KeepKind
    BY <1>2 DEF KeepKind, Resized, archive
  <1>4. ASSUME lt_rollLogFileNow, Idle, UNCHANGED <<now, disk, stage, passes, notices>>
        PROVE  StepKind
    <2>1. CASE handle = None
      BY <1>3, <1>4, <2>1 DEF lt_rollLogFileNow, open, StepKind
    <2>2. CASE handle # None
      <3>1. \E success \in BOOLEAN : RollFrom(files, success)
        BY <1>4, <2>2 DEF lt_rollLogFileNow
      <3> QED
        BY <1>1, <1>2, <1>4, <2>2, <3>1 DEF Idle, RollKind, StepKind
    <2> QED
      BY <2>1, <2>2
  <1>5. ASSUME NEW n, RollDueToAge(n), Idle, UNCHANGED <<now, disk, stage, passes, notices>>
        PROVE  StepKind
    BY <1>3, <1>4, <1>5 DEF RollDueToAge, StepKind
  <1>6. ASSUME handle # None, NEW date, NEW fires, NEW vnode, Write(date, fires, vnode),
               stage' = "idle", UNCHANGED <<now, disk, passes, notices>>
        PROVE  StepKind
    <2>1. PICK written \in BOOLEAN, success \in BOOLEAN :
            LET fs == IF written THEN [files EXCEPT ![handle].size = @ + 1] ELSE files
            IN  \/ RollFrom(fs, success)
                \/ files' = fs /\ UNCHANGED <<unmarked, completionQueue, info, handle>>
      <3> HIDE DEF RollFrom, Attempt, TooLarge
      <3> QED
        BY <1>6 DEF Write
    <2>2. PICK fs : fs = IF written THEN [files EXCEPT ![handle].size = @ + 1] ELSE files
      OBVIOUS
    <2>3. Resized(fs) /\ fs \in Seq(FileRecord)
      BY <1>1, <1>6, <2>2, WriteResizes DEF Resized
    <2>4. CASE RollFrom(fs, success)
      BY <1>6, <2>3, <2>4 DEF RollKind, StepKind
    <2>5. CASE files' = fs /\ UNCHANGED <<unmarked, completionQueue, info, handle>>
      <3>1. Resized(files')
        BY <2>3, <2>5 DEF Resized
      <3> QED
        BY <1>6, <2>5, <3>1 DEF KeepKind, StepKind
    <2> HIDE DEF RollFrom
    <2> QED
      BY <2>1, <2>2, <2>4, <2>5
  <1>10. CASE Client
    <2>1. CASE logMessage
      BY <1>6, <2>1 DEF logMessage, Idle, deletion
    <2>2. CASE logMessageFindsFile \/ currentLogFileInfo
      BY <2>2 DEF logMessageFindsFile, currentLogFileInfo, Idle, FindKind, StepKind
    <2>3. CASE rollLogFile
      BY <1>4, <2>3 DEF rollLogFile, deletion
    <2>4. CASE lt_cleanup
      BY <2>4 DEF lt_cleanup, Forget, Idle, archive, deletion, notices, ForgetKind, StepKind
    <2>5. ASSUME NEW n, setMaximumFileSize(n) PROVE StepKind
      <3>1. Idle /\ UNCHANGED <<now, disk, stage, passes, notices>>
        BY <2>5 DEF setMaximumFileSize, deletion
      <3>2. CASE UNCHANGED <<archive, info, created, handle, watched, timer>>
        BY <1>3, <3>1, <3>2 DEF StepKind
      <3>3. CASE handle # None /\ \E success \in BOOLEAN : RollFrom(files, success)
        BY <1>1, <1>2, <3>1, <3>3 DEF Idle, RollKind, StepKind
      <3> HIDE DEF RollFrom
      <3> QED
        BY <2>5, <3>2, <3>3 DEF setMaximumFileSize
    <2>6. ASSUME NEW n, setRollingFrequency(n) PROVE StepKind
      <3>1. Idle /\ UNCHANGED <<now, disk, stage, passes, notices>>
        BY <2>6 DEF setRollingFrequency, deletion
      <3>2. CASE RollDueToAge(n)
        BY <1>5, <3>1, <3>2
      <3>3. CASE UNCHANGED <<archive, open, incidents>>
        BY <1>3, <3>1, <3>3 DEF open, StepKind
      <3> QED
        BY <2>6, <3>2, <3>3 DEF setRollingFrequency
    <2>7. ASSUME NEW n, setMaximumNumberOfLogFiles(n) \/ setLogFilesDiskQuota(n) PROVE StepKind
      BY <1>3, <2>7 DEF setMaximumNumberOfLogFiles, setLogFilesDiskQuota, open, StepKind
    <2> QED
      BY <1>10, <2>1, <2>2, <2>3, <2>4, <2>5, <2>6, <2>7 DEF Client
  <1>11. CASE LoggerQueue
    <2>1. CASE OpenLogFile
      <3>1. stage = "open" /\ UNCHANGED <<now, disk, archive, info, passes, notices>>
        BY <2>1 DEF OpenLogFile, deletion
      <3>2. CASE handle' = handle /\ stage' = "idle"
        BY <1>2, <3>1, <3>2 DEF KeepKind, StepKind, archive, Resized
      <3>3. CASE info # None /\ info \in DOMAIN disk /\ handle' = disk[info] /\ stage' = "watch"
        BY <3>1, <3>3 DEF OpenKind, StepKind
      <3> QED
        BY <2>1, <3>2, <3>3 DEF OpenLogFile
    <2>2. CASE WatchAndWrite
      <3>1. handle # None /\ \E date, fires, vnode : Write(date, fires, vnode)
        BY <1>1, <2>2 DEF WatchAndWrite, HandleIsInfo
      <3>2. stage' = "idle" /\ UNCHANGED <<now, disk, passes, notices>>
        BY <2>2 DEF WatchAndWrite, deletion
      <3> HIDE DEF Write
      <3> QED
        BY <1>6, <3>1, <3>2
    <2>3. CASE RollingTimerFires
      BY <1>5, <2>3 DEF RollingTimerFires, deletion
    <2>4. CASE LogFileWasMoved
      BY <1>4, <2>4 DEF LogFileWasMoved, deletion
    <2> QED
      BY <1>11, <2>1, <2>2, <2>3, <2>4 DEF LoggerQueue
  <1>12. CASE DeleteOldLogFiles
    <2>1. CASE StartDeletion
      BY <2>1 DEF StartDeletion, open, DecideKind, StepKind
    <2>2. ASSUME NEW p \in DOMAIN passes, DeleteOldLogFile(p) PROVE StepKind
      <3>1. PICK f \in passes[p] :
              /\ disk' = Restrict(disk, DOMAIN disk \ {f}) \/ disk' = disk
              /\ passes' = IF passes[p] = {f}
                           THEN SubSeq(passes, 1, p - 1) \o SubSeq(passes, p + 1, Len(passes))
                           ELSE [passes EXCEPT ![p] = @ \ {f}]
              /\ UNCHANGED <<now, archive, info, handle, stage, notices>>
        BY <2>2 DEF DeleteOldLogFile, open
      <3>2. \A q \in DOMAIN passes' : \E r \in DOMAIN passes : passes'[q] \subseteq passes[r]
        BY <1>1, <3>1, DeletionPasses
      <3>3. DOMAIN disk' \subseteq DOMAIN disk /\ \A g \in DOMAIN disk' : disk'[g] = disk[g]
        BY <3>1 DEF Restrict
      <3> QED
        BY <3>1, <3>2, <3>3 DEF UnlinkKind, StepKind
    <2> QED
      BY <1>12, <2>1, <2>2 DEF DeleteOldLogFiles
  <1>13. CASE \E f \in Names : didArchiveLogFile(f)
    BY <1>13 DEF didArchiveLogFile, open, deletion, CallKind, StepKind
  <1>14. CASE Tick
    BY <1>14 DEF Tick, open, deletion, ClockKind, StepKind
  <1>15. CASE SetClockBack
    BY <1>15 DEF SetClockBack, open, deletion, ClockKind, StepKind
  <1>16. CASE RemovedByOthers
    <2>1. /\ \E f : disk' = Restrict(disk, DOMAIN disk \ {f})
          /\ UNCHANGED <<now, archive, info, handle, stage, passes, notices>>
      BY <1>16 DEF RemovedByOthers, open, deletion
    <2>2. DOMAIN disk' \subseteq DOMAIN disk /\ \A g \in DOMAIN disk' : disk'[g] = disk[g]
      BY <2>1 DEF Restrict
    <2> QED
      BY <2>1, <2>2 DEF UnlinkKind, StepKind
  <1>17. CASE Crash
    BY <1>17 DEF Crash, Forget, ForgetKind, StepKind
  <1>18. CASE UNCHANGED vars
    BY <1>3, <1>18 DEF vars, open, deletion, StepKind
  <1> QED
    BY <1>10, <1>11, <1>12, <1>13, <1>14, <1>15, <1>16, <1>17, <1>18 DEF Next

-----------------------------------------------------------------------------
(* What is open, and what is final, however the clock moves.                 *)

\* The initial states satisfy the invariants.
LEMMA InitOpenIInv == Init => OpenIInv
  <1> SUFFICES ASSUME Init PROVE OpenIInv
    OBVIOUS
  <1>1. <<>> \in Seq(FileRecord) /\ <<>> \in Seq(SUBSET Names) /\ DOMAIN <<>> = {}
    OBVIOUS
  <1>2. 0 \in Names /\ Names \subseteq Nat
    BY DDFileLoggerAssumption DEF Names
  <1>3. FilesTyped /\ NoticesTyped
    BY <1>1, <1>2 DEF Init, FilesTyped, NoticesTyped
  <1>4. OpenTyped /\ SettingsTyped /\ CountersTyped /\ DeletionTyped /\ StageTyped
    BY <1>1 DEF Init, OpenTyped, SettingsTyped, CountersTyped, DeletionTyped, StageTyped
  <1>5. TypeOK
    BY <1>3, <1>4, TypeParts
  <1>6. LinksNamed /\ InfoUnarchived /\ HandleIsInfo
    BY <1>1 DEF Init, LinksNamed, InfoUnarchived, HandleIsInfo
  <1> QED
    BY <1>5, <1>6 DEF OpenIInv

\* What archiving a file makes of all files.
LEMMA ArchiveLinked ==
    ASSUME TypeOK, NEW fs, Resized(fs), NEW f, NEW success \in BOOLEAN,
           NEW gs, gs = Archive(fs, f, success)
    PROVE  /\ gs \in Seq(FileRecord) /\ Len(gs) = Len(files) /\ DOMAIN gs = DOMAIN files
           /\ \A i \in DOMAIN files :
                 /\ gs[i].name = files[i].name
                 /\ files[i].archived => gs[i].archived /\ gs[i].size = files[i].size
                 /\ gs[i].archived <=>
                       (files[i].archived \/ (success /\ f \in DOMAIN disk /\ i = disk[f]))
  <1>1. /\ fs \in Seq(FileRecord) /\ Len(fs) = Len(files) /\ DOMAIN fs = DOMAIN files
        /\ f \in DOMAIN disk => disk[f] \in DOMAIN fs
    BY FileFacts DEF Resized
  <1> HIDE DEF Archive
  <1>2. /\ gs \in Seq(FileRecord) /\ Len(gs) = Len(fs) /\ DOMAIN gs = DOMAIN fs
        /\ \A i \in DOMAIN fs :
              /\ gs[i].name = fs[i].name
              /\ gs[i].size = fs[i].size
              /\ gs[i].archived <=> (fs[i].archived \/ (success /\ f \in DOMAIN disk /\ i = disk[f]))
    BY <1>1, ArchiveFacts
  <1> QED
    BY <1>1, <1>2 DEF Resized

\* fs is files as far as names and the archived ones go.
Kept(fs) ==
    /\ fs \in Seq(FileRecord) /\ Len(fs) = Len(files) /\ DOMAIN fs = DOMAIN files
    /\ \A i \in DOMAIN files :
          /\ fs[i].name = files[i].name
          /\ files[i].archived => fs[i].archived /\ fs[i].size = files[i].size

\* The two outcomes of creating a file.
NotCreated(fs) == info' = None /\ files' = fs /\ UNCHANGED <<now, disk>>
Created(fs, f, n) ==
    /\ f = (IF Clock = "apart" THEN now + 1 ELSE now)
    /\ n = Len(files) + 1 /\ n \notin DOMAIN files
    /\ now' = f /\ info' = f
    /\ files' \in Seq(FileRecord) /\ Len(files') = n /\ DOMAIN files' = 1 .. n
    /\ \A i \in DOMAIN files : i \in DOMAIN files' /\ files'[i] = fs[i]
    /\ files'[n].name = f /\ ~files'[n].archived
    /\ DOMAIN disk' = DOMAIN disk \cup {f}
    /\ disk'[f] = n
    /\ \A g \in DOMAIN disk : g # f => disk'[g] = disk[g]

LEMMA CreateCases ==
    ASSUME TypeOK, NEW fs, Kept(fs), NEW success, CreateNewLogFile(fs, success)
    PROVE  NotCreated(fs) \/ \E f \in Names : \E n \in Nat : Created(fs, f, n)
  <1>1. CASE NotCreated(fs)
    BY <1>1
  <1>2. CASE ~NotCreated(fs)
    <2>1. PICK f \in Names : f = IF Clock = "apart" THEN now + 1 ELSE now
      <3>1. PICK f : f = IF Clock = "apart" THEN now + 1 ELSE now
        OBVIOUS
      <3>2. f <= MaxTime
        BY <1>2, <3>1 DEF CreateNewLogFile, NotCreated
      <3>3. f \in Nat /\ MaxTime \in Nat
        BY <3>1, FileFacts
      <3> QED
        BY <3>1, <3>2, <3>3 DEF Names
    <2>2. PICK e \in FileRecord : e = [name |-> f, size |-> 0, archived |-> FALSE]
      <3>1. [name |-> f, size |-> 0, archived |-> FALSE] \in FileRecord
        BY DEF FileRecord
      <3> QED
        BY <3>1
    <2>3. PICK n \in Nat : n = Len(fs) + 1
      BY FileFacts DEF Kept
    <2>4. /\ now' = f /\ files' = Append(fs, e) /\ info' = f
          /\ disk' = [g \in DOMAIN disk \cup {f} |-> IF g = f THEN n ELSE disk[g]]
      BY <1>2, <2>1, <2>2, <2>3 DEF CreateNewLogFile, NotCreated
    <2>5. /\ files' \in Seq(FileRecord) /\ Len(files') = n /\ DOMAIN files' = 1 .. n
          /\ \A i \in DOMAIN fs : i \in DOMAIN files' /\ files'[i] = fs[i]
          /\ files'[n] = e
      BY <2>3, <2>4, AppendFacts DEF Kept
    <2>6. n = Len(files) + 1 /\ n \notin DOMAIN files /\ DOMAIN fs = DOMAIN files
      BY <2>3, FileFacts DEF Kept
    <2>7. /\ DOMAIN disk' = DOMAIN disk \cup {f} /\ disk'[f] = n
          /\ \A g \in DOMAIN disk : g # f => disk'[g] = disk[g]
      BY <2>4
    <2>8. e.name = f /\ e.archived = FALSE
      BY <2>2
    <2> QED
      BY <2>1, <2>4, <2>5, <2>6, <2>7, <2>8 DEF Created
  <1> QED
    BY <1>1, <1>2

\* After creating a file, or not, links have their names, and the current file is new.
LEMMA CreateOpen ==
    ASSUME OpenIInv, TypeOK', handle = None, handle' = None, stage' \in {"idle", "open"},
           NEW fs, Kept(fs), NEW success, CreateNewLogFile(fs, success)
    PROVE  OpenIInv' /\ \A i \in DOMAIN files :
                            files[i].archived => files'[i].archived /\ files'[i].size = files[i].size
  <1>1. TypeOK /\ LinksNamed
    BY DEF OpenIInv
  <1>2. HandleIsInfo'
    BY DEF HandleIsInfo
  <1>3. CASE NotCreated(fs)
    <2>1. LinksNamed' /\ InfoUnarchived'
      BY <1>1, <1>3, FileFacts DEF NotCreated, LinksNamed, InfoUnarchived, File, Kept
    <2> QED
      BY <1>2, <1>3, <2>1 DEF OpenIInv, NotCreated, Kept
  <1>4. ASSUME NEW f \in Names, NEW n \in Nat, Created(fs, f, n)
        PROVE  OpenIInv' /\ \A i \in DOMAIN files :
                               files[i].archived => files'[i].archived /\ files'[i].size = files[i].size
    <2>1. LinksNamed'
      <3> SUFFICES ASSUME NEW g \in DOMAIN disk' PROVE files'[disk'[g]].name = g
        BY DEF LinksNamed, File
      <3>1. CASE g = f
        BY <1>4, <3>1 DEF Created
      <3>2. CASE g # f
        BY <1>1, <1>4, <3>2, FileFacts DEF Created, LinksNamed, File, Kept
      <3> QED
        BY <3>1, <3>2
    <2>2. InfoUnarchived'
      BY <1>4 DEF Created, InfoUnarchived, File
    <2> QED
      BY <1>2, <1>4, <2>1, <2>2 DEF Created, OpenIInv, Kept
  <1> HIDE DEF CreateNewLogFile, OpenIInv
  <1> QED
    BY <1>1, <1>3, <1>4, CreateCases

\* An archived file stays as it is.
Final ==
    \A i \in DOMAIN files : files[i].archived =>
        files'[i].archived /\ files'[i].size = files[i].size

LEMMA FindOpen ==
    ASSUME OpenIInv, TypeOK', FindKind
    PROVE  OpenIInv' /\ Final
  <1>1. /\ TypeOK /\ LinksNamed /\ InfoUnarchived /\ HandleIsInfo /\ FindLogFile
        /\ stage' = "idle" \/ (stage' = "open" /\ handle = None)
        /\ handle' = handle /\ stage = "idle"
    BY DEF OpenIInv, FindKind
  <1>2. CASE info' = info /\ UNCHANGED <<disk, files>>
    <2>1. LinksNamed' /\ InfoUnarchived' /\ HandleIsInfo' /\ Final
      BY <1>1, <1>2 DEF LinksNamed, InfoUnarchived, HandleIsInfo, File, Final
    <2> QED
      BY <2>1 DEF OpenIInv
  <1>3. ASSUME info = None, NEW f \in DOMAIN disk, ~File(f).archived, info' = f,
               UNCHANGED <<disk, files>>
        PROVE  OpenIInv' /\ Final
    <2>1. handle = None
      BY <1>1, <1>3 DEF HandleIsInfo
    <2>2. LinksNamed' /\ InfoUnarchived' /\ HandleIsInfo' /\ Final
      BY <1>1, <1>3, <2>1 DEF LinksNamed, InfoUnarchived, HandleIsInfo, File, Final
    <2> QED
      BY <2>2 DEF OpenIInv
  <1>4. ASSUME info = None, NEW fs, Kept(fs), NEW success, CreateNewLogFile(fs, success)
        PROVE  OpenIInv' /\ Final
    <2>1. handle = None /\ handle' = None /\ stage' \in {"idle", "open"}
      BY <1>1, <1>4 DEF HandleIsInfo
    <2> HIDE DEF CreateNewLogFile
    <2> QED
      BY <1>4, <2>1, CreateOpen DEF Final
  <1>5. Kept(files)
    BY <1>1 DEF Kept, TypeOK
  <1>6. \A f : \A success \in BOOLEAN : Kept(Archive(files, f, success))
    <2> TAKE f
    <2> TAKE success \in BOOLEAN
    <2>1. PICK gs : gs = Archive(files, f, success)
      OBVIOUS
    <2>2. Resized(files)
      BY <1>1 DEF Resized, TypeOK
    <2>3. Kept(gs)
      BY <1>1, <2>1, <2>2, ArchiveLinked DEF Kept
    <2> QED
      BY <2>1, <2>3
  <1> HIDE DEF CreateNewLogFile, Archive, Announce, File, IsNewest, CreationDate, OpenIInv, Final,
               Kept
  <1> QED
    BY <1>1, <1>2, <1>3, <1>4, <1>5, <1>6, FindCases DEF archive

LEMMA NextOpenIInv ==
    ASSUME OpenIInv, [Next]_vars
    PROVE  OpenIInv' /\ Final
  <1>1. TypeOK /\ LinksNamed /\ InfoUnarchived /\ HandleIsInfo
    BY DEF OpenIInv
  <1>2. TypeOK'
    <2>1. CASE UNCHANGED vars
      BY <1>1, <2>1 DEF vars, archive, open, settings, deletion, notices, counters, TypeOK
    <2> QED
      BY <2>1, NextTyped
  <1>3. CASE RollKind
    <2>1. PICK success \in BOOLEAN : \E fs : Resized(fs) /\ RollFrom(fs, success)
      BY <1>3 DEF RollKind
    <2>2. PICK fs : Resized(fs) /\ RollFrom(fs, success)
      BY <2>1
    <2>3. files' = Archive(fs, info, success) /\ info' = None /\ handle' = None
      BY <2>2 DEF RollFrom, Forget
    <2>4. \A i \in DOMAIN files :
             /\ files'[i].name = files[i].name
             /\ files[i].archived => files'[i].archived /\ files'[i].size = files[i].size
      BY <1>1, <2>2, <2>3, ArchiveLinked
    <2>5. disk' = disk /\ stage' = "idle"
      BY <1>3 DEF RollKind
    <2>6. LinksNamed' /\ InfoUnarchived' /\ HandleIsInfo'
      BY <1>1, <2>3, <2>4, <2>5, FileFacts DEF LinksNamed, InfoUnarchived, HandleIsInfo, File
    <2> QED
      BY <1>2, <2>4, <2>6 DEF OpenIInv, Final
  <1>4. CASE FindKind
    BY <1>2, <1>4, FindOpen
  <1>5. CASE KeepKind
    <2>1. /\ \A i \in DOMAIN files : /\ files'[i].name = files[i].name
                                     /\ files'[i].archived = files[i].archived
                                     /\ files[i].archived => files'[i].size = files[i].size
          /\ stage' \in {stage, "idle"} /\ UNCHANGED <<disk, info, handle>>
      BY <1>5 DEF KeepKind, Resized
    <2>2. LinksNamed' /\ InfoUnarchived'
      BY <1>1, <2>1, FileFacts DEF LinksNamed, InfoUnarchived, File
    <2>3. HandleIsInfo'
      <3>1. handle # None => handle \in DOMAIN files
        BY <1>1 DEF TypeOK
      <3> QED
        BY <1>1, <2>1, <3>1 DEF HandleIsInfo
    <2> QED
      BY <1>2, <2>1, <2>2, <2>3 DEF OpenIInv, Final
  <1>6. CASE OpenKind
    <2>1. disk[info] \in DOMAIN files /\ disk[info] # None
      BY <1>1, <1>6, FileFacts DEF OpenKind
    <2>2. LinksNamed' /\ InfoUnarchived' /\ HandleIsInfo'
      BY <1>1, <1>6, <2>1 DEF OpenKind, LinksNamed, InfoUnarchived, HandleIsInfo, File, archive
    <2> QED
      BY <1>2, <1>6, <2>2 DEF OpenIInv, Final, OpenKind, archive
  <1>7. CASE ForgetKind
    BY <1>1, <1>2, <1>7 DEF ForgetKind, OpenIInv, Final, LinksNamed, InfoUnarchived, HandleIsInfo, File
  <1>8. CASE UnlinkKind
    <2>1. LinksNamed' /\ InfoUnarchived' /\ HandleIsInfo'
      BY <1>1, <1>8 DEF UnlinkKind, LinksNamed, InfoUnarchived, HandleIsInfo, File, archive
    <2> QED
      BY <1>2, <1>8, <2>1 DEF OpenIInv, Final, UnlinkKind, archive
  <1>9. CASE DecideKind \/ CallKind \/ ClockKind
    <2>1. UNCHANGED <<disk, files, info, handle, stage>>
      BY <1>9 DEF DecideKind, CallKind, ClockKind, archive
    <2> QED
      BY <1>1, <1>2, <2>1 DEF OpenIInv, Final, LinksNamed, InfoUnarchived, HandleIsInfo, File
  <1> HIDE DEF OpenIInv, Final
  <1> QED
    BY <1>3, <1>4, <1>5, <1>6, <1>7, <1>8, <1>9, NextKinds DEF StepKind, OpenIInv

\* However the clock moves and whatever fails, the open file is the current one, under
\* its name, and not archived.
THEOREM OpenInvariance == Spec => []OpenIInv
  <1>1. OpenIInv /\ [Next]_vars => OpenIInv'
    BY NextOpenIInv
  <1> QED
    BY <1>1, InitOpenIInv, PTL DEF Spec

\* The variables of the file logger have their types in every reachable state.
THEOREM FileTypeCorrect == Spec => []TypeOK
  <1>1. OpenIInv => TypeOK
    BY DEF OpenIInv
  <1> QED
    BY <1>1, OpenInvariance, PTL

\* Once a file is archived nothing is written to it any more, for ever.
THEOREM ArchivedFilesFinal == Spec => ArchivedIsFinal
  <1>1. OpenIInv /\ [Next]_vars => [Final]_vars
    BY NextOpenIInv
  <1>2. Spec => [][Final]_vars
    BY <1>1, OpenInvariance, PTL DEF Spec
  <1> QED
    BY <1>2, PTL DEF ArchivedIsFinal, Final

-----------------------------------------------------------------------------
(* Which files there are, when every file is created after the last one.     *)

\* What is not archived, apart from failures, is the newest file of the directory; the
\* names of the directory were used.
LEMMA NewestFacts ==
    ASSUME FileIInv
    PROVE  /\ \A f \in DOMAIN disk \ unmarked : ~File(f).archived => IsNewest(f)
           /\ \A f, g \in DOMAIN disk : IsNewest(f) /\ IsNewest(g) => f = g
           /\ \A f \in DOMAIN disk : f \in Used /\ f <= now /\ f \in Nat
  <1>1. TypeOK /\ CreationOrder /\ LinksNamed /\ LastIsOpen
    BY DEF FileIInv, OpenIInv
  <1>2. \A f \in DOMAIN disk \ unmarked : \A g \in DOMAIN disk : ~File(f).archived => g <= f
    <2> SUFFICES ASSUME NEW f \in DOMAIN disk, f \notin unmarked, NEW g \in DOMAIN disk,
                        ~File(f).archived
                 PROVE  g <= f
      OBVIOUS
    <2>1. disk[f] = Len(files) /\ disk[g] \in 1 .. Len(files) /\ Len(files) \in Nat
      BY <1>1, FileFacts DEF LastIsOpen
    <2>2. files[disk[f]].name = f /\ files[disk[g]].name = g /\ f \in Nat /\ g \in Nat
      BY <1>1, FileFacts DEF LinksNamed, File
    <2>3. CASE disk[g] = disk[f]
      BY <2>2, <2>3
    <2>4. CASE disk[g] # disk[f]
      <3>1. disk[g] < disk[f]
        BY <2>1, <2>4
      <3>2. files[disk[g]].name < files[disk[f]].name
        BY <1>1, <3>1, FileFacts DEF CreationOrder
      <3> QED
        BY <2>2, <3>2
    <2> QED
      BY <2>3, <2>4
  <1>3. \A f \in DOMAIN disk : f \in Used /\ f <= now /\ f \in Nat
    BY <1>1, FileFacts DEF CreationOrder, LinksNamed, File, Used
  <1>4. \A f, g \in DOMAIN disk : IsNewest(f) /\ IsNewest(g) => f = g
    BY <1>3 DEF IsNewest
  <1> QED
    BY <1>2, <1>3, <1>4 DEF IsNewest

\* What a pass decides to delete is archived, unless that failed.
LEMMA ToDeleteArchived ==
    ASSUME FileIInv
    PROVE  \A f \in ToDelete : f \in DOMAIN disk /\ (f \notin unmarked => File(f).archived)
  <1>1. TypeOK
    BY DEF FileIInv, OpenIInv
  <1>2. ToDelete \subseteq DOMAIN disk
    BY <1>1, ToDeleteListed
  <1>3. \A f \in ToDelete : ~(IsNewest(f) /\ ~File(f).archived)
    BY DEF ToDelete
  <1> HIDE DEF ToDelete, IsNewest, File
  <1> QED
    BY <1>2, <1>3, NewestFacts

\* Announcing a file counts for its name, which is noted if it could not be archived.
LEMMA AnnounceFacts ==
    ASSUME TypeOK, NEW f \in Names, NEW success \in BOOLEAN, Announce(f, success),
           announced' = announced
    PROVE  /\ \A g \in Names : Calls(g)' = IF g = f THEN Calls(g) + 1 ELSE Calls(g)
           /\ unmarked \subseteq unmarked'
           /\ f \in DOMAIN disk /\ ~success => f \in unmarked'
  <1>1. completionQueue \in [Names -> Nat] /\ announced \in [Names -> Nat]
    BY DEF TypeOK
  <1>2. completionQueue' = [completionQueue EXCEPT ![f] = @ + 1]
    BY DEF Announce
  <1>3. \A g \in Names : Calls(g)' = IF g = f THEN Calls(g) + 1 ELSE Calls(g)
    BY <1>1, <1>2 DEF Calls
  <1> QED
    BY <1>3 DEF Announce

LEMMA CallsTyped == TypeOK => \A f \in Names : Calls(f) \in Nat
  BY DEF TypeOK, Calls

\* Names and archived files are as they were, and the names in the same order.
LEMMA SameNames ==
    ASSUME CreationOrder, UNCHANGED now, DOMAIN files' = DOMAIN files,
           \A i \in DOMAIN files : files'[i].name = files[i].name
    PROVE  CreationOrder' /\ Used' = Used
  BY DEF CreationOrder, Used

LEMMA RollFile ==
    ASSUME FileIInv, OpenIInv', RollKind
    PROVE  FileIInv'
  <1>1. /\ TypeOK /\ LinksNamed /\ InfoUnarchived /\ HandleIsInfo /\ CreationOrder /\ LastIsOpen
        /\ InfoIsNewest /\ PassesArchived /\ Announcements
    BY DEF FileIInv, OpenIInv
  <1>2. /\ info \in Names /\ info # None /\ info \in Used
        /\ info \in DOMAIN disk => ~File(info).archived
        /\ UNCHANGED <<now, disk, passes, announced, lost>>
    BY <1>1 DEF RollKind, HandleIsInfo, TypeOK, InfoIsNewest, InfoUnarchived, notices
  <1>3. PICK success \in BOOLEAN : \E fs : Resized(fs) /\ RollFrom(fs, success)
    BY DEF RollKind
  <1>4. PICK fs : Resized(fs) /\ RollFrom(fs, success)
    BY <1>3
  <1>5. files' = Archive(fs, info, success) /\ info' = None /\ Announce(info, success)
    BY <1>4 DEF RollFrom, Forget
  <1>6. /\ Len(files') = Len(files) /\ DOMAIN files' = DOMAIN files
        /\ \A i \in DOMAIN files :
              /\ files'[i].name = files[i].name
              /\ files'[i].archived <=>
                    (files[i].archived \/ (success /\ info \in DOMAIN disk /\ i = disk[info]))
    BY <1>1, <1>4, <1>5, ArchiveLinked
  <1>7. /\ \A g \in Names : Calls(g)' = IF g = info THEN Calls(g) + 1 ELSE Calls(g)
        /\ unmarked \subseteq unmarked'
        /\ info \in DOMAIN disk /\ ~success => info \in unmarked'
    BY <1>1, <1>2, <1>5, AnnounceFacts
  <1>8. \A f \in DOMAIN disk : disk[f] \in DOMAIN files /\ f \in Names
    BY <1>1, FileFacts
  <1>9. \A f \in DOMAIN disk : File(f).archived => File(f)'.archived
    BY <1>2, <1>6, <1>8 DEF File
  <1>10. CreationOrder' /\ Used' = Used
    BY <1>1, <1>2, <1>6, SameNames
  <1>11. LastIsOpen'
    BY <1>1, <1>2, <1>6, <1>7, <1>9 DEF LastIsOpen
  <1>12. InfoIsNewest'
    BY <1>5 DEF InfoIsNewest
  <1>13. PassesArchived'
    BY <1>1, <1>2, <1>7, <1>9, <1>10 DEF PassesArchived
  <1>14. Announcements'
    <2>1. \A f \in Names : Calls(f) \in Nat
      BY <1>1, CallsTyped
    <2>2. \A f \in Names : Calls(f)' > 0 => f \in Used'
      BY <1>1, <1>2, <1>7, <1>10, <2>1 DEF Announcements
    <2>3. \A f \in Names \ unmarked' : Calls(f)' <= 1
      BY <1>1, <1>2, <1>7, <2>1 DEF Announcements
    <2>4. \A f \in Names \ unmarked' : f \in DOMAIN disk /\ ~File(f)'.archived => Calls(f)' = 0
      <3> SUFFICES ASSUME NEW f \in Names, f \notin unmarked', f \in DOMAIN disk, ~File(f)'.archived
                   PROVE  Calls(f)' = 0
        OBVIOUS
      <3>1. f # info
        BY <1>2, <1>6, <1>7, <1>8 DEF File
      <3>2. Calls(f) = 0
        BY <1>1, <1>7, <1>9 DEF Announcements
      <3> QED
        BY <1>7, <3>1, <3>2
    <2>5. \A f \in DOMAIN disk \ lost : File(f)'.archived => Calls(f)' >= 1
      <3> SUFFICES ASSUME NEW f \in DOMAIN disk, f \notin lost, File(f)'.archived
                   PROVE  Calls(f)' >= 1
        OBVIOUS
      <3>1. CASE f = info
        BY <1>2, <1>7, <2>1, <3>1
      <3>2. CASE f # info
        <4>1. info \in DOMAIN disk => disk[f] # disk[info]
          BY <1>1, <3>2 DEF LinksNamed, File
        <4>2. File(f).archived
          BY <1>2, <1>6, <1>8, <4>1 DEF File
        <4> QED
          BY <1>1, <1>7, <1>8, <3>2, <4>2 DEF Announcements
      <3> QED
        BY <3>1, <3>2
    <2>6. \A f \in Names : f # info'
      BY <1>1, <1>5, FileFacts
    <2>7. UNCHANGED <<disk, lost>>
      BY <1>2
    <2> HIDE DEF File, Calls, Used
    <2> QED
      BY <2>2, <2>3, <2>4, <2>5, <2>6, <2>7 DEF Announcements
  <1> QED
    BY <1>10, <1>11, <1>12, <1>13, <1>14 DEF FileIInv

\* A new file: all others are archived by now unless that failed, and its name is new.
LEMMA CreateFile ==
    ASSUME FileIInv, OpenIInv', Clock = "apart", NEW fs, Kept(fs), NEW success,
           CreateNewLogFile(fs, success), UNCHANGED <<passes, lost>>,
           unmarked \subseteq unmarked',
           \A f \in DOMAIN disk \ unmarked' : fs[disk[f]].archived,
           \A f \in Names : /\ Calls(f)' \in Nat
                            /\ Calls(f)' > 0 => f \in Used
                            /\ f \notin unmarked' => Calls(f)' <= 1,
           \A f \in DOMAIN disk \ lost : fs[disk[f]].archived => Calls(f)' >= 1
    PROVE  FileIInv'
  <1>1. TypeOK /\ LinksNamed /\ CreationOrder /\ PassesArchived
    BY DEF FileIInv, OpenIInv
  <1>2. /\ \A f \in DOMAIN disk : disk[f] \in DOMAIN files /\ f \in Names /\ f \in Used /\ f <= now
        /\ DOMAIN files = 1 .. Len(files) /\ Len(files) \in Nat /\ now \in Nat /\ Names \subseteq Nat
        /\ \A i \in DOMAIN files : i \in Nat /\ files[i].name \in Nat /\ files[i].name <= now
        /\ None \notin Nat
    BY <1>1, FileFacts, NewestFacts DEF CreationOrder
  <1>3. \A f \in DOMAIN disk : File(f).archived => fs[disk[f]].archived
    BY <1>2 DEF Kept, File
  <1>4. CASE NotCreated(fs)
    <2>1. /\ info' = None /\ files' = fs /\ UNCHANGED <<now, disk>>
          /\ \A f \in DOMAIN disk : File(f)' = fs[disk[f]]
      BY <1>4 DEF NotCreated, File
    <2>2. CreationOrder' /\ Used' = Used
      BY <1>1, <2>1, SameNames DEF Kept
    <2>3. LastIsOpen' /\ InfoIsNewest'
      BY <2>1 DEF LastIsOpen, InfoIsNewest
    <2>4. PassesArchived'
      BY <1>1, <1>3, <2>1, <2>2 DEF PassesArchived
    <2>5. Announcements'
      BY <1>2, <2>1, <2>2 DEF Announcements
    <2> QED
      BY <2>2, <2>3, <2>4, <2>5 DEF FileIInv
  <1>5. ASSUME NEW f \in Names, NEW n \in Nat, Created(fs, f, n) PROVE FileIInv'
    <2>1. /\ f = now + 1 /\ n = Len(files) + 1 /\ now' = f /\ info' = f
          /\ Len(files') = n /\ DOMAIN files' = 1 .. n
          /\ \A i \in DOMAIN files : /\ i \in DOMAIN files' /\ files'[i] = fs[i]
                                     /\ files'[i].name = files[i].name
          /\ files'[n].name = f /\ ~files'[n].archived
          /\ DOMAIN disk' = DOMAIN disk \cup {f} /\ disk'[f] = n
          /\ \A g \in DOMAIN disk : g # f => disk'[g] = disk[g]
      BY <1>5 DEF Created, Kept
    <2>2. /\ f \in Nat /\ f \notin DOMAIN disk /\ f \notin Used
          /\ \A i \in DOMAIN files : files[i].name < f /\ i < n
      <3>1. \A i \in DOMAIN files : files[i].name < f
        BY <1>2, <2>1
      <3>2. \A i \in DOMAIN files : i < n
        BY <1>2, <2>1
      <3>3. f \notin Used
        BY <1>2, <2>1, <3>1 DEF Used
      <3> QED
        BY <1>2, <3>1, <3>2, <3>3
    <2>3. \A i \in DOMAIN files' : i \in DOMAIN files \/ i = n
      BY <1>2, <2>1
    <2>4. CreationOrder'
      <3>1. \A i \in DOMAIN files' : files'[i].name <= f
        <4> SUFFICES ASSUME NEW i \in DOMAIN files' PROVE files'[i].name <= f
          OBVIOUS
        <4>1. CASE i = n
          BY <2>1, <2>2, <4>1
        <4>2. CASE i \in DOMAIN files
          <5>1. files[i].name < f /\ files[i].name \in Nat /\ files'[i].name = files[i].name
            BY <1>2, <2>1, <2>2, <4>2
          <5> QED
            BY <2>2, <5>1
        <4> QED
          BY <2>3, <4>1, <4>2
      <3>2. \A i, j \in DOMAIN files' : i < j => files'[i].name < files'[j].name
        <4> SUFFICES ASSUME NEW i \in DOMAIN files', NEW j \in DOMAIN files', i < j
                     PROVE  files'[i].name < files'[j].name
          OBVIOUS
        <4>1. i \in DOMAIN files
          BY <1>2, <2>1, <2>2, <2>3
        <4>2. CASE j = n
          BY <2>1, <2>2, <4>1, <4>2
        <4>3. CASE j \in DOMAIN files
          BY <1>1, <2>1, <4>1, <4>3 DEF CreationOrder
        <4> QED
          BY <2>3, <4>2, <4>3
      <3> QED
        BY <2>1, <3>1, <3>2 DEF CreationOrder
    <2>5. Used' = Used \cup {f}
      <3>1. Used' \subseteq Used \cup {f}
        BY <2>1, <2>3 DEF Used
      <3>2. n \in DOMAIN files'
        BY <1>2, <2>1
      <3>3. Used \cup {f} \subseteq Used'
        BY <2>1, <3>2 DEF Used
      <3> QED
        BY <3>1, <3>3
    <2>6. /\ \A g \in DOMAIN disk : File(g)' = fs[disk[g]] /\ g # f
          /\ ~File(f)'.archived
      BY <1>2, <2>1, <2>2 DEF File
    <2>7. LastIsOpen'
      <3> SUFFICES ASSUME NEW g \in DOMAIN disk' \ unmarked', ~File(g)'.archived
                   PROVE  disk'[g] = Len(files')
        BY DEF LastIsOpen
      <3>1. g = f
        BY <2>1, <2>6
      <3> QED
        BY <2>1, <3>1
    <2>8. InfoIsNewest'
      <3>1. \A g \in DOMAIN disk' : g \in DOMAIN disk \/ g = f
        BY <2>1
      <3>2. \A g \in DOMAIN disk : g <= f
        <4> SUFFICES ASSUME NEW g \in DOMAIN disk PROVE g <= f
          OBVIOUS
        <4>1. g \in Nat /\ g <= now /\ now \in Nat
          BY <1>2
        <4> QED
          BY <2>1, <4>1
      <3> QED
        BY <2>1, <2>2, <2>5, <3>1, <3>2 DEF InfoIsNewest
    <2>9. PassesArchived'
      <3> SUFFICES ASSUME NEW p \in DOMAIN passes, NEW g \in passes[p]
                   PROVE  g \in Used' /\ (g \in DOMAIN disk' \ unmarked' => File(g)'.archived)
        BY DEF PassesArchived
      <3>1. g \in Used
        BY <1>1 DEF PassesArchived
      <3>2. g # f /\ g \in Used'
        BY <2>2, <2>5, <3>1
      <3>3. ASSUME g \in DOMAIN disk' \ unmarked' PROVE File(g)'.archived
        BY <2>1, <2>6, <3>2, <3>3
      <3> QED
        BY <3>2, <3>3
    <2>10. Announcements'
      <3>1. Calls(f)' = 0
        BY <2>2
      <3>2. \A g \in DOMAIN disk' \ lost' : File(g)'.archived => Calls(g)' >= 1
        BY <2>1, <2>6
      <3>3. \A g \in Names \ unmarked' : g \in DOMAIN disk' /\ ~File(g)'.archived => Calls(g)' = 0
        BY <2>1, <2>6, <3>1
      <3>4. \A g \in Names : Calls(g)' > 0 => g \in Used'
        BY <2>5
      <3> QED
        BY <2>1, <3>1, <3>2, <3>3, <3>4 DEF Announcements
    <2> QED
      BY <2>4, <2>7, <2>8, <2>9, <2>10 DEF FileIInv
  <1> HIDE DEF CreateNewLogFile, FileIInv, Calls
  <1> QED
    BY <1>1, <1>4, <1>5, CreateCases

LEMMA FindFile ==
    ASSUME FileIInv, OpenIInv', Clock = "apart", FindKind
    PROVE  FileIInv'
  <1>1. /\ OpenIInv /\ TypeOK /\ LinksNamed /\ CreationOrder /\ LastIsOpen /\ InfoIsNewest
        /\ PassesArchived /\ Announcements
        /\ files \in Seq(FileRecord)
    BY DEF FileIInv, OpenIInv, TypeOK
  <1>2. FindLogFile /\ UNCHANGED <<passes, announced, lost>>
    BY DEF FindKind, notices
  <1>3. ASSUME UNCHANGED <<now, disk, archive>>,
               \/ info' = info
               \/ info' \in DOMAIN disk /\ IsNewest(info') /\ ~File(info').archived
        PROVE  FileIInv'
    <2>1. /\ UNCHANGED <<now, disk, files, unmarked, completionQueue, announced, lost, passes>>
          /\ \A f : File(f)' = File(f) /\ Calls(f)' = Calls(f)
      BY <1>2, <1>3 DEF archive, File, Calls
    <2>2. CreationOrder' /\ Used' = Used
      BY <1>1, <2>1, SameNames
    <2>3. LastIsOpen' /\ PassesArchived'
      BY <1>1, <2>1, <2>2 DEF LastIsOpen, PassesArchived
    <2>4. InfoIsNewest'
      BY <1>1, <1>3, <2>1, <2>2, NewestFacts DEF InfoIsNewest, IsNewest
    <2>5. Announcements'
      BY <1>1, <1>3, <2>1, <2>2 DEF Announcements
    <2> QED
      BY <2>2, <2>3, <2>4, <2>5 DEF FileIInv
  <1>4. \A f \in Names : Calls(f) \in Nat
    BY <1>1, CallsTyped
  <1>5. ASSUME info = None, CreateNewLogFile(files, TRUE), UNCHANGED <<unmarked, completionQueue>>,
               \A f \in DOMAIN disk : ~IsNewest(f) \/ File(f).archived
        PROVE  FileIInv'
    <2>1. \A f \in DOMAIN disk \ unmarked' : files[disk[f]].archived
      BY <1>5, NewestFacts DEF File
    <2>2. \A f \in Names : Calls(f)' = Calls(f)
      BY <1>2, <1>5 DEF Calls
    <2>3. \A f \in Names : /\ Calls(f)' \in Nat
                           /\ Calls(f)' > 0 => f \in Used
                           /\ f \notin unmarked' => Calls(f)' <= 1
      BY <1>1, <1>4, <1>5, <2>2 DEF Announcements
    <2>4. \A f \in DOMAIN disk \ lost : files[disk[f]].archived => Calls(f)' >= 1
      BY <1>1, <2>2, FileFacts DEF Announcements, File
    <2>5. Kept(files)
      BY <1>1 DEF Kept
    <2> HIDE DEF CreateNewLogFile
    <2> QED
      BY <1>2, <1>5, <2>1, <2>3, <2>4, <2>5, CreateFile
  <1>6. ASSUME info = None, NEW f \in DOMAIN disk, NEW success \in BOOLEAN,
               IsNewest(f), ~File(f).archived,
               CreateNewLogFile(Archive(files, f, success), success), Announce(f, success)
        PROVE  FileIInv'
    <2>1. PICK fs : fs = Archive(files, f, success)
      OBVIOUS
    <2>2. /\ f \in Names /\ f \in Used
          /\ \A g \in DOMAIN disk : disk[g] \in DOMAIN files /\ g \in Names
      BY <1>1, FileFacts, NewestFacts
    <2>3. /\ Kept(fs)
          /\ \A i \in DOMAIN files :
                fs[i].archived <=> (files[i].archived \/ (success /\ f \in DOMAIN disk /\ i = disk[f]))
      <3>1. Resized(files)
        BY <1>1 DEF Resized
      <3> QED
        BY <1>1, <2>1, <3>1, ArchiveLinked DEF Kept
    <2>4. /\ \A g \in Names : Calls(g)' = IF g = f THEN Calls(g) + 1 ELSE Calls(g)
          /\ unmarked \subseteq unmarked'
          /\ ~success => f \in unmarked'
      BY <1>1, <1>2, <1>6, <2>2, AnnounceFacts
    <2>5. \A g \in DOMAIN disk \ unmarked' : fs[disk[g]].archived
      <3> SUFFICES ASSUME NEW g \in DOMAIN disk, g \notin unmarked' PROVE fs[disk[g]].archived
        OBVIOUS
      <3>1. CASE g = f
        BY <2>2, <2>3, <2>4, <3>1
      <3>2. CASE g # f
        <4>1. File(g).archived
          BY <1>6, <2>4, <3>2, NewestFacts
        <4> QED
          BY <2>2, <2>3, <4>1 DEF File
      <3> QED
        BY <3>1, <3>2
    <2>6. \A g \in Names : /\ Calls(g)' \in Nat
                           /\ Calls(g)' > 0 => g \in Used
                           /\ g \notin unmarked' => Calls(g)' <= 1
      BY <1>1, <1>4, <1>6, <2>2, <2>4 DEF Announcements
    <2>7. \A g \in DOMAIN disk \ lost : fs[disk[g]].archived => Calls(g)' >= 1
      <3> SUFFICES ASSUME NEW g \in DOMAIN disk, g \notin lost, fs[disk[g]].archived
                   PROVE  Calls(g)' >= 1
        OBVIOUS
      <3>1. CASE g = f
        BY <1>4, <2>2, <2>4, <3>1
      <3>2. CASE g # f
        <4>1. disk[f] # disk[g]
          BY <1>1, <3>2 DEF LinksNamed, File
        <4>2. File(g).archived
          BY <2>2, <2>3, <4>1 DEF File
        <4> QED
          BY <1>1, <2>2, <2>4, <3>2, <4>2 DEF Announcements
      <3> QED
        BY <3>1, <3>2
    <2>8. CreateNewLogFile(fs, success)
      BY <1>6, <2>1
    <2> HIDE DEF CreateNewLogFile, Archive
    <2> QED
      BY <1>2, <2>3, <2>4, <2>5, <2>6, <2>7, <2>8, CreateFile
  <1> HIDE DEF CreateNewLogFile, Archive, Announce, File, IsNewest, CreationDate, FileIInv, OpenIInv
  <1> QED
    BY <1>1, <1>2, <1>3, <1>5, <1>6, FindCases

\* Every step keeps the invariant.
LEMMA NextFileIInv ==
    ASSUME FileIInv, Clock = "apart", [Next]_vars
    PROVE  FileIInv'
  <1>1. /\ TypeOK /\ LinksNamed /\ InfoUnarchived /\ HandleIsInfo /\ CreationOrder /\ LastIsOpen
        /\ InfoIsNewest /\ PassesArchived /\ Announcements
    BY DEF FileIInv, OpenIInv
  <1>2. OpenIInv' /\ StepKind
    BY NextOpenIInv, NextKinds DEF FileIInv
  <1>3. \A f \in DOMAIN disk : disk[f] \in DOMAIN files /\ f \in Names
    BY <1>1, FileFacts
  <1>4. CASE RollKind
    BY <1>2, <1>4, RollFile
  <1>5. CASE FindKind
    BY <1>2, <1>5, FindFile
  <1>6. CASE KeepKind
    <2>1. /\ Len(files') = Len(files) /\ DOMAIN files' = DOMAIN files
          /\ \A i \in DOMAIN files : /\ files'[i].name = files[i].name
                                     /\ files'[i].archived = files[i].archived
          /\ UNCHANGED <<now, disk, unmarked, completionQueue, info, passes, announced, lost>>
      BY <1>6 DEF KeepKind, Resized, notices
    <2>2. /\ \A f \in DOMAIN disk : File(f)'.archived = File(f).archived
          /\ \A f : Calls(f)' = Calls(f)
      BY <1>3, <2>1 DEF File, Calls
    <2>3. CreationOrder' /\ Used' = Used
      BY <1>1, <2>1, SameNames
    <2>4. LastIsOpen' /\ InfoIsNewest' /\ PassesArchived' /\ Announcements'
      BY <1>1, <2>1, <2>2, <2>3 DEF LastIsOpen, InfoIsNewest, PassesArchived, Announcements
    <2> QED
      BY <1>2, <2>3, <2>4 DEF FileIInv
  <1>7. ASSUME UNCHANGED <<now, files, disk, unmarked, completionQueue, announced, lost>>,
               info' \in {info, None}, PassesArchived'
        PROVE  FileIInv'
    <2>1. \A f : File(f)' = File(f) /\ Calls(f)' = Calls(f)
      BY <1>7 DEF File, Calls
    <2>2. CreationOrder' /\ Used' = Used
      BY <1>1, <1>7, SameNames
    <2>3. LastIsOpen' /\ InfoIsNewest'
      BY <1>1, <1>7, <2>1, <2>2 DEF LastIsOpen, InfoIsNewest
    <2>4. \A f \in Names : f # None
      BY <1>1, FileFacts
    <2>5. Announcements'
      BY <1>1, <1>7, <2>1, <2>2, <2>4 DEF Announcements
    <2> QED
      BY <1>2, <1>7, <2>2, <2>3, <2>5 DEF FileIInv
  <1>8. CASE OpenKind
    <2>1. UNCHANGED <<now, files, disk, unmarked, completionQueue, announced, lost, passes, info>>
      BY <1>8 DEF OpenKind, archive, notices
    <2>2. PassesArchived'
      BY <1>1, <2>1 DEF PassesArchived, Used, File
    <2> QED
      BY <1>7, <2>1, <2>2
  <1>9. CASE ForgetKind
    <2>1. /\ info' = None /\ passes' \in {passes, <<>>}
          /\ UNCHANGED <<now, disk, files, unmarked, announced>>
      BY <1>9 DEF ForgetKind
    <2>2. PassesArchived'
      <3>1. Used' = Used /\ \A f : File(f)' = File(f)
        BY <2>1 DEF Used, File
      <3>2. CASE passes' = passes
        BY <1>1, <2>1, <3>1, <3>2 DEF PassesArchived
      <3>3. CASE passes' = <<>>
        BY <3>3 DEF PassesArchived
      <3> QED
        BY <2>1, <3>2, <3>3
    <2>3. CASE UNCHANGED <<completionQueue, lost>>
      BY <1>7, <2>1, <2>2, <2>3
    <2>4. CASE /\ lost' = lost \cup {f \in Names : completionQueue[f] > 0}
               /\ completionQueue' = [f \in Names |-> 0]
      <3>1. completionQueue \in [Names -> Nat] /\ announced \in [Names -> Nat]
        BY <1>1 DEF TypeOK
      <3>2. /\ \A f : File(f)' = File(f)
            /\ \A f \in Names : /\ Calls(f)' \in Nat /\ Calls(f) \in Nat /\ Calls(f)' <= Calls(f)
                                /\ f \notin lost' => Calls(f)' = Calls(f)
        BY <2>1, <2>4, <3>1 DEF File, Calls
      <3>3. CreationOrder' /\ Used' = Used
        BY <1>1, <2>1, SameNames
      <3>4. LastIsOpen' /\ InfoIsNewest'
        BY <1>1, <2>1, <3>2 DEF LastIsOpen, InfoIsNewest
      <3>5. Announcements'
        <4>1. \A f \in Names : f # info'
          BY <1>1, <2>1, FileFacts
        <4>2. \A f \in Names : Calls(f)' > 0 => f \in Used'
          BY <1>1, <3>2, <3>3 DEF Announcements
        <4>3. \A f \in Names \ unmarked : Calls(f)' <= 1
          BY <1>1, <3>2 DEF Announcements
        <4>4. \A f \in Names \ unmarked : f \in DOMAIN disk /\ ~File(f).archived => Calls(f)' = 0
          BY <1>1, <3>2 DEF Announcements
        <4>5. \A f \in DOMAIN disk \ lost' : File(f).archived => Calls(f)' >= 1
          BY <1>1, <1>3, <2>4, <3>2 DEF Announcements
        <4> HIDE DEF Calls, File, Used
        <4> QED
          BY <2>1, <3>2, <4>1, <4>2, <4>3, <4>4, <4>5 DEF Announcements
      <3> QED
        BY <1>2, <2>2, <3>3, <3>4, <3>5 DEF FileIInv
    <2> QED
      BY <1>9, <2>3, <2>4 DEF ForgetKind
  <1>10. CASE UnlinkKind
    <2>1. /\ DOMAIN disk' \subseteq DOMAIN disk
          /\ \A f \in DOMAIN disk' : disk'[f] = disk[f] /\ File(f)' = File(f)
          /\ \A p \in DOMAIN passes' : \E q \in DOMAIN passes : passes'[p] \subseteq passes[q]
          /\ UNCHANGED <<now, files, unmarked, completionQueue, info, announced, lost>>
          /\ \A f : Calls(f)' = Calls(f)
      BY <1>10 DEF UnlinkKind, archive, notices, File, Calls
    <2>2. CreationOrder' /\ Used' = Used
      BY <1>1, <2>1, SameNames
    <2>3. LastIsOpen' /\ InfoIsNewest' /\ Announcements'
      BY <1>1, <2>1, <2>2 DEF LastIsOpen, InfoIsNewest, Announcements
    <2>4. PassesArchived'
      BY <1>1, <2>1, <2>2 DEF PassesArchived
    <2> QED
      BY <1>2, <2>2, <2>3, <2>4 DEF FileIInv
  <1>11. CASE DecideKind
    <2>1. /\ UNCHANGED <<now, files, disk, unmarked, completionQueue, info, announced, lost>>
          /\ passes' = IF ToDelete = {} THEN passes ELSE Append(passes, ToDelete)
      BY <1>11 DEF DecideKind, archive, notices
    <2>2. PassesArchived'
      <3>1. Used' = Used /\ \A f : File(f)' = File(f)
        BY <2>1 DEF Used, File
      <3>2. \A p \in DOMAIN passes' :
               (p \in DOMAIN passes /\ passes'[p] = passes[p]) \/ passes'[p] = ToDelete
        BY <1>1, <2>1, StartDeletionPasses
      <3>3. \A f \in ToDelete : f \in Used /\ (f \in DOMAIN disk \ unmarked => File(f).archived)
        BY ToDeleteArchived, NewestFacts
      <3> HIDE DEF ToDelete
      <3> QED
        BY <1>1, <2>1, <3>1, <3>2, <3>3 DEF PassesArchived
    <2> QED
      BY <1>7, <2>1, <2>2
  <1>12. CASE CallKind
    <2>1. PICK f \in Names : /\ completionQueue[f] > 0
                             /\ completionQueue' = [completionQueue EXCEPT ![f] = @ - 1]
                             /\ announced' = [announced EXCEPT ![f] = @ + 1]
      BY <1>12 DEF CallKind
    <2>2. UNCHANGED <<now, disk, files, unmarked, info, passes, lost>>
      BY <1>12 DEF CallKind
    <2>3. completionQueue \in [Names -> Nat] /\ announced \in [Names -> Nat]
      BY <1>1 DEF TypeOK
    <2>4. \A g \in Names : Calls(g)' = Calls(g)
      BY <2>1, <2>3 DEF Calls
    <2>5. /\ \A g : File(g)' = File(g)
          /\ CreationOrder' /\ Used' = Used
      BY <1>1, <2>2, SameNames DEF File
    <2>6. LastIsOpen' /\ InfoIsNewest' /\ PassesArchived'
      BY <1>1, <2>2, <2>5 DEF LastIsOpen, InfoIsNewest, PassesArchived
    <2>7. Announcements'
      BY <1>1, <1>3, <2>2, <2>4, <2>5 DEF Announcements
    <2> QED
      BY <1>2, <2>5, <2>6, <2>7 DEF FileIInv
  <1>13. CASE ClockKind
    <2>1. /\ UNCHANGED <<files, disk, unmarked, completionQueue, info, announced, lost, passes>>
          /\ now' = now + 1 \/ \A i \in DOMAIN files : files[i].name <= now'
          /\ \A f : File(f)' = File(f) /\ Calls(f)' = Calls(f)
          /\ Used' = Used
      BY <1>13 DEF ClockKind, archive, notices, File, Calls, Used
    <2>2. CreationOrder'
      <3>1. \A i \in DOMAIN files : files[i].name <= now'
        BY <1>1, <2>1, FileFacts DEF CreationOrder
      <3> QED
        BY <1>1, <2>1, <3>1 DEF CreationOrder
    <2>3. LastIsOpen' /\ InfoIsNewest' /\ PassesArchived' /\ Announcements'
      BY <1>1, <2>1 DEF LastIsOpen, InfoIsNewest, PassesArchived, Announcements
    <2> QED
      BY <1>2, <2>2, <2>3 DEF FileIInv
  <1> QED
    BY <1>2, <1>4, <1>5, <1>6, <1>8, <1>9, <1>10, <1>11, <1>12, <1>13 DEF StepKind

LEMMA InitFileIInv == Init => FileIInv
  <1> SUFFICES ASSUME Init PROVE FileIInv
    OBVIOUS
  <1>1. DOMAIN <<>> = {}
    OBVIOUS
  <1>2. CreationOrder /\ LastIsOpen /\ InfoIsNewest /\ PassesArchived
    BY <1>1 DEF Init, CreationOrder, LastIsOpen, InfoIsNewest, PassesArchived
  <1>3. Announcements
    BY <1>1 DEF Init, Announcements, Calls
  <1> QED
    BY <1>2, <1>3, InitOpenIInv DEF FileIInv

\* Every reachable state satisfies the inductive invariant: in the directory nothing is
\* newer than the current file, and all others are archived unless that failed.
THEOREM FileInvariance ==
    ASSUME Clock = "apart"
    PROVE  Spec => []FileIInv
  <1>1. FileIInv /\ [Next]_vars => FileIInv'
    BY NextFileIInv
  <1> QED
    BY <1>1, InitFileIInv, PTL DEF Spec

\* deleteOldLogFilesWithError: may run unsynchronised: what a pass has still to
\* delete is archived and not open, in any number of passes, crashes, failures and
\* removals; except for files that could not be archived.
THEOREM DeletionSafe ==
    ASSUME Clock = "apart"
    PROVE  Spec => []DeletedFilesAreArchived
  <1>1. FileIInv => DeletedFilesAreArchived
    <2> SUFFICES ASSUME FileIInv, NEW p \in DOMAIN passes, NEW f \in passes[p] \cap DOMAIN disk,
                        f \notin unmarked
                 PROVE  File(f).archived /\ disk[f] # handle
      BY DEF DeletedFilesAreArchived
    <2>1. File(f).archived
      BY DEF FileIInv, PassesArchived
    <2>2. TypeOK /\ HandleIsInfo /\ disk[f] \in DOMAIN files
      BY FileFacts DEF FileIInv, OpenIInv
    <2>3. disk[f] # handle
      <3> SUFFICES ASSUME disk[f] = handle PROVE FALSE
        OBVIOUS
      <3>1. handle # None
        BY <2>2, FileFacts
      <3> QED
        BY <2>1, <2>2, <3>1 DEF HandleIsInfo, File
    <2> QED
      BY <2>1, <2>3
  <1> QED
    BY <1>1, FileInvariance, PTL

\* Apart from files that could not be archived at most one is not, and it is the newest:
\* resuming finds it.
THEOREM NewestIsOpen ==
    ASSUME Clock = "apart"
    PROVE  Spec => []OnlyNewestIsOpen
  <1>1. FileIInv => OnlyNewestIsOpen
    BY NewestFacts DEF OnlyNewestIsOpen
  <1> QED
    BY <1>1, FileInvariance, PTL

\* didArchiveLogFile: is called for every archived file unless the process died before,
\* and never twice unless the file could not be archived.
THEOREM ArchivingAnnounced ==
    ASSUME Clock = "apart"
    PROVE  Spec => []AnnouncedOnce
  <1>1. FileIInv => AnnouncedOnce
    BY DEF FileIInv, Announcements, AnnouncedOnce
  <1> QED
    BY <1>1, FileInvariance, PTL

-----------------------------------------------------------------------------
(* The sources of the open file, and its size.                               *)

LEMMA RollSources ==
    ASSUME NEW fs, NEW success, RollFrom(fs, success), stage' = "idle"
    PROVE  SourcesIInv'
  BY DEF RollFrom, Forget, SourcesIInv, CreatedIsInfo, NoSourcesYet, SourcesSet, OpenFileHasRoom, Idle

\* Nothing that the invariant speaks of changes, except that files leave the directory.
LEMMA QuietSources ==
    ASSUME SourcesIInv, UNCHANGED <<files, open, stage, maximumFileSize, rollingFrequency>>,
           DOMAIN disk' \subseteq DOMAIN disk
    PROVE  SourcesIInv'
  BY DEF SourcesIInv, CreatedIsInfo, NoSourcesYet, SourcesSet, OpenFileHasRoom, Idle, open, Schedule

\* Writing leaves a file that has room; the other sources are the given ones.
LEMMA WriteSources ==
    ASSUME OpenIInv, handle # None, NEW date, NEW rollingTimer, NEW vnode,
           Write(date, rollingTimer, vnode), stage' = "idle",
           UNCHANGED <<disk, maximumFileSize, rollingFrequency>>,
           date \in {info, None}, info \in DOMAIN disk => date = info,
           date # None => rollingTimer = Schedule(date, rollingFrequency),
           vnode \in {handle, None}
    PROVE  SourcesIInv'
  <1>1. PICK written \in BOOLEAN, checked \in BOOLEAN, success \in BOOLEAN :
           LET fs == IF written THEN [files EXCEPT ![handle].size = @ + 1] ELSE files
           IN  \/ RollFrom(fs, success)
               \/ /\ ~(checked /\ TooLarge(fs[handle].size, maximumFileSize))
                  /\ files' = fs /\ created' = date /\ timer' = rollingTimer
                  /\ watched' = vnode /\ unchecked' = ~checked
                  /\ UNCHANGED <<info, handle>>
    <2> HIDE DEF RollFrom, Attempt, TooLarge
    <2> QED
      BY DEF Write
  <1>2. PICK fs : fs = IF written THEN [files EXCEPT ![handle].size = @ + 1] ELSE files
    OBVIOUS
  <1>3. CASE RollFrom(fs, success)
    BY <1>3, RollSources
  <1>4. CASE /\ ~(checked /\ TooLarge(fs[handle].size, maximumFileSize))
             /\ files' = fs /\ created' = date /\ timer' = rollingTimer
             /\ watched' = vnode /\ unchecked' = ~checked
             /\ UNCHANGED <<info, handle>>
    <2>1. TypeOK /\ Resized(fs) /\ handle \in DOMAIN files
      BY <1>2, WriteResizes DEF OpenIInv, HandleIsInfo, TypeOK
    <2>2. fs[handle].size \in Nat /\ maximumFileSize \in Nat
      <3>1. fs[handle] \in FileRecord
        BY <2>1, SeqElements DEF Resized
      <3>2. maximumFileSize \in Nat
        BY <2>1, DDFileLoggerAssumption DEF TypeOK
      <3> QED
        BY <3>1, <3>2 DEF FileRecord
    <2>3. OpenFileHasRoom'
      <3>1. ~unchecked' => ~TooLarge(fs[handle].size, maximumFileSize)
        BY <1>4, Zenon
      <3>2. ~TooLarge(fs[handle].size, maximumFileSize) /\ maximumFileSize > 0
                => fs[handle].size < maximumFileSize
        BY <2>2 DEF TooLarge
      <3> HIDE DEF TooLarge
      <3> QED
        BY <1>4, <3>1, <3>2 DEF OpenFileHasRoom
    <2>4. CreatedIsInfo' /\ NoSourcesYet' /\ SourcesSet'
      BY <1>4 DEF CreatedIsInfo, NoSourcesYet, SourcesSet, Schedule
    <2> QED
      BY <2>3, <2>4 DEF SourcesIInv
  <1> HIDE DEF RollFrom
  <1> QED
    BY <1>1, <1>2, <1>3, <1>4

\* The open file is found again, with its date if it is still there; or there is no
\* open file, and the date is that of the file found.
LEMMA FindSources ==
    ASSUME OpenIInv, SourcesIInv, Idle, FindLogFile,
           UNCHANGED <<handle, watched, timer, unchecked, settings>>,
           stage' = "idle" \/ (stage' = "open" /\ handle = None)
    PROVE  SourcesIInv'
  <1>1. /\ CreatedIsInfo /\ NoSourcesYet /\ SourcesSet /\ OpenFileHasRoom /\ HandleIsInfo
    BY DEF SourcesIInv, OpenIInv
  <1>2. UNCHANGED <<maximumFileSize, rollingFrequency>>
    BY DEF settings
  <1>3. created' \in {info', None}
    <2>1. CreationDate \in {info, None}
      BY <1>1 DEF CreationDate, CreatedIsInfo
    <2>2. \A fs, success : CreateNewLogFile(fs, success) => created' = None
      BY DEF CreateNewLogFile
    <2> HIDE DEF CreateNewLogFile, Archive, Announce, File, IsNewest, CreationDate, OpenIInv
    <2> QED
      BY <2>1, <2>2, FindCases
  <1>4. CASE handle = None
    <2>1. handle' = None /\ timer' = None /\ watched' = None
      BY <1>1, <1>4 DEF NoSourcesYet
    <2> QED
      BY <1>3, <2>1 DEF SourcesIInv, CreatedIsInfo, NoSourcesYet, SourcesSet, OpenFileHasRoom, Idle
  <1>5. CASE handle # None
    <2>1. info # None
      BY <1>1, <1>5 DEF HandleIsInfo
    <2>2. created' = CreationDate /\ UNCHANGED <<disk, files, info>>
      <3> HIDE DEF CreateNewLogFile, Archive, Announce, File, IsNewest, CreationDate, OpenIInv
      <3> QED
        BY <2>1, FindCases DEF archive
    <2>3. CreationDate = created
      BY <1>1, <1>5 DEF CreationDate, SourcesSet
    <2> QED
      BY <1>1, <1>2, <1>3, <1>5, <2>2, <2>3
         DEF SourcesIInv, CreatedIsInfo, NoSourcesYet, SourcesSet, OpenFileHasRoom, Idle, Schedule
  <1> QED
    BY <1>4, <1>5

LEMMA RollDueToAgeSources ==
    ASSUME OpenIInv, SourcesIInv, Idle, handle # None, NEW n, RollDueToAge(n),
           stage' = stage, rollingFrequency' = n, UNCHANGED <<disk, maximumFileSize>>
    PROVE  SourcesIInv'
  <1>1. CASE lt_rollLogFileNow
    BY <1>1, RollSources DEF lt_rollLogFileNow, Idle
  <1>2. CASE timer' = Schedule(CreationDate, n) /\ created' = CreationDate
             /\ UNCHANGED <<files, info, handle, watched, unchecked>>
    <2>1. CreationDate = created
      BY DEF CreationDate, SourcesSet, SourcesIInv
    <2> QED
      BY <1>2, <2>1
         DEF SourcesIInv, CreatedIsInfo, NoSourcesYet, SourcesSet, OpenFileHasRoom, Idle, Schedule
  <1> QED
    BY <1>1, <1>2 DEF RollDueToAge, archive

LEMMA NextSourcesIInv ==
    ASSUME OpenIInv, SourcesIInv, [Next]_vars
    PROVE  SourcesIInv'
  <1>1. TypeOK /\ HandleIsInfo
    BY DEF OpenIInv
  <1>2. ASSUME lt_rollLogFileNow, Idle, UNCHANGED <<disk, stage, settings>> PROVE SourcesIInv'
    <2> HIDE DEF RollFrom, SourcesIInv
    <2> QED
      BY <1>2, QuietSources, RollSources DEF lt_rollLogFileNow, Idle, settings, archive
  <1>3. CASE Client
    <2>1. CASE logMessage
      <3>0. PICK date, fires, vnode : date = created /\ fires = timer /\ vnode = watched
        OBVIOUS
      <3>1. Write(date, fires, vnode) /\ handle # None /\ stage' = "idle"
            /\ UNCHANGED <<disk, maximumFileSize, rollingFrequency>>
        BY <2>1, <3>0 DEF logMessage, Idle, settings
      <3>2. /\ date \in {info, None} /\ (info \in DOMAIN disk => date = info)
            /\ (date # None => fires = Schedule(date, rollingFrequency))
            /\ vnode \in {handle, None}
        BY <2>1, <3>0, <3>1 DEF logMessage, SourcesIInv, CreatedIsInfo, SourcesSet
      <3> HIDE DEF Write
      <3> QED
        BY <3>1, <3>2, WriteSources
    <2>2. CASE logMessageFindsFile \/ currentLogFileInfo
      <3>1. /\ Idle /\ FindLogFile /\ UNCHANGED <<handle, watched, timer, unchecked, settings>>
            /\ stage' = "idle" \/ (stage' = "open" /\ handle = None)
        BY <2>2 DEF logMessageFindsFile, currentLogFileInfo, Idle
      <3> QED
        BY <3>1, FindSources
    <2>3. CASE rollLogFile
      BY <1>2, <2>3 DEF rollLogFile
    <2>4. ASSUME NEW n \in MaximumFileSizes, setMaximumFileSize(n) PROVE SourcesIInv'
      <3>1. UNCHANGED <<disk, stage, rollingFrequency>> /\ maximumFileSize' = n /\ Idle
        BY <2>4 DEF setMaximumFileSize
      <3>2. CASE \E success \in BOOLEAN : RollFrom(files, success)
        <4> HIDE DEF RollFrom
        <4> QED
          BY <3>1, <3>2, RollSources DEF Idle
      <3>3. CASE \E checked \in BOOLEAN :
                    /\ ~(handle # None /\ checked /\ TooLarge(files[handle].size, n))
                    /\ unchecked' = ~checked
                    /\ UNCHANGED <<archive, info, created, handle, watched, timer>>
        <4>1. handle # None => files[handle].size \in Nat
          BY <1>1, FileFacts DEF TypeOK
        <4>2. n \in Nat
          BY DDFileLoggerAssumption
        <4>3. OpenFileHasRoom'
          <5>1. handle # None /\ ~unchecked' => ~TooLarge(files[handle].size, n)
            BY <3>3, Zenon
          <5>2. handle # None /\ ~TooLarge(files[handle].size, n) /\ n > 0 => files[handle].size < n
            BY <4>1, <4>2 DEF TooLarge
          <5>3. UNCHANGED <<files, handle>>
            BY <3>3 DEF archive
          <5> HIDE DEF TooLarge
          <5> QED
            BY <3>1, <5>1, <5>2, <5>3 DEF OpenFileHasRoom
        <4> QED
          BY <3>1, <3>3, <4>3
             DEF SourcesIInv, CreatedIsInfo, NoSourcesYet, SourcesSet, Idle, Schedule
      <3> HIDE DEF RollFrom, Attempt, TooLarge
      <3> QED
        BY <2>4, <3>2, <3>3 DEF setMaximumFileSize
    <2>5. ASSUME NEW n, setRollingFrequency(n) PROVE SourcesIInv'
      <3>1. Idle /\ rollingFrequency' = n /\ UNCHANGED <<disk, stage, maximumFileSize>>
        BY <2>5 DEF setRollingFrequency
      <3>2. CASE handle # None /\ RollDueToAge(n)
        BY <3>1, <3>2, RollDueToAgeSources
      <3>3. CASE handle = None /\ UNCHANGED <<files, open>>
        BY <3>1, <3>3
           DEF SourcesIInv, CreatedIsInfo, NoSourcesYet, SourcesSet, OpenFileHasRoom, Idle, open
      <3> QED
        BY <2>5, <3>2, <3>3 DEF setRollingFrequency, archive
    <2>6. ASSUME NEW n, setMaximumNumberOfLogFiles(n) \/ setLogFilesDiskQuota(n)
          PROVE  SourcesIInv'
      BY <2>6, QuietSources DEF setMaximumNumberOfLogFiles, setLogFilesDiskQuota, archive
    <2>7. CASE lt_cleanup
      BY <2>7 DEF lt_cleanup, Forget, SourcesIInv, CreatedIsInfo, NoSourcesYet, SourcesSet, OpenFileHasRoom
    <2> QED
      BY <1>3, <2>1, <2>2, <2>3, <2>4, <2>5, <2>6, <2>7 DEF Client
  <1>4. CASE LoggerQueue
    <2>1. CASE OpenLogFile
      <3>1. handle = None /\ timer = None /\ watched = None
        BY <1>1, <2>1 DEF OpenLogFile, HandleIsInfo, SourcesIInv, NoSourcesYet
      <3>2. /\ UNCHANGED <<info, created, timer, watched>>
            /\ stage' = "watch" \/ (stage' = "idle" /\ handle' = handle)
        BY <2>1 DEF OpenLogFile
      <3> QED
        BY <3>1, <3>2
           DEF SourcesIInv, CreatedIsInfo, NoSourcesYet, SourcesSet, OpenFileHasRoom, Idle
    <2>2. CASE WatchAndWrite
      <3>1. PICK date : date = CreationDate
        OBVIOUS
      <3>2. PICK vnode \in {handle, None} : vnode = IF Linked(handle) THEN handle ELSE None
        OBVIOUS
      <3>3. handle # None /\ stage' = "idle" /\ UNCHANGED <<disk, maximumFileSize, rollingFrequency>>
        BY <1>1, <2>2 DEF WatchAndWrite, HandleIsInfo, settings
      <3>4. date \in {info, None} /\ (info \in DOMAIN disk => date = info)
        BY <3>1 DEF CreationDate, SourcesIInv, CreatedIsInfo
      <3>5. Write(date, Schedule(date, rollingFrequency), vnode)
        BY <2>2, <3>1, <3>2 DEF WatchAndWrite
      <3> HIDE DEF Write
      <3> QED
        BY <3>3, <3>4, <3>5, WriteSources
    <2>3. CASE RollingTimerFires
      <3>1. handle # None
        BY <2>3 DEF RollingTimerFires, SourcesIInv, NoSourcesYet
      <3> QED
        BY <2>3, <3>1, RollDueToAgeSources DEF RollingTimerFires, settings
    <2>4. CASE LogFileWasMoved
      BY <1>2, <2>4 DEF LogFileWasMoved
    <2> QED
      BY <1>4, <2>1, <2>2, <2>3, <2>4 DEF LoggerQueue
  <1>5. CASE DeleteOldLogFiles
    <2>1. UNCHANGED <<files, open, stage, maximumFileSize, rollingFrequency>>
          /\ DOMAIN disk' \subseteq DOMAIN disk
      BY <1>5 DEF DeleteOldLogFiles, StartDeletion, DeleteOldLogFile, Restrict, settings, archive
    <2> QED
      BY <2>1, QuietSources
  <1>6. CASE Tick \/ SetClockBack \/ RemovedByOthers
    <2>1. UNCHANGED <<files, open, stage, maximumFileSize, rollingFrequency>>
          /\ DOMAIN disk' \subseteq DOMAIN disk
      BY <1>6 DEF Tick, SetClockBack, RemovedByOthers, Restrict, settings, archive
    <2> QED
      BY <2>1, QuietSources
  <1>7. CASE Crash
    BY <1>7 DEF Crash, Forget, SourcesIInv, CreatedIsInfo, NoSourcesYet, SourcesSet, OpenFileHasRoom
  <1>8. CASE UNCHANGED vars
    BY <1>8, QuietSources DEF vars, settings, archive
  <1>9. CASE \E f \in Names : didArchiveLogFile(f)
    <2>1. UNCHANGED <<files, open, stage, maximumFileSize, rollingFrequency>>
          /\ DOMAIN disk' \subseteq DOMAIN disk
      BY <1>9 DEF didArchiveLogFile, settings
    <2> QED
      BY <2>1, QuietSources
  <1> HIDE DEF SourcesIInv
  <1> QED
    BY <1>3, <1>4, <1>5, <1>6, <1>7, <1>8, <1>9 DEF Next

\* The sources and the room of the open file are in order in every reachable state,
\* between finding, opening and watching a file too.
THEOREM SourcesInvariance == Spec => []SourcesIInv
  <1>1. Init => SourcesIInv
    BY DEF Init, SourcesIInv, CreatedIsInfo, NoSourcesYet, SourcesSet, OpenFileHasRoom
  <1>2. OpenIInv /\ SourcesIInv /\ [Next]_vars => SourcesIInv'
    BY NextSourcesIInv
  <1> QED
    BY <1>1, <1>2, OpenInvariance, PTL DEF Spec

\* Between two blocks of the queue the open file has not reached maximumFileSize:
\* whichever of opening, resuming, writing and the setting came last.
THEOREM OpenFileRoom == Spec => []OpenFileHasRoom
  <1>1. SourcesIInv => OpenFileHasRoom
    BY DEF SourcesIInv
  <1> QED
    BY <1>1, SourcesInvariance, PTL

\* lt_scheduleTimerToRollLogFileDueToAge and lt_monitorCurrentLogFileForExternalChanges:
\* timer and vnode source follow the open file and the frequency.
THEOREM SourcesCorrect == Spec => []SourcesFollowFile
  <1>1. OpenIInv /\ SourcesIInv => SourcesFollowFile
    <2> SUFFICES ASSUME OpenIInv, SourcesIInv, Idle PROVE SourcesFollowFile
      BY DEF SourcesFollowFile
    <2>1. handle # None => info = files[handle].name
      BY DEF OpenIInv, HandleIsInfo
    <2> QED
      BY <2>1 DEF SourcesIInv, NoSourcesYet, SourcesSet, SourcesFollowFile, Linked
  <1> QED
    BY <1>1, OpenInvariance, SourcesInvariance, PTL

-----------------------------------------------------------------------------
(* What deletion leaves.                                                     *)

Smaller == {p \in Nat \X Nat : p[1] < p[2]}

\* A set of numbers has a least element; a set of names has a greatest.
LEMMA LeastNat ==
    ASSUME NEW T, T \subseteq Nat, T # {}
    PROVE  \E x \in T : \A y \in T : x <= y
  <1>1. IsWellFoundedOn(Smaller, Nat)
    BY NatLessThanWellFounded, Zenon DEF OpToRel, Smaller
  <1>2. PICK x \in T : \A y \in T : ~(<<y, x>> \in Smaller)
    BY <1>1, WFMin, Zenon
  <1>3. \A y \in T : ~(y < x)
    BY <1>2 DEF Smaller
  <1> QED
    BY <1>3

LEMMA GreatestName ==
    ASSUME NEW K, K \subseteq Names, K # {}
    PROVE  \E x \in K : \A y \in K : y <= x
  <1> DEFINE T == {n \in Nat : \E y \in K : n = MaxTime - y}
  <1>1. MaxTime \in Nat
    BY DDFileLoggerAssumption
  <1>2. \A y \in K : y \in Nat /\ MaxTime - y \in T
    BY <1>1 DEF Names
  <1>3. PICK n \in T : \A m \in T : n <= m
    <2>1. T # {} /\ T \subseteq Nat
      BY <1>2
    <2> HIDE DEF T
    <2> QED
      BY <2>1, LeastNat
  <1>4. PICK x \in K : n = MaxTime - x
    OBVIOUS
  <1>5. \A y \in K : n <= MaxTime - y
    BY <1>2, <1>3
  <1> QED
    BY <1>1, <1>2, <1>4, <1>5

\* The directory and the messages in its files are finite.
LEMMA DirectoryFinite ==
    ASSUME TypeOK, NEW F, F \subseteq DOMAIN disk
    PROVE  /\ F \subseteq Names /\ F \subseteq Nat
           /\ IsFiniteSet(F)
           /\ IsFiniteSet(Messages(F))
  <1>1. F \subseteq Names /\ Names \subseteq Nat /\ MaxTime \in Nat
    BY FileFacts
  <1>2. IsFiniteSet(F)
    <2>1. IsFiniteSet(0 .. MaxTime)
      BY <1>1, FS_Interval
    <2> QED
      BY <1>1, <2>1, FS_Subset DEF Names
  <1> DEFINE m == [f \in F |-> {f} \X (1 .. File(f).size)]
             M == {{f} \X (1 .. File(f).size) : f \in F}
  <1>3. m \in Surjection(F, M)
    BY DEF Surjection
  <1>4. IsFiniteSet(M)
    BY <1>2, <1>3, FS_Surjection
  <1>5. \A f \in F : IsFiniteSet({f} \X (1 .. File(f).size))
    <2> TAKE f \in F
    <2>1. File(f).size \in Nat
      BY FileFacts DEF File
    <2>2. IsFiniteSet(1 .. File(f).size)
      BY <2>1, FS_Interval
    <2>3. IsFiniteSet({f})
      BY FS_Singleton
    <2> QED
      BY <2>2, <2>3, FS_Product
  <1>6. \A T \in M : IsFiniteSet(T)
    BY <1>5
  <1>7. IsFiniteSet(UNION M)
    BY <1>4, <1>6, FS_UNION
  <1> QED
    BY <1>1, <1>2, <1>7 DEF Messages

\* More files are not smaller.
LEMMA SizeMonotone ==
    ASSUME TypeOK, NEW F, F \subseteq DOMAIN disk, NEW G, G \subseteq F
    PROVE  /\ SizeOf(F) \in Nat /\ SizeOf(G) \in Nat
           /\ SizeOf(G) <= SizeOf(F)
  <1>1. IsFiniteSet(Messages(F))
    BY DirectoryFinite
  <1>2. Messages(G) \subseteq Messages(F)
    BY DEF Messages
  <1> HIDE DEF Messages
  <1> QED
    BY <1>1, <1>2, FS_Subset, FS_CardinalityType DEF SizeOf

\* The limits that hold for some files hold for fewer of them, in any later state in
\* which the older ones of them have the same sizes.
LEMMA LimitsKept ==
    ASSUME TypeOK, NEW K, K \subseteq DOMAIN disk, WithinLimits(K),
           UNCHANGED <<maximumNumberOfLogFiles, logFilesDiskQuota>>,
           NEW L, L \subseteq K,
           \A f \in OlderOf(L) : File(f)'.size = File(f).size
    PROVE  WithinLimits(L)'
  <1>1. OlderOf(L) \subseteq OlderOf(K) /\ OlderOf(K) \subseteq DOMAIN disk
        /\ OlderOf(K) \subseteq K
    BY DEF OlderOf
  <1>2. maximumNumberOfLogFiles \in Nat /\ logFilesDiskQuota \in Nat
    BY DDFileLoggerAssumption DEF TypeOK
  <1>3. maximumNumberOfLogFiles > 0 => Cardinality(OlderOf(L)) < maximumNumberOfLogFiles
    <2>1. IsFiniteSet(OlderOf(K))
      BY <1>1, DirectoryFinite
    <2>2. Cardinality(OlderOf(L)) <= Cardinality(OlderOf(K))
          /\ Cardinality(OlderOf(L)) \in Nat /\ Cardinality(OlderOf(K)) \in Nat
      BY <1>1, <2>1, FS_Subset, FS_CardinalityType
    <2> QED
      BY <1>2, <2>2 DEF WithinLimits
  <1>4. logFilesDiskQuota > 0 => SizeOf(OlderOf(L)) <= logFilesDiskQuota
    BY <1>1, <1>2, SizeMonotone DEF WithinLimits
  <1>5. SizeOf(OlderOf(L))' = SizeOf(OlderOf(L))
    <2>1. PICK F : F = OlderOf(L)
      OBVIOUS
    <2>2. Messages(F)' = Messages(F)
      BY <2>1 DEF Messages
    <2>3. SizeOf(F)' = SizeOf(F)
      BY <2>2 DEF SizeOf
    <2>4. OlderOf(L)' = OlderOf(L)
      BY DEF OlderOf
    <2> QED
      BY <2>1, <2>3, <2>4
  <1> QED
    BY <1>3, <1>4, <1>5 DEF WithinLimits, OlderOf

\* deleteOldLogFilesWithError:'s choice is right: whichever files that it spares are
\* left, they are within the limits.
LEMMA SparedWithinLimits ==
    ASSUME TypeOK, NEW K, K \subseteq DOMAIN disk \ ToDelete
    PROVE  WithinLimits(K)
  <1>1. TypeOK
    OBVIOUS
  <1>2. maximumNumberOfLogFiles \in Nat /\ logFilesDiskQuota \in Nat
    BY <1>1, DDFileLoggerAssumption DEF TypeOK
  <1> DEFINE R == OlderOf(K)
  <1>3. R \subseteq K /\ R \subseteq DOMAIN disk /\ R \subseteq Nat /\ IsFiniteSet(R)
    <2>1. R \subseteq K /\ R \subseteq DOMAIN disk
      BY DEF OlderOf
    <2> QED
      BY <1>1, <2>1, DirectoryFinite
  <1>4. CASE R = {}
    <2>1. Cardinality(R) = 0
      BY <1>4, FS_EmptySet
    <2>2. Messages(R) = {}
      BY <1>4 DEF Messages
    <2>3. SizeOf(R) = 0
      BY <2>2, FS_EmptySet DEF SizeOf
    <2> QED
      BY <1>2, <2>1, <2>3 DEF WithinLimits
  <1>5. CASE R # {}
    <2>1. PICK m \in R : \A f \in R : m <= f
      BY <1>3, <1>5, LeastNat
    <2>2. m \in K /\ m \in DOMAIN disk /\ m \in Nat /\ m \notin ToDelete
          /\ \E g \in K : g > m
      BY <1>3, <2>1 DEF OlderOf
    <2>3. K \subseteq Names /\ K \subseteq Nat /\ K # {} /\ K \subseteq DOMAIN disk
      BY <1>1, <2>2, DirectoryFinite
    <2>4. ~IsNewest(m)
      BY <2>2, <2>3 DEF IsNewest
    <2>5. m \notin Excess
      BY <2>2, <2>4 DEF ToDelete
    <2> DEFINE After == {g \in DOMAIN disk : g > m}
               From  == {g \in DOMAIN disk : g >= m}
    <2>6. /\ maximumNumberOfLogFiles > 0 => ~(Cardinality(After) >= maximumNumberOfLogFiles)
          /\ logFilesDiskQuota > 0 => ~(SizeOf(From) > logFilesDiskQuota)
      BY <2>2, <2>5 DEF Excess
    <2>7. IsFiniteSet(After) /\ After \subseteq DOMAIN disk /\ Cardinality(After) \in Nat
      <3>1. After \subseteq DOMAIN disk
        OBVIOUS
      <3> HIDE DEF After
      <3> QED
        BY <1>1, <3>1, DirectoryFinite, FS_CardinalityType
    <2>8. Cardinality(R) <= Cardinality(After) /\ Cardinality(R) \in Nat
      <3>1. PICK x \in K : \A y \in K : y <= x
        BY <2>3, GreatestName
      <3>2. x \notin R /\ x \in After
        BY <2>2, <2>3, <3>1 DEF OlderOf
      <3>3. R \ {m} \subseteq After /\ x \notin R \ {m}
        BY <1>3, <2>1, <2>2, <3>2
      <3>4. IsFiniteSet(R \ {m}) /\ Cardinality(R \ {m}) = Cardinality(R) - 1
            /\ Cardinality(R) \in Nat
        BY <1>3, <2>1, FS_RemoveElement, FS_CardinalityType
      <3>5. Cardinality((R \ {m}) \cup {x}) = Cardinality(R \ {m}) + 1
        BY <3>3, <3>4, FS_AddElement
      <3>6. (R \ {m}) \cup {x} \subseteq After
        BY <3>2, <3>3
      <3>7. Cardinality((R \ {m}) \cup {x}) <= Cardinality(After)
        <4> HIDE DEF After, R
        <4> QED
          BY <2>7, <3>6, FS_Subset
      <3> HIDE DEF After, R
      <3> QED
        BY <3>4, <3>5, <3>7
    <2>9. SizeOf(R) <= SizeOf(From) /\ SizeOf(R) \in Nat /\ SizeOf(From) \in Nat
      <3>1. From \subseteq DOMAIN disk /\ R \subseteq From
        BY <1>3, <2>1, <2>2
      <3> HIDE DEF From, R
      <3> QED
        BY <1>1, <3>1, SizeMonotone
    <2> HIDE DEF R, After, From
    <2>10. /\ maximumNumberOfLogFiles > 0 => Cardinality(R) < maximumNumberOfLogFiles
           /\ logFilesDiskQuota > 0 => SizeOf(R) <= logFilesDiskQuota
      BY <1>2, <2>6, <2>7, <2>8, <2>9
    <2> QED
      BY <2>10 DEF WithinLimits, R
  <1> QED
    BY <1>4, <1>5

\* What is left when the last pass ends.
RetentionStep ==
    (requested + Len(passes) > 0 /\ requested' = 0 /\ passes' = <<>> /\ launches' = launches)
        => WithinLimits(DOMAIN disk \ undeleted)'

\* fs is files as far as the sizes of all files but the open one go.
SameSizes(fs) ==
    /\ fs \in Seq(FileRecord)
    /\ DOMAIN fs = DOMAIN files
    /\ \A i \in DOMAIN files : i # handle => fs[i].size = files[i].size

\* The open file is the newest, if it is there, so that the older ones keep their sizes.
LEMMA OlderSizes ==
    ASSUME FileIInv, NEW fs, SameSizes(fs), NEW K, K \subseteq DOMAIN disk
    PROVE  \A f \in OlderOf(K) : fs[disk[f]].size = File(f).size
  <1> SUFFICES ASSUME NEW f \in OlderOf(K) PROVE fs[disk[f]].size = File(f).size
    OBVIOUS
  <1>1. TypeOK /\ LinksNamed /\ InfoIsNewest /\ HandleIsInfo
    BY DEF FileIInv, OpenIInv
  <1>2. PICK g \in DOMAIN disk : g > f
    BY DEF OlderOf
  <1>3. f \in DOMAIN disk /\ disk[f] \in DOMAIN files /\ f \in Nat /\ g \in Nat
    BY <1>1, FileFacts DEF OlderOf
  <1>4. disk[f] # handle
    <2> SUFFICES ASSUME disk[f] = handle PROVE FALSE
      OBVIOUS
    <2>1. handle # None
      BY <1>1, <1>3, FileFacts
    <2>2. info # None /\ info = f
      BY <1>1, <1>3, <2>1 DEF HandleIsInfo, LinksNamed, File
    <2>3. g <= f
      BY <1>1, <2>2 DEF InfoIsNewest
    <2> QED
      BY <1>2, <1>3, <2>3
  <1> QED
    BY <1>3, <1>4 DEF SameSizes, File

LEMMA ArchiveSameSizes ==
    ASSUME TypeOK, NEW fs, SameSizes(fs), NEW f, NEW success \in BOOLEAN
    PROVE  SameSizes(Archive(fs, f, success))
  <1>1. f \in DOMAIN disk => disk[f] \in DOMAIN fs
    BY FileFacts DEF SameSizes
  <1>2. fs \in Seq(FileRecord)
    BY DEF SameSizes
  <1> HIDE DEF Archive
  <1> QED
    BY <1>1, <1>2, ArchiveFacts DEF SameSizes

LEMMA SparedInDirectory == Spared \ undeleted \subseteq DOMAIN disk
  BY DEF Spared

\* Files leave the directory, the open file grows or is archived, but the limits and the
\* passes are the same.
LEMMA RetentionQuiet ==
    ASSUME FileIInv, RetentionIInv,
           UNCHANGED <<requested, passes, undeleted, maximumNumberOfLogFiles, logFilesDiskQuota>>,
           DOMAIN disk' \subseteq DOMAIN disk, \A f \in DOMAIN disk' : disk'[f] = disk[f],
           SameSizes(files')
    PROVE  RetentionIInv' /\ RetentionStep
  <1>1. RetentionIInv'
    <2> SUFFICES ASSUME requested = 0, passes # <<>> PROVE WithinLimits(Spared \ undeleted)'
      BY DEF RetentionIInv
    <2>1. PICK L : L = (Spared \ undeleted)'
      OBVIOUS
    <2>2. L \subseteq Spared \ undeleted /\ L \subseteq DOMAIN disk' /\ L \subseteq DOMAIN disk
      BY <2>1 DEF Spared
    <2>3. \A f \in OlderOf(L) : f \in L /\ files'[disk[f]].size = File(f).size
      BY <2>2, OlderSizes DEF OlderOf
    <2>4. \A f \in OlderOf(L) : File(f)'.size = File(f).size
      BY <2>2, <2>3 DEF File
    <2>5. PICK K : K = Spared \ undeleted
      OBVIOUS
    <2>6. K \subseteq DOMAIN disk /\ WithinLimits(K) /\ L \subseteq K /\ TypeOK
      BY <2>2, <2>5, SparedInDirectory DEF RetentionIInv, FileIInv, OpenIInv
    <2>7. WithinLimits(L)'
      BY <2>4, <2>6, LimitsKept
    <2> QED
      BY <2>1, <2>7 DEF WithinLimits, SizeOf, Messages, OlderOf, File
  <1>2. RetentionStep
    BY DEF RetentionStep
  <1> QED
    BY <1>1, <1>2

\* A pass is dispatched.
LEMMA RetentionDispatch ==
    ASSUME TypeOK, requested' = requested + 1
    PROVE  RetentionIInv' /\ RetentionStep
  <1>1. requested \in Nat
    BY DEF TypeOK
  <1>2. requested' # 0
    BY <1>1
  <1> QED
    BY <1>2 DEF RetentionIInv, RetentionStep

LEMMA RetentionFind ==
    ASSUME FileIInv, RetentionIInv, FindLogFile, UNCHANGED <<settings, passes, undeleted>>
    PROVE  RetentionIInv' /\ RetentionStep
  <1>1. TypeOK /\ OpenIInv
    BY DEF FileIInv, OpenIInv
  <1>2. SameSizes(files) /\ \A f : \A success \in BOOLEAN : SameSizes(Archive(files, f, success))
    <2>1. SameSizes(files)
      BY <1>1 DEF SameSizes, TypeOK
    <2> QED
      BY <1>1, <2>1, ArchiveSameSizes
  <1>3. \A fs, success : SameSizes(fs) /\ CreateNewLogFile(fs, success) =>
           requested' = requested + 1 \/ (SameSizes(files') /\ UNCHANGED <<disk, requested>>)
    <2> SUFFICES ASSUME NEW fs, NEW success, SameSizes(fs), CreateNewLogFile(fs, success)
                 PROVE  requested' = requested + 1 \/ (SameSizes(files') /\ UNCHANGED <<disk, requested>>)
      OBVIOUS
    <2>1. requested' = requested + 1 \/ (files' = fs /\ UNCHANGED <<disk, requested>>)
      BY DEF CreateNewLogFile
    <2> QED
      BY <2>1 DEF SameSizes
  <1>4. requested' = requested + 1 \/ (SameSizes(files') /\ UNCHANGED <<disk, requested>>)
    <2> HIDE DEF CreateNewLogFile, Archive, Announce, SameSizes, File, IsNewest, CreationDate,
                 OpenIInv
    <2>1. CASE UNCHANGED <<disk, archive, requested>>
      <3>1. files' = files
        BY <2>1 DEF archive
      <3> QED
        BY <1>2, <2>1, <3>1 DEF SameSizes
    <2>2. CASE CreateNewLogFile(files, TRUE)
      BY <1>2, <1>3, <2>2
    <2>3. CASE \E f \in DOMAIN disk, success \in BOOLEAN :
                 CreateNewLogFile(Archive(files, f, success), success)
      BY <1>2, <1>3, <2>3
    <2> QED
      BY <1>1, <2>1, <2>2, <2>3, FindCases
  <1> QED
    BY <1>1, <1>4, RetentionQuiet, RetentionDispatch DEF settings

LEMMA RetentionRoll ==
    ASSUME FileIInv, RetentionIInv, NEW fs, SameSizes(fs), NEW success \in BOOLEAN,
           RollFrom(fs, success),
           UNCHANGED <<disk, deletion, maximumNumberOfLogFiles, logFilesDiskQuota>>
    PROVE  RetentionIInv' /\ RetentionStep
  <1>1. SameSizes(files')
    BY ArchiveSameSizes DEF RollFrom, FileIInv, OpenIInv
  <1> QED
    BY <1>1, RetentionQuiet DEF deletion

LEMMA RetentionWrite ==
    ASSUME FileIInv, RetentionIInv, handle # None, NEW date, NEW fires, NEW vnode,
           Write(date, fires, vnode), UNCHANGED <<disk, settings, deletion>>
    PROVE  RetentionIInv' /\ RetentionStep
  <1>1. PICK written \in BOOLEAN, success \in BOOLEAN :
           LET fs == IF written THEN [files EXCEPT ![handle].size = @ + 1] ELSE files
           IN  RollFrom(fs, success) \/ files' = fs
    <2> HIDE DEF RollFrom, Attempt, TooLarge
    <2> QED
      BY DEF Write
  <1>2. PICK fs : fs = IF written THEN [files EXCEPT ![handle].size = @ + 1] ELSE files
    OBVIOUS
  <1>3. SameSizes(fs)
    <2>1. Resized(fs) /\ \A i \in DOMAIN files : i # handle => fs[i] = files[i]
      BY <1>2, WriteResizes DEF FileIInv, OpenIInv, HandleIsInfo
    <2> QED
      BY <2>1 DEF Resized, SameSizes
  <1> HIDE DEF RollFrom
  <1>4. RollFrom(fs, success) \/ files' = fs
    BY <1>1, <1>2
  <1> QED
    BY <1>3, <1>4, RetentionRoll, RetentionQuiet DEF settings, deletion

LEMMA LaterIndex ==
    ASSUME NEW i \in Int, NEW p \in Int, NEW n \in Int, NEW k \in Int,
           k = p - 1, ~(i < p), i <= n - 1
    PROVE  i - k \in 1 .. n - p /\ (i - k) + p = i + 1 /\ ~(i <= k)
  OBVIOUS

\* One element of a sequence left out.
LEMMA RemoveAtElements ==
    ASSUME NEW S, NEW s \in Seq(S), NEW p \in DOMAIN s, NEW u,
           u = SubSeq(s, 1, p - 1) \o SubSeq(s, p + 1, Len(s))
    PROVE  /\ DOMAIN u = 1 .. Len(s) - 1
           /\ \A i \in DOMAIN u : u[i] = IF i < p THEN s[i] ELSE s[i + 1]
  <1>1. /\ Len(s) \in Nat /\ DOMAIN s = 1 .. Len(s) /\ \A i \in DOMAIN s : s[i] \in S
        /\ p \in 1 .. Len(s)
    BY SeqElements
  <1>2. PICK k, m, n : k = p - 1 /\ m = p + 1 /\ n = Len(s)
    OBVIOUS
  <1>3. k \in Int /\ m \in Int /\ n \in Int /\ k \in Nat /\ n - p \in Nat
    BY <1>1, <1>2
  <1>4. PICK a, b : a = SubSeq(s, 1, k) /\ b = SubSeq(s, m, n)
    OBVIOUS
  <1>5. /\ a \in Seq(S) /\ Len(a) = k
        /\ \A i \in 1 .. k : a[i] = s[i]
    <2>1. \A i \in 1 .. k : s[i] \in S
      BY <1>1, <1>2
    <2>2. /\ SubSeq(s, 1, k) \in Seq(S)
          /\ Len(SubSeq(s, 1, k)) = IF 1 <= k THEN k - 1 + 1 ELSE 0
          /\ \A i \in 1 .. k - 1 + 1 : SubSeq(s, 1, k)[i] = s[1 + i - 1]
      BY <1>3, <2>1, SubSeqProperties
    <2> QED
      BY <1>3, <1>4, <2>2
  <1>6. /\ b \in Seq(S) /\ Len(b) = n - p
        /\ \A i \in 1 .. n - p : b[i] = s[i + p]
    <2>1. \A i \in m .. n : s[i] \in S
      BY <1>1, <1>2
    <2>2. /\ SubSeq(s, m, n) \in Seq(S)
          /\ Len(SubSeq(s, m, n)) = IF m <= n THEN n - m + 1 ELSE 0
          /\ \A i \in 1 .. n - m + 1 : SubSeq(s, m, n)[i] = s[m + i - 1]
      BY <1>3, <2>1, SubSeqProperties
    <2>3. /\ b \in Seq(S) /\ Len(b) = IF m <= n THEN n - m + 1 ELSE 0
          /\ \A i \in 1 .. n - m + 1 : b[i] = s[m + i - 1]
      BY <1>4, <2>2
    <2>4. n - m + 1 = n - p
      BY <1>1, <1>2, <1>3
    <2>5. Len(b) = n - p
      BY <1>1, <1>2, <1>3, <2>3, <2>4
    <2>6. ASSUME NEW i \in 1 .. n - p PROVE b[i] = s[i + p]
      <3>1. m + i - 1 = i + p
        BY <1>1, <1>2, <1>3
      <3>2. b[i] = s[m + i - 1]
        BY <2>3, <2>4
      <3> QED
        BY <3>1, <3>2
    <2> QED
      BY <2>3, <2>5, <2>6
  <1>7. u = a \o b
    BY <1>2, <1>4
  <1>8. /\ u \in Seq(S) /\ Len(u) = k + (n - p)
        /\ \A i \in 1 .. k + (n - p) : u[i] = IF i <= k THEN a[i] ELSE b[i - k]
    <2>1. /\ a \o b \in Seq(S) /\ Len(a \o b) = Len(a) + Len(b)
          /\ \A i \in 1 .. Len(a) + Len(b) :
                (a \o b)[i] = IF i <= Len(a) THEN a[i] ELSE b[i - Len(a)]
      BY <1>5, <1>6, ConcatProperties
    <2> QED
      BY <1>5, <1>6, <1>7, <2>1
  <1>9. k + (n - p) = Len(s) - 1
    BY <1>1, <1>2
  <1>10. DOMAIN u = 1 .. Len(s) - 1
    BY <1>8, <1>9, SeqElements
  <1>11. ASSUME NEW i \in DOMAIN u PROVE u[i] = IF i < p THEN s[i] ELSE s[i + 1]
    <2>1. i \in 1 .. Len(s) - 1 /\ u[i] = IF i <= k THEN a[i] ELSE b[i - k]
      BY <1>8, <1>9, <1>10, <1>11
    <2>2. CASE i < p
      BY <1>1, <1>2, <1>5, <2>1, <2>2
    <2>3. CASE ~(i < p)
      <3>1. i \in Int /\ k \in Int /\ n \in Int /\ p \in Int /\ k = p - 1 /\ 1 <= i /\ i <= n - 1
            /\ ~(i < p)
        BY <1>1, <1>2, <1>3, <2>1, <2>3
      <3>2. i - k \in 1 .. n - p /\ (i - k) + p = i + 1 /\ ~(i <= k)
        BY <3>1, LaterIndex, Zenon
      <3>3. b[i - k] = s[(i - k) + p]
        BY <1>6, <3>2
      <3> QED
        BY <2>1, <2>3, <3>2, <3>3
    <2> QED
      BY <2>2, <2>3
  <1> QED
    BY <1>10, <1>11

\* The passes when pass p has deleted f.
PassesWithout(p, f) ==
    IF passes[p] = {f} THEN SubSeq(passes, 1, p - 1) \o SubSeq(passes, p + 1, Len(passes))
                       ELSE [passes EXCEPT ![p] = @ \ {f}]

\* Deleting one file takes no other out of the lists of the passes.
LEMMA DeletionKeepsOthers ==
    ASSUME TypeOK, NEW p \in DOMAIN passes, NEW f, passes' = PassesWithout(p, f)
    PROVE  \A r \in DOMAIN passes : \A g \in passes[r] :
              g = f \/ \E q \in DOMAIN passes' : g \in passes'[q]
  <1>1. passes \in Seq(SUBSET Names)
    BY DEF TypeOK
  <1>2. /\ Len(passes) \in Nat /\ DOMAIN passes = 1 .. Len(passes) /\ p \in Nat
        /\ \A q \in DOMAIN passes : q \in Nat /\ passes[q] \in SUBSET Names
    BY <1>1, SeqElements
  <1> SUFFICES ASSUME NEW r \in DOMAIN passes, NEW g \in passes[r], g # f
               PROVE  \E q \in DOMAIN passes' : g \in passes'[q]
    OBVIOUS
  <1>3. CASE passes[p] = {f}
    <2>1. r # p /\ r \in 1 .. Len(passes) /\ p \in 1 .. Len(passes)
      BY <1>2, <1>3
    <2>2. PICK u : u = SubSeq(passes, 1, p - 1) \o SubSeq(passes, p + 1, Len(passes))
      OBVIOUS
    <2>3. /\ DOMAIN u = 1 .. Len(passes) - 1
          /\ \A i \in DOMAIN u : u[i] = IF i < p THEN passes[i] ELSE passes[i + 1]
      BY <1>1, <2>2, RemoveAtElements
    <2>4. passes' = u
      BY <1>3, <2>2 DEF PassesWithout
    <2>5. CASE r < p
      <3>1. r \in DOMAIN u /\ u[r] = passes[r]
        BY <1>2, <2>1, <2>3, <2>5
      <3> QED
        BY <2>4, <3>1
    <2>6. CASE r > p
      <3>1. r - 1 \in DOMAIN u /\ u[r - 1] = passes[r]
        <4>1. r - 1 \in 1 .. Len(passes) - 1 /\ ~(r - 1 < p) /\ (r - 1) + 1 = r
          BY <1>2, <2>1, <2>6
        <4> QED
          BY <2>3, <4>1
      <3> QED
        BY <2>4, <3>1
    <2>7. r < p \/ r > p
      BY <1>2, <2>1
    <2> QED
      BY <2>5, <2>6, <2>7
  <1>4. CASE passes[p] # {f}
    <2>1. DOMAIN passes' = DOMAIN passes /\ passes'[p] = passes[p] \ {f}
          /\ \A q \in DOMAIN passes : q # p => passes'[q] = passes[q]
      BY <1>4 DEF PassesWithout
    <2> QED
      BY <2>1
  <1> QED
    BY <1>3, <1>4

\* A pass lists the files: those that it and the others spare are within the limits.
LEMMA RetentionStart ==
    ASSUME FileIInv, StartDeletion
    PROVE  RetentionIInv' /\ RetentionStep
  <1>1. UNCHANGED <<disk, files, maximumNumberOfLogFiles, logFilesDiskQuota>> /\ undeleted' = {}
    BY DEF StartDeletion, settings, archive
  <1>2. \A g \in ToDelete : \E q \in DOMAIN passes' : g \in passes'[q]
    <2>1. passes' = IF ToDelete = {} THEN passes ELSE Append(passes, ToDelete)
      BY DEF StartDeletion
    <2>2. PICK d \in SUBSET Names : d = ToDelete
      BY ToDeleteListed DEF FileIInv, OpenIInv
    <2>3. passes \in Seq(SUBSET Names) /\ Len(passes) \in Nat
      BY SeqElements DEF FileIInv, OpenIInv, TypeOK
    <2>4. CASE d # {}
      <3>1. passes' = Append(passes, d)
        BY <2>1, <2>2, <2>4
      <3>2. /\ passes' \in Seq(SUBSET Names) /\ Len(passes') = Len(passes) + 1
            /\ passes'[Len(passes) + 1] = d
        BY <2>3, <3>1, AppendProperties
      <3>3. Len(passes) + 1 \in DOMAIN passes'
        BY <2>3, <3>2, SeqElements
      <3> QED
        BY <2>2, <3>2, <3>3
    <2> QED
      BY <2>2, <2>4
  <1>3. ASSUME NEW L, L \subseteq DOMAIN disk \ ToDelete
        PROVE  WithinLimits(L)'
    <2>1. WithinLimits(L)
      BY <1>3, SparedWithinLimits DEF FileIInv, OpenIInv
    <2> QED
      BY <1>1, <2>1 DEF WithinLimits, SizeOf, Messages, OlderOf, File
  <1>4. RetentionIInv'
    <2>1. PICK L : L = (Spared \ undeleted)'
      OBVIOUS
    <2>2. L \subseteq DOMAIN disk \ ToDelete
      BY <1>1, <1>2, <2>1, Zenon DEF Spared
    <2>3. WithinLimits(L)'
      BY <1>3, <2>2
    <2> QED
      BY <2>1, <2>3 DEF RetentionIInv, WithinLimits, SizeOf, Messages, OlderOf, File
  <1>5. RetentionStep
    <2> SUFFICES ASSUME passes' = <<>> PROVE WithinLimits(DOMAIN disk \ undeleted)'
      BY DEF RetentionStep
    <2>1. PICK L : L = DOMAIN disk
      OBVIOUS
    <2>2. L \subseteq DOMAIN disk \ ToDelete
      BY <1>2, <2>1
    <2>3. WithinLimits(L)'
      BY <1>3, <2>2
    <2> QED
      BY <1>1, <2>1, <2>3 DEF WithinLimits, SizeOf, Messages, OlderOf, File
  <1> QED
    BY <1>4, <1>5

\* A pass deletes a file; when it was the last one, what is left was spared.
LEMMA RetentionDelete ==
    ASSUME FileIInv, RetentionIInv, NEW p \in DOMAIN passes, DeleteOldLogFile(p)
    PROVE  RetentionIInv' /\ RetentionStep
  <1>1. TypeOK
    BY DEF FileIInv, OpenIInv
  <1>2. PICK f \in passes[p] :
           /\ \/ disk' = Restrict(disk, DOMAIN disk \ {f}) /\ undeleted' = undeleted
              \/ disk' = disk /\ undeleted' = undeleted \cup {f}
           /\ passes' = IF passes[p] = {f}
                        THEN SubSeq(passes, 1, p - 1) \o SubSeq(passes, p + 1, Len(passes))
                        ELSE [passes EXCEPT ![p] = @ \ {f}]
           /\ UNCHANGED <<files, settings, requested>>
    BY DEF DeleteOldLogFile, archive
  <1>3. /\ UNCHANGED <<files, requested, maximumNumberOfLogFiles, logFilesDiskQuota>>
        /\ DOMAIN disk' \subseteq DOMAIN disk /\ \A g \in DOMAIN disk' : disk'[g] = disk[g]
        /\ DOMAIN disk' \ undeleted' \subseteq (DOMAIN disk \ undeleted) \ {f}
    BY <1>2 DEF settings, Restrict
  <1>4. passes # <<>>
    BY <1>1, SeqElements DEF TypeOK
  <1>5. \A r \in DOMAIN passes : \A g \in passes[r] :
           g = f \/ \E q \in DOMAIN passes' : g \in passes'[q]
    <2>1. passes' = PassesWithout(p, f)
      BY <1>2 DEF PassesWithout
    <2> QED
      BY <1>1, <2>1, DeletionKeepsOthers
  <1>6. ASSUME requested = 0, NEW L, L \subseteq Spared \ undeleted, L \subseteq DOMAIN disk'
        PROVE  WithinLimits(L)'
    <2>1. PICK K : K = Spared \ undeleted
      OBVIOUS
    <2>2. K \subseteq DOMAIN disk /\ WithinLimits(K) /\ L \subseteq K
      BY <1>4, <1>6, <2>1, SparedInDirectory DEF RetentionIInv
    <2>3. \A g \in OlderOf(L) : File(g)'.size = File(g).size
      BY <1>3, <1>6 DEF OlderOf, File
    <2> QED
      BY <1>1, <1>3, <2>2, <2>3, LimitsKept
  <1>7. /\ (Spared \ undeleted)' \subseteq Spared \ undeleted
        /\ (Spared \ undeleted)' \subseteq DOMAIN disk'
    <2> SUFFICES ASSUME NEW g \in (Spared \ undeleted)'
                 PROVE  g \in Spared \ undeleted /\ g \in DOMAIN disk'
      OBVIOUS
    <2>1. g \in DOMAIN disk' /\ g \in DOMAIN disk \ undeleted /\ g # f
      BY <1>3 DEF Spared
    <2>2. ASSUME NEW r \in DOMAIN passes, g \in passes[r] PROVE FALSE
      <3>1. PICK q \in DOMAIN passes' : g \in passes'[q]
        BY <1>5, <2>1, <2>2
      <3> QED
        BY <3>1 DEF Spared
    <2> QED
      BY <2>1, <2>2 DEF Spared
  <1>8. RetentionIInv'
    <2> SUFFICES ASSUME requested = 0 PROVE WithinLimits(Spared \ undeleted)'
      BY <1>3 DEF RetentionIInv
    <2>1. PICK L : L = (Spared \ undeleted)'
      OBVIOUS
    <2>2. WithinLimits(L)'
      BY <1>6, <1>7, <2>1
    <2> QED
      BY <2>1, <2>2 DEF WithinLimits, SizeOf, Messages, OlderOf, File
  <1>9. RetentionStep
    <2> SUFFICES ASSUME requested = 0, passes' = <<>> PROVE WithinLimits(DOMAIN disk \ undeleted)'
      BY <1>3 DEF RetentionStep
    <2>1. PICK L : L = DOMAIN disk' \ undeleted'
      OBVIOUS
    <2>2. DOMAIN passes' = {}
      OBVIOUS
    <2>3. L \subseteq Spared \ undeleted /\ L \subseteq DOMAIN disk'
      BY <1>3, <1>5, <2>1, <2>2 DEF Spared
    <2>4. WithinLimits(L)'
      BY <1>6, <2>1, <2>3
    <2> QED
      BY <2>1, <2>4 DEF WithinLimits, SizeOf, Messages, OlderOf, File
  <1> QED
    BY <1>8, <1>9

LEMMA NextRetention ==
    ASSUME FileIInv, RetentionIInv, [Next]_vars
    PROVE  RetentionIInv' /\ RetentionStep
  <1>1. TypeOK /\ HandleIsInfo
    BY DEF FileIInv, OpenIInv
  <1>2. SameSizes(files)
    BY <1>1 DEF SameSizes, TypeOK
  <1>3. ASSUME UNCHANGED <<files, disk, settings, deletion>>
        PROVE  RetentionIInv' /\ RetentionStep
    BY <1>2, <1>3, RetentionQuiet DEF settings, deletion
  <1>4. ASSUME lt_rollLogFileNow, UNCHANGED <<disk, deletion, maximumNumberOfLogFiles, logFilesDiskQuota>>
        PROVE  RetentionIInv' /\ RetentionStep
    BY <1>2, <1>4, RetentionRoll, RetentionQuiet DEF lt_rollLogFileNow, deletion, archive
  <1>5. ASSUME NEW n, RollDueToAge(n),
               UNCHANGED <<disk, deletion, maximumNumberOfLogFiles, logFilesDiskQuota>>
        PROVE  RetentionIInv' /\ RetentionStep
    BY <1>2, <1>4, <1>5, RetentionQuiet DEF RollDueToAge, deletion, archive
  <1>6. CASE Client
    <2>1. CASE logMessage
      BY <2>1, RetentionWrite DEF logMessage
    <2>2. CASE logMessageFindsFile \/ currentLogFileInfo
      BY <2>2, RetentionFind DEF logMessageFindsFile, currentLogFileInfo
    <2>3. CASE rollLogFile
      BY <1>4, <2>3 DEF rollLogFile, settings
    <2>4. ASSUME NEW n, setMaximumFileSize(n) PROVE RetentionIInv' /\ RetentionStep
      BY <1>2, <2>4, RetentionRoll, RetentionQuiet DEF setMaximumFileSize, deletion, archive
    <2>5. ASSUME NEW n, setRollingFrequency(n) PROVE RetentionIInv' /\ RetentionStep
      BY <1>2, <1>5, <2>5, RetentionQuiet DEF setRollingFrequency, deletion, archive
    <2>6. ASSUME NEW n, setMaximumNumberOfLogFiles(n) \/ setLogFilesDiskQuota(n)
          PROVE  RetentionIInv' /\ RetentionStep
      BY <1>1, <2>6, RetentionDispatch DEF setMaximumNumberOfLogFiles, setLogFilesDiskQuota
    <2>7. CASE lt_cleanup
      BY <1>3, <2>7 DEF lt_cleanup, archive
    <2> QED
      BY <1>6, <2>1, <2>2, <2>3, <2>4, <2>5, <2>6, <2>7 DEF Client
  <1>7. CASE LoggerQueue
    <2>1. CASE OpenLogFile
      BY <1>3, <2>1 DEF OpenLogFile, archive
    <2>2. CASE WatchAndWrite
      BY <1>1, <2>2, RetentionWrite DEF WatchAndWrite, HandleIsInfo
    <2>3. CASE RollingTimerFires
      BY <1>5, <2>3 DEF RollingTimerFires, settings
    <2>4. CASE LogFileWasMoved
      BY <1>4, <2>4 DEF LogFileWasMoved, settings
    <2> QED
      BY <1>7, <2>1, <2>2, <2>3, <2>4 DEF LoggerQueue
  <1>8. CASE DeleteOldLogFiles
    BY <1>8, RetentionStart, RetentionDelete DEF DeleteOldLogFiles
  <1>9. CASE RemovedByOthers
    <2>1. /\ UNCHANGED <<files, requested, passes, undeleted, maximumNumberOfLogFiles, logFilesDiskQuota>>
          /\ DOMAIN disk' \subseteq DOMAIN disk /\ \A f \in DOMAIN disk' : disk'[f] = disk[f]
      BY <1>9 DEF RemovedByOthers, Restrict, settings, deletion, archive
    <2> QED
      BY <1>2, <2>1, RetentionQuiet
  <1>10. CASE Tick \/ SetClockBack
    BY <1>3, <1>10 DEF Tick, SetClockBack, archive
  <1>11. CASE Crash
    <2>1. launches \in Nat /\ launches' = launches + 1 /\ passes' = <<>>
      BY <1>1, <1>11 DEF Crash, TypeOK
    <2> QED
      BY <2>1 DEF RetentionIInv, RetentionStep
  <1>12. CASE UNCHANGED vars
    BY <1>3, <1>12 DEF vars, archive
  <1>13. CASE \E f \in Names : didArchiveLogFile(f)
    BY <1>3, <1>13 DEF didArchiveLogFile
  <1> HIDE DEF RetentionIInv, RetentionStep
  <1> QED
    BY <1>6, <1>7, <1>8, <1>9, <1>10, <1>11, <1>12, <1>13 DEF Next

\* Whatever the logger, the settings and other programs do during the passes: what the
\* last of them spares is within the limits from the moment it listed the files.
THEOREM RetentionInvariance ==
    ASSUME Clock = "apart"
    PROVE  Spec => []RetentionIInv
  <1>1. Init => RetentionIInv
    BY DEF Init, RetentionIInv
  <1>2. FileIInv /\ RetentionIInv /\ [Next]_vars => RetentionIInv'
    BY NextRetention
  <1> QED
    BY <1>1, <1>2, FileInvariance, PTL DEF Spec

\* deleteOldLogFilesWithError: when the last pass ends, maximumNumberOfLogFiles and
\* logFilesDiskQuota are kept, apart from files that could not be deleted.
THEOREM RetentionCorrect ==
    ASSUME Clock = "apart"
    PROVE  Spec => RetentionKept
  <1>1. FileIInv /\ RetentionIInv /\ [Next]_vars => [RetentionStep]_vars
    BY NextRetention
  <1>2. Spec => [][RetentionStep]_vars
    BY <1>1, FileInvariance, RetentionInvariance, PTL DEF Spec
  <1> QED
    BY <1>2, PTL DEF RetentionKept, RetentionStep
=============================================================================
