----------------------- MODULE DDFileLoggerInvariant -----------------------
(***************************************************************************)
(* The inductive invariants behind the safety properties of the file logger. *)
(***************************************************************************)
EXTENDS DDFileLoggerProperties

(* What is open; inductive on its own, however the clock moves.              *)

\* The directory links a file under its own name.
LinksNamed == \A f \in DOMAIN disk : File(f).name = f

\* The current file is not archived.
InfoUnarchived == info # None /\ info \in DOMAIN disk => ~File(info).archived

\* The open file is the current one, and not archived.
HandleIsInfo ==
    /\ handle # None => /\ info # None
                        /\ files[handle].name = info
                        /\ ~files[handle].archived
    /\ stage = "open" => handle = None
    /\ stage = "watch" => handle # None

OpenIInv ==
    /\ TypeOK
    /\ LinksNamed
    /\ InfoUnarchived
    /\ HandleIsInfo

-----------------------------------------------------------------------------
(* Which files there are, and which are complete; inductive when every file  *)
(* is created after the last one by the clock.                               *)

\* Files are created at different times, in this order, and none in the future.
CreationOrder ==
    /\ \A i, j \in DOMAIN files : i < j => files[i].name < files[j].name
    /\ \A i \in DOMAIN files : files[i].name <= now

\* The names that were used so far.
Used == {files[i].name : i \in DOMAIN files}

\* Of the files in the directory only the one created last may not be archived, apart
\* from those where it failed.
LastIsOpen == \A f \in DOMAIN disk \ unmarked : ~File(f).archived => disk[f] = Len(files)

\* No file of the directory is newer than the current one.
InfoIsNewest == info # None => info \in Used /\ \A f \in DOMAIN disk : f <= info

\* The passes only hold names of archived files, apart from those where it failed.
PassesArchived ==
    \A p \in DOMAIN passes : \A f \in passes[p] :
        f \in Used /\ (f \in DOMAIN disk \ unmarked => File(f).archived)

\* A name is announced once it is no longer the current one.
Announcements ==
    /\ \A f \in Names : Calls(f) > 0 => f \in Used
    /\ \A f \in Names \ unmarked :
          /\ Calls(f) <= 1
          /\ f = info => Calls(f) = 0
          /\ f \in DOMAIN disk /\ ~File(f).archived => Calls(f) = 0
    /\ \A f \in DOMAIN disk \ lost : File(f).archived => Calls(f) >= 1

\* All of the above: it holds initially and every step preserves it.
FileIInv ==
    /\ OpenIInv
    /\ CreationOrder
    /\ LastIsOpen
    /\ InfoIsNewest
    /\ PassesArchived
    /\ Announcements

-----------------------------------------------------------------------------
(* What keeps the sources and the size of the open file in order, between    *)
(* the steps of opening it too; inductive relative to OpenIInv.              *)

\* The creation date is that of the current file, if it was read.
CreatedIsInfo == created \in {info, None}

\* Without an open file, and until the file that was opened is watched, there is
\* neither timer nor source.
NoSourcesYet == (handle = None \/ stage = "watch") => timer = None /\ watched = None

\* The date of a file that is open can only be unknown if the file is gone, and so
\* it stays unknown: the timer stands for it.
SourcesSet ==
    Idle /\ handle # None =>
        /\ info \in DOMAIN disk => created = info
        /\ created # None => timer = Schedule(created, rollingFrequency)
        /\ watched \in {handle, None}

SourcesIInv ==
    /\ CreatedIsInfo
    /\ NoSourcesYet
    /\ SourcesSet
    /\ OpenFileHasRoom

-----------------------------------------------------------------------------
(* What the deletion passes have decided; inductive relative to FileIInv.    *)

\* The files that no pass has still to delete.
Spared == DOMAIN disk \ UNION {passes[p] : p \in DOMAIN passes}

\* Once the last pass that was dispatched has listed the files, those it spares are
\* within the limits: only the newest of them, which does not count, still grows.
RetentionIInv == (requested = 0 /\ passes # <<>>) => WithinLimits(Spared \ undeleted)
=============================================================================
