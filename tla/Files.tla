-------------------------------- MODULE Files --------------------------------
(***************************************************************************)
(* The life of one stored file (apps/api/src/modules/files): the upload,   *)
(* FilesService.complete, the FileProcessingProcessor that scans it,       *)
(* removal and restoration, and the OrphanCleanupProcessor, which deletes  *)
(* the objects of uploads that never arrived and of files removed thirty   *)
(* days ago.                                                               *)
(*                                                                         *)
(* The row (file) and the object in the bucket (stored) are changed by     *)
(* different calls, so every action makes at most one of the two.  A call  *)
(* that throws may have had its effect.  Time is the flag aged: the upload *)
(* has expired, or the thirty days are over.  What an object holds is open *)
(* (the presigned address takes a second one), so what complete and the    *)
(* scan find in it is open too.                                            *)
(***************************************************************************)
EXTENDS Integers, FiniteSets

CONSTANTS
  ScanAttempts,  \* attempts of a file.scan-process job (3)
  MaxRemovals,   \* bound: remove calls
  MaxFaults      \* bound: crashes and calls that throw

ASSUME FilesAssumption ==
  ScanAttempts \in Nat \ {0} /\ {MaxRemovals, MaxFaults} \subseteq Nat

VARIABLES
  file,       \* StoredFile.status
  aged,       \* past uploadExpiresAt, or thirty days past deletedAt
  stored,     \* the bucket holds the object
  scan,       \* the file.scan-process job: where it is and the attempts it has made
  completing, \* complete calls that have read a pending row and its object are under way
  restoring,  \* restore has read a removed file and found its object
  cleanup,    \* where the cleanup is with this file
  cutShort,   \* history: a cleanup or a scan has stopped between the object and the row
  withdrawn,  \* history: complete has deleted the object of a file whose scan was on its way
  removals,
  faults

marks == <<cutShort, withdrawn>>
fileVars == <<file, aged, stored, scan, completing, restoring, cleanup, marks, removals>>

FileInit ==
  /\ file = "pending" /\ aged = FALSE /\ stored = FALSE
  /\ scan = [at |-> "none", made |-> 0]
  /\ completing = FALSE /\ restoring = FALSE /\ cleanup = "idle"
  /\ cutShort = FALSE /\ withdrawn = FALSE /\ removals = 0 /\ faults = 0

Fault == faults < MaxFaults /\ faults' = faults + 1

-----------------------------------------------------------------------------
\* The client puts the object at the presigned address.
Upload ==
  /\ file = "pending" /\ ~aged /\ ~stored
  /\ stored' = TRUE /\ withdrawn' = FALSE
  /\ UNCHANGED <<file, aged, scan, completing, restoring, cleanup, cutShort, removals, faults>>

\* complete reads the row, which has to be pending, and the object.
CompleteRead ==
  /\ file = "pending" /\ stored /\ ~completing
  /\ completing' = TRUE
  /\ UNCHANGED <<file, aged, stored, scan, restoring, cleanup, marks, removals, faults>>

\* The call that ends need not be the last one that has read.
CompleteEnds == completing /\ completing' \in BOOLEAN

\* The checksum is the declared one and the job is added; its id is the file's, and one that has
\* run is kept, so a second call adds nothing.
Complete ==
  /\ CompleteEnds
  /\ scan' = IF scan.at = "none" THEN [scan EXCEPT !.at = "waiting"] ELSE scan
  /\ UNCHANGED <<file, aged, stored, restoring, cleanup, marks, removals, faults>>

\* The checksum differs and the object is deleted; the row stays as it is, pending or not.
CompleteWrong ==
  /\ CompleteEnds
  /\ stored' = FALSE
  /\ withdrawn' = (withdrawn \/ scan.at # "none")
  /\ UNCHANGED <<file, aged, scan, restoring, cleanup, cutShort, removals, faults>>

-----------------------------------------------------------------------------
ScanGoes(at) == scan' = [scan EXCEPT !.at = at]
ScanThrew ==
  scan' = [at |-> IF scan.made + 1 < ScanAttempts THEN "waiting" ELSE "ended", made |-> scan.made + 1]

\* process: reads the object, or throws without it.
ScanRead ==
  /\ scan.at = "waiting"
  /\ IF stored THEN ScanGoes("read") ELSE ScanThrew
  /\ UNCHANGED <<file, aged, stored, completing, restoring, cleanup, marks, removals, faults>>

\* The worker application serves a queue of the same name and fails the job at once: its
\* data is not the envelope of the job contract.
ScanTaken ==
  /\ scan.at = "waiting"
  /\ ScanGoes("ended")
  /\ UNCHANGED <<file, aged, stored, completing, restoring, cleanup, marks, removals, faults>>

\* The detected type is not allowed or the scanner objects: first the object goes.
ScanRejects ==
  /\ scan.at = "read"
  /\ stored' = FALSE
  /\ ScanGoes("quarantine")
  /\ UNCHANGED <<file, aged, completing, restoring, cleanup, marks, removals, faults>>

\* The row is written whatever its status is; a wrong type throws after it.
Quarantine(throws) ==
  /\ scan.at = "quarantine"
  /\ file' = "quarantined"
  /\ IF throws THEN ScanThrew ELSE ScanGoes("ended")
  /\ UNCHANGED <<aged, stored, completing, restoring, cleanup, marks, removals, faults>>

\* The file is accepted; only a pending row becomes active.
Accept ==
  /\ scan.at = "read"
  /\ file' = IF file = "pending" THEN "active" ELSE file
  /\ aged' = IF file = "pending" THEN FALSE ELSE aged
  /\ UNCHANGED <<stored, completing, restoring, cleanup, marks, removals>>

ScanFinish == Accept /\ ScanGoes("ended") /\ UNCHANGED faults

\* The answer of that update is lost: the job fails and scans an active file again.
ScanUnheard == Accept /\ ScanThrew /\ Fault

\* The worker dies, and the stalled job is taken again from its start, or a call throws.
ScanBreaks ==
  /\ scan.at \in {"read", "quarantine"} /\ Fault
  /\ ScanGoes("waiting") \/ ScanThrew
  /\ cutShort' = (cutShort \/ scan.at = "quarantine")
  /\ UNCHANGED <<file, aged, stored, completing, restoring, cleanup, withdrawn, removals>>

-----------------------------------------------------------------------------
\* remove: a file nothing refers to is taken out of use (the references are left out).
Remove ==
  /\ file = "active" /\ removals < MaxRemovals
  /\ removals' = removals + 1
  /\ file' = "deleted"
  /\ UNCHANGED <<aged, stored, scan, completing, restoring, cleanup, marks, faults>>

\* restore checks the status, the thirty days and the object, then writes.
RestoreRead ==
  /\ file = "deleted" /\ ~aged /\ stored /\ ~restoring
  /\ restoring' = TRUE
  /\ UNCHANGED <<file, aged, stored, scan, completing, cleanup, marks, removals, faults>>

RestoreWrite ==
  /\ restoring
  /\ restoring' = FALSE
  /\ file' = IF file = "deleted" THEN "active" ELSE file
  /\ aged' = IF file = "deleted" THEN FALSE ELSE aged
  /\ UNCHANGED <<stored, scan, completing, cleanup, marks, removals, faults>>

\* Fifteen minutes pass over an upload, thirty days over a removed file.
Ages ==
  /\ file \in {"pending", "deleted"} /\ ~aged
  /\ aged' = TRUE
  /\ UNCHANGED <<file, stored, scan, completing, restoring, cleanup, marks, removals, faults>>

-----------------------------------------------------------------------------
\* The hourly cleanup lists the orphans first and comes to this one later.
Orphan == file \in {"pending", "deleted"} /\ aged

CleanupList ==
  /\ cleanup = "idle" /\ Orphan
  /\ cleanup' = "delete"
  /\ UNCHANGED <<file, aged, stored, scan, completing, restoring, marks, removals, faults>>

CleanupDelete ==
  /\ cleanup = "delete"
  /\ stored' = FALSE
  /\ cleanup' = "mark"
  /\ UNCHANGED <<file, aged, scan, completing, restoring, marks, removals, faults>>

\* Mutant of CleanupMark: only a row that is still an orphan is marked.
CleanupMarkOrphan ==
  /\ cleanup = "mark"
  /\ file' = IF file \in {"pending", "deleted"} THEN "failed" ELSE file
  /\ cleanup' = "idle"
  /\ UNCHANGED <<aged, stored, scan, completing, restoring, marks, removals, faults>>

\* markPurged does not look at the status.
CleanupMark ==
  /\ cleanup = "mark"
  /\ file' = "failed"
  /\ cleanup' = "idle"
  /\ UNCHANGED <<aged, stored, scan, completing, restoring, marks, removals, faults>>

\* It dies or a call throws: its job lists the orphans anew.
CleanupDies ==
  /\ cleanup # "idle" /\ Fault
  /\ cleanup' = "idle"
  /\ cutShort' = (cutShort \/ cleanup = "mark")
  /\ UNCHANGED <<file, aged, stored, scan, completing, restoring, withdrawn, removals>>

FileNext ==
  \/ Upload \/ CompleteRead \/ Complete \/ CompleteWrong
  \/ ScanRead \/ ScanTaken \/ ScanRejects \/ ScanFinish \/ ScanUnheard \/ ScanBreaks
  \/ \E throws \in BOOLEAN : Quarantine(throws)
  \/ Remove \/ RestoreRead \/ RestoreWrite
  \/ Ages \/ CleanupList \/ CleanupDelete \/ CleanupMark \/ CleanupDies

-----------------------------------------------------------------------------
\* A file offered for download has its object.  The cleanup does not look at the row again before
\* it deletes and marks, so a scan or a restoration can make the row active after the object has
\* gone: then the cleanup still has to mark the row, unless it stopped on the way.  A scan repeated
\* after its answer was lost has still to quarantine what it rejects, with the same exception.  And
\* complete deletes the object of a file whose scan is under way or done.
ActiveHasObject ==
  file = "active" /\ ~stored =>
    cleanup = "mark" \/ scan.at = "quarantine" \/ cutShort \/ withdrawn

FileTypeOK ==
  /\ file \in {"pending", "active", "quarantined", "deleted", "failed"}
  /\ scan \in [at : {"none", "waiting", "read", "quarantine", "ended"}, made : Nat]
  /\ cleanup \in {"idle", "delete", "mark"}
  /\ {aged, stored, completing, restoring, cutShort, withdrawn} \subseteq BOOLEAN
  /\ removals \in 0 .. MaxRemovals /\ faults \in 0 .. MaxFaults

\* What makes it inductive: a file in use has been sent to the scan, and a pending one whose scan
\* has read its object can only lose it in the same ways.
FilesInv ==
  /\ file \in {"active", "deleted"} => scan.at # "none"
  /\ file \in {"active", "deleted"} \/ (file = "pending" /\ scan.at = "read") =>
       stored \/ cleanup = "mark" \/ scan.at = "quarantine" \/ cutShort \/ withdrawn
=============================================================================
