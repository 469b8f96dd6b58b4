-------------------------- MODULE DataTransferProofs --------------------------
(***************************************************************************)
(* Proofs about DataTransfer and Files, for any number of transfers, rows  *)
(* and attempts, any limits of the workspace and any bound on removals and *)
(* faults.                                                                 *)
(*                                                                         *)
(* A step is a step of one transfer or of the file, so IInv speaks of each *)
(* transfer alone: where its job is says what has become of the transfer,  *)
(* and what the job has counted agrees with what it has written.           *)
(***************************************************************************)
EXTENDS DataTransfer, TLAPS

USE FilesAssumption, TransferAssumption

----------------------------------------------------------------------------
(* The file *)

LEMMA FileInitInv == FileInit => FileTypeOK /\ FilesInv
  <1>1. FileInit => {aged, stored, completing, restoring, cutShort, withdrawn} \subseteq BOOLEAN
    BY DEF FileInit
  <1>2. FileInit => FilesInv
    BY DEF FileInit, FilesInv
  <1> QED
    BY <1>1, <1>2 DEF FileInit, FileTypeOK

LEMMA FileNextType ==
  ASSUME FileTypeOK, FileNext
  PROVE  FileTypeOK'
  <1>1. /\ file' \in {"pending", "active", "quarantined", "deleted", "failed"}
        /\ cleanup' \in {"idle", "delete", "mark"}
    BY DEF FileTypeOK, FileNext, Upload, CompleteRead, CompleteEnds, Complete, CompleteWrong, ScanRead,
       ScanTaken, ScanRejects, Accept, ScanFinish, ScanUnheard, ScanBreaks, Quarantine, Remove, RestoreRead,
       RestoreWrite, Ages, CleanupList, CleanupDelete, CleanupMark, CleanupDies
  <1>2. scan' \in [at : {"none", "waiting", "read", "quarantine", "ended"}, made : Nat]
    <2>1. scan' = scan \/ ScanThrew \/ \E at \in {"waiting", "read", "quarantine", "ended"} : ScanGoes(at)
      BY DEF FileNext, Upload, CompleteRead, CompleteEnds, Complete, CompleteWrong, ScanRead,
         ScanTaken, ScanRejects, Accept, ScanFinish, ScanUnheard, ScanBreaks, Quarantine, Remove, RestoreRead,
         RestoreWrite, Ages, CleanupList, CleanupDelete, CleanupMark, CleanupDies, ScanGoes
    <2> QED
      BY <2>1 DEF FileTypeOK, ScanGoes, ScanThrew
  <1>3. removals' \in 0 .. MaxRemovals /\ faults' \in 0 .. MaxFaults
    <2>1. removals' = removals \/ (removals < MaxRemovals /\ removals' = removals + 1)
      BY DEF FileNext, Upload, CompleteRead, CompleteEnds, Complete, CompleteWrong, ScanRead,
         ScanTaken, ScanRejects, Accept, ScanFinish, ScanUnheard, ScanBreaks, Quarantine, Remove, RestoreRead,
         RestoreWrite, Ages, CleanupList, CleanupDelete, CleanupMark, CleanupDies
    <2>2. faults' = faults \/ (faults < MaxFaults /\ faults' = faults + 1)
      BY DEF FileNext, Upload, CompleteRead, CompleteEnds, Complete, CompleteWrong, ScanRead,
         ScanTaken, ScanRejects, Accept, ScanFinish, ScanUnheard, ScanBreaks, Quarantine, Remove, RestoreRead,
         RestoreWrite, Ages, CleanupList, CleanupDelete, CleanupMark, CleanupDies,
         Fault
    <2> QED
      BY <2>1, <2>2 DEF FileTypeOK
  <1>4. {aged', stored', completing', restoring', cutShort', withdrawn'} \subseteq BOOLEAN
    <2>1. {aged, stored, completing, restoring, cutShort, withdrawn} \subseteq BOOLEAN
      BY DEF FileTypeOK
    <2>2. aged' \in BOOLEAN /\ stored' \in BOOLEAN
      BY <2>1, Zenon DEF FileNext, Upload, CompleteRead, CompleteEnds, Complete, CompleteWrong, ScanRead,
         ScanTaken, ScanRejects, Accept, ScanFinish, ScanUnheard, ScanBreaks, Quarantine, Remove, RestoreRead,
         RestoreWrite, Ages, CleanupList, CleanupDelete, CleanupMark, CleanupDies
    <2>3. completing' \in BOOLEAN /\ restoring' \in BOOLEAN
      BY <2>1, Zenon DEF FileNext, Upload, CompleteRead, CompleteEnds, Complete, CompleteWrong, ScanRead,
         ScanTaken, ScanRejects, Accept, ScanFinish, ScanUnheard, ScanBreaks, Quarantine, Remove, RestoreRead,
         RestoreWrite, Ages, CleanupList, CleanupDelete, CleanupMark, CleanupDies
    <2>4. cutShort' \in BOOLEAN /\ withdrawn' \in BOOLEAN
      BY <2>1, Zenon DEF FileNext, Upload, CompleteRead, CompleteEnds, Complete, CompleteWrong, ScanRead,
         ScanTaken, ScanRejects, Accept, ScanFinish, ScanUnheard, ScanBreaks, Quarantine, Remove, RestoreRead,
         RestoreWrite, Ages, CleanupList, CleanupDelete, CleanupMark, CleanupDies,
         marks
    <2> QED
      BY <2>2, <2>3, <2>4
  <1> QED
    BY <1>1, <1>2, <1>3, <1>4 DEF FileTypeOK

LEMMA FileNextInv ==
  ASSUME FileTypeOK, FilesInv, FileNext
  PROVE  FilesInv'
  <1>1. scan \in [at : {"none", "waiting", "read", "quarantine", "ended"}, made : Nat]
    BY DEF FileTypeOK
  <1>2. CASE Upload \/ CompleteRead \/ Complete \/ CompleteWrong
    BY <1>1, <1>2 DEF FilesInv, Upload, CompleteRead, CompleteEnds, Complete, CompleteWrong, marks
  <1>3. CASE ScanRead
    BY <1>1, <1>3 DEF FilesInv, ScanRead, ScanGoes, ScanThrew, marks
  <1>4. CASE ScanTaken \/ ScanRejects
    BY <1>1, <1>4 DEF FilesInv, ScanTaken, ScanRejects, ScanGoes, marks
  <1>5. CASE ScanFinish \/ ScanUnheard \/ ScanBreaks
    <2>1. scan'.at \in {"waiting", "ended"}
      <3>1. ScanThrew \/ \E at \in {"waiting", "ended"} : ScanGoes(at)
        BY <1>5 DEF ScanFinish, ScanUnheard, ScanBreaks
      <3> QED
        BY <1>1, <3>1 DEF ScanGoes, ScanThrew
    <2>2. CASE Accept
      BY <2>1, <2>2 DEF FilesInv, Accept, marks
    <2>3. CASE ScanBreaks
      <3>1. /\ file' = file /\ stored' = stored /\ cleanup' = cleanup /\ withdrawn' = withdrawn
            /\ scan.at \in {"read", "quarantine"} /\ cutShort' = (cutShort \/ scan.at = "quarantine")
        BY <2>3 DEF ScanBreaks
      <3> QED
        BY <2>1, <3>1 DEF FilesInv
    <2> QED
      BY <1>5, <2>2, <2>3 DEF ScanFinish, ScanUnheard
  <1>6. CASE \E throws \in BOOLEAN : Quarantine(throws)
    BY <1>1, <1>6 DEF FilesInv, Quarantine
  <1>7. CASE Remove \/ RestoreRead \/ RestoreWrite \/ Ages
    BY <1>7 DEF FilesInv, Remove, RestoreRead, RestoreWrite, Ages, marks
  <1>8. CASE CleanupList \/ CleanupDelete \/ CleanupMark \/ CleanupDies
    BY <1>8 DEF FilesInv, CleanupList, CleanupDelete, CleanupMark, CleanupDies, marks
  <1> QED
    BY <1>2, <1>3, <1>4, <1>5, <1>6, <1>7, <1>8 DEF FileNext

----------------------------------------------------------------------------
(* The jobs *)

(* The places a job takes outside of process(). *)
LEMMA JobsAre ==
  ASSUME TransfersOK, NEW t \in Transfers
  PROVE  /\ NoJob \in Job /\ NoJob.state = "none" /\ NoJob.at = "none"
         /\ Ended \in Job /\ Ended.state = "done" /\ Ended.at = "none"
         /\ Waits(t) \in Job /\ Waits(t).state = "waiting" /\ Waits(t).at = "none"
         /\ Waits(t).made = job[t].made /\ Waits(t).stalls = job[t].stalls
         /\ Waits(t).row = 0 /\ Waits(t).ok = 0 /\ Waits(t).rest = 0
  <1>1. NoJob \in Job
    BY DEF NoJob, Job
  <1>2. job[t].made \in Nat /\ job[t].stalls \in Nat
    BY DEF TransfersOK, Job
  <1> QED
    BY <1>1, <1>2 DEF NoJob, Job, Ended, Waits

(* A job that has begun is at the first row and has counted nothing. *)
LEMMA BeginsIs ==
  ASSUME TransfersOK, NEW t \in Transfers, NEW at \in {"claim", "open"}, Begins(t, at)
  PROVE  /\ job' \in [Transfers -> Job] /\ \A u \in Transfers : u # t => job'[u] = job[u]
         /\ job'[t].state = "active" /\ job'[t].at = at
         /\ job'[t].row = 1 /\ job'[t].ok = 0 /\ job'[t].rest = 0
  <1> DEFINE j == [Waits(t) EXCEPT !.state = "active", !.at = at, !.row = 1]
  <1>1. j \in Job /\ j.state = "active" /\ j.at = at /\ j.row = 1 /\ j.ok = 0 /\ j.rest = 0
    BY JobsAre DEF Job
  <1>2. job' = [job EXCEPT ![t] = j] /\ job \in [Transfers -> Job]
    BY DEF Begins, TransfersOK
  <1> HIDE DEF j
  <1> QED
    BY <1>1, <1>2

(* A job that leaves process(), by its end, an error or the death of its worker. *)
Leaves(t) == JobEnds(t) \/ JobThrew(t) \/ \E j \in {Ended, [Waits(t) EXCEPT !.stalls = @ + 1]} : job' = [job EXCEPT ![t] = j]

LEMMA LeavesIs ==
  ASSUME TransfersOK, NEW t \in Transfers, Leaves(t)
  PROVE  /\ job' \in [Transfers -> Job] /\ \A u \in Transfers : u # t => job'[u] = job[u]
         /\ job'[t].state \in {"waiting", "done"} /\ job'[t].at = "none"
  <1> DEFINE again == [Waits(t) EXCEPT !.made = @ + 1]
             stalled == [Waits(t) EXCEPT !.stalls = @ + 1]
  <1>1. again \in Job /\ again.state = "waiting" /\ again.at = "none"
    BY JobsAre DEF Job
  <1>2. stalled \in Job /\ stalled.state = "waiting" /\ stalled.at = "none"
    BY JobsAre DEF Job
  <1>3. job \in [Transfers -> Job]
    BY DEF TransfersOK
  <1>4. \E j \in {Ended, again, stalled} : job' = [job EXCEPT ![t] = j]
    BY DEF Leaves, JobEnds, JobThrew
  <1> HIDE DEF again, stalled
  <1> QED
    BY <1>1, <1>2, <1>3, <1>4, JobsAre

(* A job that goes on. *)
LEMMA GoesIs ==
  ASSUME TransfersOK, NEW t \in Transfers, NEW at \in {"row", "write", "after"}, Goes(t, at)
  PROVE  /\ job' \in [Transfers -> Job] /\ \A u \in Transfers : u # t => job'[u] = job[u]
         /\ job'[t].state = job[t].state /\ job'[t].at = at
         /\ job'[t].row = job[t].row /\ job'[t].ok = job[t].ok /\ job'[t].rest = job[t].rest
  <1> DEFINE j == [job[t] EXCEPT !.at = at]
  <1>1. j \in Job /\ j.state = job[t].state /\ j.at = at /\ j.row = job[t].row /\ j.ok = job[t].ok /\ j.rest = job[t].rest
    <2>1. job[t] \in Job
      BY DEF TransfersOK
    <2> QED
      BY <2>1 DEF Job
  <1>2. job' = [job EXCEPT ![t] = j] /\ job \in [Transfers -> Job]
    BY DEF Goes, TransfersOK
  <1> HIDE DEF j
  <1> QED
    BY <1>1, <1>2

(* A job that has counted its row: it goes to the next one, or to the end. *)
LEMMA CountsIs ==
  ASSUME TransfersOK, NEW t \in Transfers, NEW ok \in Nat, NEW rest \in Nat,
         \/ ok = 0 /\ job' = [job EXCEPT ![t] = [NextRow(t) EXCEPT !.rest = @ + rest]]
         \/ rest = 0 /\ job' = [job EXCEPT ![t] = [NextRow(t) EXCEPT !.ok = @ + ok]]
  PROVE  /\ job' \in [Transfers -> Job] /\ \A u \in Transfers : u # t => job'[u] = job[u]
         /\ job'[t].state = job[t].state
         /\ job'[t].at = IF job[t].row < Rows THEN "row" ELSE "finish"
         /\ job'[t].row = job[t].row + 1
         /\ job'[t].ok = job[t].ok + ok /\ job'[t].rest = job[t].rest + rest
  <1> DEFINE at == IF job[t].row < Rows THEN "row" ELSE "finish"
             n == NextRow(t)
             j1 == [n EXCEPT !.rest = @ + rest]
             j2 == [n EXCEPT !.ok = @ + ok]
  <1>1. job[t] \in Job /\ job \in [Transfers -> Job] /\ at \in {"row", "finish"}
    BY DEF TransfersOK
  <1>2. n = [job[t] EXCEPT !.at = at, !.row = @ + 1]
    BY DEF NextRow
  <1>3. \/ ok = 0 /\ job' = [job EXCEPT ![t] = j1]
        \/ rest = 0 /\ job' = [job EXCEPT ![t] = j2]
    BY Zenon
  <1> HIDE DEF at, n
  <1>4. /\ n \in Job /\ n.state = job[t].state /\ n.at = at /\ n.row = job[t].row + 1
        /\ n.ok = job[t].ok /\ n.rest = job[t].rest
    <2> DEFINE n1 == [job[t] EXCEPT !.at = at]
    <2>1. /\ n1 \in Job /\ n1.state = job[t].state /\ n1.at = at /\ n1.row = job[t].row
          /\ n1.ok = job[t].ok /\ n1.rest = job[t].rest
      BY <1>1 DEF Job
    <2>2. n = [n1 EXCEPT !.row = @ + 1]
      BY <1>2
    <2> HIDE DEF n1
    <2> QED
      BY <2>1, <2>2 DEF Job
  <1>5. /\ j1 \in Job /\ j1.state = n.state /\ j1.at = n.at /\ j1.row = n.row
        /\ j1.ok = n.ok /\ j1.rest = n.rest + rest
    BY <1>4 DEF Job
  <1>6. /\ j2 \in Job /\ j2.state = n.state /\ j2.at = n.at /\ j2.row = n.row
        /\ j2.ok = n.ok + ok /\ j2.rest = n.rest
    BY <1>4 DEF Job
  <1> HIDE DEF j1, j2
  <1>7. job[t].ok \in Nat /\ job[t].rest \in Nat
    BY <1>1 DEF Job
  <1>8. CASE job' = [job EXCEPT ![t] = j1] /\ ok = 0
    <2>1. job' \in [Transfers -> Job] /\ job'[t] = j1 /\ \A u \in Transfers : u # t => job'[u] = job[u]
      BY <1>1, <1>5, <1>8
    <2> QED
      BY <1>4, <1>5, <1>7, <1>8, <2>1 DEF at
  <1>9. CASE job' = [job EXCEPT ![t] = j2] /\ rest = 0
    <2>1. job' \in [Transfers -> Job] /\ job'[t] = j2 /\ \A u \in Transfers : u # t => job'[u] = job[u]
      BY <1>1, <1>6, <1>9
    <2> QED
      BY <1>4, <1>6, <1>7, <1>9, <2>1 DEF at
  <1> QED
    BY <1>3, <1>8, <1>9

LEMMA CountsOk ==
  ASSUME TransfersOK, NEW t \in Transfers, NEW ok \in Nat,
         job' = [job EXCEPT ![t] = [NextRow(t) EXCEPT !.ok = @ + ok]]
  PROVE  /\ job' \in [Transfers -> Job] /\ \A u \in Transfers : u # t => job'[u] = job[u]
         /\ job'[t].state = job[t].state /\ job'[t].row = job[t].row + 1
         /\ job'[t].at = IF job[t].row < Rows THEN "row" ELSE "finish"
         /\ job'[t].ok = job[t].ok + ok /\ job'[t].rest = job[t].rest + 0
  <1> DEFINE none == 0
  <1>1. none \in Nat /\ none = 0
    OBVIOUS
  <1> HIDE DEF none
  <1> QED
    BY <1>1, CountsIs

LEMMA CountsRest ==
  ASSUME TransfersOK, NEW t \in Transfers, NEW rest \in Nat,
         job' = [job EXCEPT ![t] = [NextRow(t) EXCEPT !.rest = @ + rest]]
  PROVE  /\ job' \in [Transfers -> Job] /\ \A u \in Transfers : u # t => job'[u] = job[u]
         /\ job'[t].state = job[t].state /\ job'[t].row = job[t].row + 1
         /\ job'[t].at = IF job[t].row < Rows THEN "row" ELSE "finish"
         /\ job'[t].ok = job[t].ok + 0 /\ job'[t].rest = job[t].rest + rest
  <1> DEFINE none == 0
  <1>1. none \in Nat /\ none = 0
    OBVIOUS
  <1> HIDE DEF none
  <1> QED
    BY <1>1, CountsIs

(* The transfer's document after an update of its status, with or without a report. *)
LEMMA StatusIs ==
  ASSUME TransfersOK, NEW t \in Transfers, NEW status \in Live \union Closed, SetStatus(t, status)
  PROVE  /\ transfer' \in [Transfers -> Record] /\ \A u \in Transfers : u # t => transfer'[u] = transfer[u]
         /\ transfer'[t].status = status /\ transfer'[t].kind = transfer[t].kind
         /\ transfer'[t].dryRun = transfer[t].dryRun
         /\ transfer'[t].cancelled = transfer[t].cancelled /\ transfer'[t].report = transfer[t].report
  <1> DEFINE x == [transfer[t] EXCEPT !.status = status]
  <1>1. transfer[t] \in Record /\ transfer \in [Transfers -> Record]
    BY DEF TransfersOK
  <1>2. /\ x \in Record /\ x.status = status /\ x.kind = transfer[t].kind /\ x.dryRun = transfer[t].dryRun
        /\ x.cancelled = transfer[t].cancelled /\ x.report = transfer[t].report
    BY <1>1 DEF Record
  <1>3. transfer' = [transfer EXCEPT ![t] = x]
    BY <1>1 DEF SetStatus
  <1> HIDE DEF x
  <1> QED
    BY <1>1, <1>2, <1>3

LEMMA SettleIs ==
  ASSUME TransfersOK, NEW t \in Transfers, NEW status \in Closed, NEW report \in [ok : Nat, rest : Nat],
         Settle(t, status, report)
  PROVE  /\ transfer' \in [Transfers -> Record] /\ \A u \in Transfers : u # t => transfer'[u] = transfer[u]
         /\ transfer'[t].kind = transfer[t].kind /\ transfer'[t].cancelled = transfer[t].cancelled
         /\ transfer'[t].dryRun = transfer[t].dryRun
         /\ IF Settles(t, status) THEN transfer'[t].status = status /\ transfer'[t].report = report
            ELSE transfer'[t] = transfer[t]
  <1> DEFINE x == [transfer[t] EXCEPT !.status = status, !.report = report]
  <1>1. transfer[t] \in Record /\ transfer \in [Transfers -> Record]
    BY DEF TransfersOK
  <1>2. /\ x \in Record /\ x.status = status /\ x.kind = transfer[t].kind /\ x.dryRun = transfer[t].dryRun
        /\ x.cancelled = transfer[t].cancelled /\ x.report = report
    BY <1>1 DEF Record
  <1>3. CASE Settles(t, status)
    <2>1. transfer' = [transfer EXCEPT ![t] = x]
      BY <1>1, <1>3 DEF Settle
    <2> HIDE DEF x
    <2> QED
      BY <1>1, <1>2, <1>3, <2>1
  <1>4. CASE ~Settles(t, status)
    BY <1>1, <1>4 DEF Settle
  <1> QED
    BY <1>3, <1>4

----------------------------------------------------------------------------
(* A step of one transfer *)

Same(u) ==
  /\ transfer'[u] = transfer[u] /\ request'[u] = request[u] /\ job'[u] = job[u]
  /\ written'[u] = written[u] /\ causes'[u] = causes[u] /\ late'[u] = late[u] /\ torn'[u] = torn[u]

LEMMA OneTransfer ==
  ASSUME IInv, NEW t \in Transfers, UNCHANGED fileVars, faults' = faults \/ Fault,
         TransfersOK', \A u \in Transfers : u # t => Same(u), TransferInv(t)'
  PROVE  IInv'
  <1>1. FileTypeOK'
    BY DEF IInv, TypeOK, FileTypeOK, fileVars, marks, Fault
  <1>2. FilesInv'
    BY DEF IInv, FilesInv, fileVars, marks
  <1>3. ASSUME NEW u \in Transfers, u # t
        PROVE  TransferInv(u)'
    <2>1. Same(u) /\ TransferInv(u)
      BY <1>3 DEF IInv
    <2>2. LifeInv(u)' /\ LateInv(u)'
      BY <2>1 DEF Same, TransferInv, LifeInv, LateInv, Working, Untouched, At
    <2>3. CountsInv(u)'
      BY <2>1 DEF Same, TransferInv, CountsInv, Tallies, Untouched, At
    <2>4. Attended(u)' /\ Reported(u)'
      BY <2>1 DEF Same, TransferInv, Attended, Reported, Tallies, Working, At
    <2> QED
      BY <2>2, <2>3, <2>4 DEF TransferInv
  <1> QED
    BY <1>1, <1>2, <1>3 DEF IInv, TypeOK

LEMMA StartStep ==
  ASSUME IInv, NEW t \in Transfers, Start(t)
  PROVE  IInv'
  <1>1. TransfersOK /\ TransferInv(t)
    BY DEF IInv, TypeOK
  <1>2. /\ transfer[t].status = "draft" /\ request[t] = "idle" /\ SetStatus(t, "queued")
        /\ request' = [request EXCEPT ![t] = "enqueue"]
        /\ UNCHANGED <<fileVars, job, written, active, causes, late, torn, faults>>
    BY DEF Start
  <1>3. /\ transfer' \in [Transfers -> Record] /\ \A u \in Transfers : u # t => transfer'[u] = transfer[u]
        /\ transfer'[t].status = "queued" /\ transfer'[t].kind = transfer[t].kind
        /\ transfer'[t].dryRun = transfer[t].dryRun
        /\ transfer'[t].cancelled = transfer[t].cancelled /\ transfer'[t].report = transfer[t].report
    BY <1>1, <1>2, StatusIs DEF Live
  <1>4. request'[t] = "enqueue"
    BY <1>1, <1>2 DEF TransfersOK
  <1>5. TransferInv(t)'
    BY <1>1, <1>2, <1>3, <1>4 DEF TransferInv, LifeInv, CountsInv, LateInv, Attended, Reported, Tallies,
       Working, Untouched, At, Closed
  <1>6. TransfersOK' /\ \A u \in Transfers : u # t => Same(u)
    BY <1>1, <1>2, <1>3 DEF TransfersOK, Same
  <1> QED
    BY <1>2, <1>5, <1>6, OneTransfer

LEMMA CountStep ==
  ASSUME IInv, NEW t \in Transfers, Count(t)
  PROVE  IInv'
  <1>1. TransfersOK /\ TransferInv(t)
    BY DEF IInv, TypeOK
  <1>2. /\ request[t] = "idle" /\ transfer[t].status = "absent"
        /\ request' = [request EXCEPT ![t] = "create"]
        /\ UNCHANGED <<fileVars, transfer, job, written, active, causes, late, torn, faults>>
    BY DEF Count
  <1>3. request'[t] = "create"
    BY <1>1, <1>2 DEF TransfersOK
  <1>4. TransferInv(t)'
    <2>1. LifeInv(t)'
      BY <1>1, <1>2, <1>3
         DEF TransferInv, LifeInv, CountsInv, Tallies, Working, Untouched, At, Live, Closed
    <2>2. CountsInv(t)'
      BY <1>1, <1>2, <1>3
         DEF TransferInv, LifeInv, CountsInv, Tallies, Working, Untouched, At
    <2>3. LateInv(t)'
      BY <1>1, <1>2, <1>3
         DEF TransferInv, LifeInv, LateInv, At
    <2>4. Attended(t)'
      BY <1>1, <1>2, <1>3
         DEF TransferInv, LifeInv, Attended, Working, At, Closed
    <2>5. Reported(t)'
      BY <1>1, <1>2, <1>3
         DEF TransferInv, LifeInv, CountsInv, Reported, Tallies, Working, At
    <2> QED
      BY <2>1, <2>2, <2>3, <2>4, <2>5 DEF TransferInv
  <1>5. TransfersOK' /\ \A u \in Transfers : u # t => Same(u)
    BY <1>1, <1>2, <1>3 DEF TransfersOK, Same
  <1> QED
    BY <1>1, <1>2, <1>3, <1>4, <1>5, OneTransfer

LEMMA CreateStep ==
  ASSUME IInv, NEW t \in Transfers, NEW kind \in Kinds, NEW dryRun \in BOOLEAN, Create(t, kind, dryRun)
  PROVE  IInv'
  <1>1. TransfersOK /\ TransferInv(t)
    BY DEF IInv, TypeOK
  <1>2. /\ request[t] = "create" /\ request' = [request EXCEPT ![t] = "idle"]
        /\ transfer' = [transfer EXCEPT ![t] = [transfer[t] EXCEPT !.kind = kind, !.dryRun = dryRun, !.status = "draft"]]
        /\ UNCHANGED <<fileVars, job, written, active, causes, late, torn, faults>>
    BY <1>1 DEF Create, TransfersOK
  <1>3. request'[t] = "idle"
    BY <1>1, <1>2 DEF TransfersOK
  <1>4. /\ transfer' \in [Transfers -> Record] /\ \A u \in Transfers : u # t => transfer'[u] = transfer[u]
        /\ transfer'[t].status = "draft" /\ transfer'[t].cancelled = transfer[t].cancelled
    <2> DEFINE x == [transfer[t] EXCEPT !.kind = kind, !.dryRun = dryRun, !.status = "draft"]
    <2>1. transfer[t] \in Record /\ transfer \in [Transfers -> Record]
      BY <1>1 DEF TransfersOK
    <2>2. x \in Record /\ x.status = "draft" /\ x.cancelled = transfer[t].cancelled
      BY <2>1 DEF Record, Live
    <2>3. transfer' = [transfer EXCEPT ![t] = x]
      BY <1>2
    <2> HIDE DEF x
    <2> QED
      BY <2>1, <2>2, <2>3
  <1>5. TransferInv(t)'
    <2>1. LifeInv(t)'
      BY <1>1, <1>2, <1>3, <1>4
         DEF TransferInv, LifeInv, CountsInv, Tallies, Working, Untouched, At, Live, Closed
    <2>2. CountsInv(t)'
      BY <1>1, <1>2, <1>3, <1>4
         DEF TransferInv, LifeInv, CountsInv, Tallies, Working, Untouched, At
    <2>3. LateInv(t)'
      BY <1>1, <1>2, <1>3, <1>4
         DEF TransferInv, LifeInv, LateInv, At
    <2>4. Attended(t)'
      BY <1>1, <1>2, <1>3, <1>4
         DEF TransferInv, LifeInv, Attended, Working, At, Closed
    <2>5. Reported(t)'
      BY <1>1, <1>2, <1>3, <1>4
         DEF TransferInv, LifeInv, CountsInv, Reported, Tallies, Working, At
    <2> QED
      BY <2>1, <2>2, <2>3, <2>4, <2>5 DEF TransferInv
  <1>6. TransfersOK' /\ \A u \in Transfers : u # t => Same(u)
    BY <1>1, <1>2, <1>3, <1>4 DEF TransfersOK, Same
  <1> QED
    BY <1>1, <1>2, <1>3, <1>4, <1>5, <1>6, OneTransfer

LEMMA ConfigureStep ==
  ASSUME IInv, NEW t \in Transfers, Configure(t)
  PROVE  IInv'
  <1>1. TransfersOK /\ TransferInv(t)
    BY DEF IInv, TypeOK
  <1>2. /\ transfer[t].status = "draft"
        /\ transfer' = [transfer EXCEPT ![t] = [transfer[t] EXCEPT !.dryRun = ~@]]
        /\ UNCHANGED <<fileVars, request, job, written, active, causes, late, torn, faults>>
    BY <1>1 DEF Configure, TransfersOK
  <1>3. /\ transfer' \in [Transfers -> Record] /\ \A u \in Transfers : u # t => transfer'[u] = transfer[u]
        /\ transfer'[t].status = "draft" /\ transfer'[t].cancelled = transfer[t].cancelled
    <2> DEFINE x == [transfer[t] EXCEPT !.dryRun = ~@]
    <2>1. transfer[t] \in Record /\ transfer \in [Transfers -> Record]
      BY <1>1 DEF TransfersOK
    <2>2. x \in Record /\ x.status = "draft" /\ x.cancelled = transfer[t].cancelled
      BY <1>2, <2>1 DEF Record, Live
    <2>3. transfer' = [transfer EXCEPT ![t] = x]
      BY <1>2
    <2> HIDE DEF x
    <2> QED
      BY <2>1, <2>2, <2>3
  <1>4. TransferInv(t)'
    <2>1. LifeInv(t)'
      BY <1>1, <1>2, <1>3
         DEF TransferInv, LifeInv, CountsInv, Tallies, Working, Untouched, At, Live, Closed
    <2>2. CountsInv(t)'
      BY <1>1, <1>2, <1>3
         DEF TransferInv, LifeInv, CountsInv, Tallies, Working, Untouched, At
    <2>3. LateInv(t)'
      BY <1>1, <1>2, <1>3
         DEF TransferInv, LifeInv, LateInv, At
    <2>4. Attended(t)'
      BY <1>1, <1>2, <1>3
         DEF TransferInv, LifeInv, Attended, Working, At, Closed
    <2>5. Reported(t)'
      BY <1>1, <1>2, <1>3
         DEF TransferInv, LifeInv, CountsInv, Reported, Tallies, Working, At
    <2> QED
      BY <2>1, <2>2, <2>3, <2>4, <2>5 DEF TransferInv
  <1>5. TransfersOK' /\ \A u \in Transfers : u # t => Same(u)
    BY <1>1, <1>2, <1>3 DEF TransfersOK, Same
  <1> QED
    BY <1>1, <1>2, <1>3, <1>4, <1>5, OneTransfer

LEMMA EnqueueStep ==
  ASSUME IInv, NEW t \in Transfers, Enqueue(t)
  PROVE  IInv'
  <1>1. TransfersOK /\ TransferInv(t)
    BY DEF IInv, TypeOK
  <1>2. /\ request[t] = "enqueue" /\ request' = [request EXCEPT ![t] = "idle"]
        /\ job' = [job EXCEPT ![t].state = "waiting"]
        /\ UNCHANGED <<fileVars, transfer, written, active, causes, late, torn, faults>>
    BY DEF Enqueue
  <1>3. request'[t] = "idle"
    BY <1>1, <1>2 DEF TransfersOK
  <1>4. /\ job' \in [Transfers -> Job] /\ \A u \in Transfers : u # t => job'[u] = job[u]
        /\ job'[t].state = "waiting"
    <2> DEFINE j == [job[t] EXCEPT !.state = "waiting"]
    <2>1. job[t] \in Job /\ job \in [Transfers -> Job]
      BY <1>1 DEF TransfersOK
    <2>2. j \in Job /\ j.state = "waiting"
      BY <2>1 DEF Job
    <2>3. job' = [job EXCEPT ![t] = j]
      BY <1>2, <2>1
    <2> HIDE DEF j
    <2> QED
      BY <2>1, <2>2, <2>3
  <1>5. TransferInv(t)'
    <2>1. LifeInv(t)'
      BY <1>1, <1>2, <1>3, <1>4
         DEF TransferInv, LifeInv, CountsInv, Tallies, Working, Untouched, At, Live, Closed
    <2>2. CountsInv(t)'
      BY <1>1, <1>2, <1>3, <1>4
         DEF TransferInv, LifeInv, CountsInv, Tallies, Working, Untouched, At
    <2>3. LateInv(t)'
      BY <1>1, <1>2, <1>3, <1>4
         DEF TransferInv, LifeInv, LateInv, At
    <2>4. Attended(t)'
      BY <1>1, <1>2, <1>3, <1>4
         DEF TransferInv, LifeInv, Attended, Working, At, Closed
    <2>5. Reported(t)'
      BY <1>1, <1>2, <1>3, <1>4
         DEF TransferInv, LifeInv, CountsInv, Reported, Tallies, Working, At
    <2> QED
      BY <2>1, <2>2, <2>3, <2>4, <2>5 DEF TransferInv
  <1>6. TransfersOK' /\ \A u \in Transfers : u # t => Same(u)
    BY <1>1, <1>2, <1>3, <1>4 DEF TransfersOK, Same
  <1> QED
    BY <1>1, <1>2, <1>3, <1>4, <1>5, <1>6, OneTransfer

LEMMA EnqueueLostStep ==
  ASSUME IInv, NEW t \in Transfers, EnqueueLost(t)
  PROVE  IInv'
  <1>1. TransfersOK /\ TransferInv(t)
    BY DEF IInv, TypeOK
  <1>2. /\ request[t] = "enqueue" /\ request' = [request EXCEPT ![t] = "idle"] /\ Fault
        /\ causes' = [causes EXCEPT ![t] = @ \union {"enqueue lost"}]
        /\ UNCHANGED <<fileVars, transfer, job, written, active, late, torn>>
    BY DEF EnqueueLost
  <1>3. request'[t] = "idle"
    BY <1>1, <1>2 DEF TransfersOK
  <1>4. causes' \in [Transfers -> SUBSET Causes] /\ causes'[t] = causes[t] \union {"enqueue lost"}
        /\ \A u \in Transfers : u # t => causes'[u] = causes[u]
    BY <1>1, <1>2 DEF TransfersOK, Causes, Cause
  <1>5. TransferInv(t)'
    <2>1. LifeInv(t)'
      BY <1>1, <1>2, <1>3, <1>4
         DEF TransferInv, LifeInv, CountsInv, Tallies, Working, Untouched, At, Live, Closed
    <2>2. CountsInv(t)'
      BY <1>1, <1>2, <1>3, <1>4
         DEF TransferInv, LifeInv, CountsInv, Tallies, Working, Untouched, At
    <2>3. LateInv(t)'
      BY <1>1, <1>2, <1>3, <1>4
         DEF TransferInv, LifeInv, LateInv, At
    <2>4. Attended(t)'
      BY <1>1, <1>2, <1>3, <1>4
         DEF TransferInv, LifeInv, Attended, Working, At, Closed
    <2>5. Reported(t)'
      BY <1>1, <1>2, <1>3, <1>4
         DEF TransferInv, LifeInv, CountsInv, Reported, Tallies, Working, At
    <2> QED
      BY <2>1, <2>2, <2>3, <2>4, <2>5 DEF TransferInv
  <1>6. TransfersOK' /\ \A u \in Transfers : u # t => Same(u)
    BY <1>1, <1>2, <1>3, <1>4 DEF TransfersOK, Same
  <1> QED
    BY <1>1, <1>2, <1>3, <1>4, <1>5, <1>6, OneTransfer

LEMMA CancelStep ==
  ASSUME IInv, NEW t \in Transfers, Cancel(t)
  PROVE  IInv'
  <1>1. TransfersOK /\ TransferInv(t)
    BY DEF IInv, TypeOK
  <1>2. /\ transfer[t].status \in Live /\ ~transfer[t].cancelled
        /\ transfer' = [transfer EXCEPT ![t] = [transfer[t] EXCEPT !.status = "cancelled", !.cancelled = TRUE]]
        /\ UNCHANGED <<fileVars, request, job, written, active, causes, late, torn, faults>>
    BY <1>1 DEF Cancel, TransfersOK, TransferInv, LifeInv, Live, Closed
  <1>3. /\ transfer' \in [Transfers -> Record] /\ \A u \in Transfers : u # t => transfer'[u] = transfer[u]
        /\ transfer'[t].status = "cancelled" /\ transfer'[t].cancelled
        /\ transfer'[t].kind = transfer[t].kind /\ transfer'[t].dryRun = transfer[t].dryRun
    <2> DEFINE x == [transfer[t] EXCEPT !.status = "cancelled", !.cancelled = TRUE]
    <2>1. transfer[t] \in Record /\ transfer \in [Transfers -> Record]
      BY <1>1 DEF TransfersOK
    <2>2. x \in Record /\ x.status = "cancelled" /\ x.cancelled /\ x.kind = transfer[t].kind
          /\ x.dryRun = transfer[t].dryRun
      BY <2>1 DEF Record, Closed
    <2>3. transfer' = [transfer EXCEPT ![t] = x]
      BY <1>2
    <2> HIDE DEF x
    <2> QED
      BY <2>1, <2>2, <2>3
  <1>4. late[t] = 0
    BY <1>1, <1>2 DEF TransfersOK, TransferInv, LateInv
  <1>5. TransferInv(t)'
    <2>1. LifeInv(t)'
      BY <1>1, <1>2, <1>3, <1>4
         DEF TransferInv, LifeInv, CountsInv, Tallies, Working, Untouched, At, Live, Closed, Live
    <2>2. CountsInv(t)'
      BY <1>1, <1>2, <1>3, <1>4
         DEF TransferInv, LifeInv, CountsInv, Tallies, Working, Untouched, At, Live
    <2>3. LateInv(t)'
      BY <1>1, <1>2, <1>3, <1>4
         DEF TransferInv, LifeInv, LateInv, At, Live
    <2>4. Attended(t)'
      BY <1>1, <1>2, <1>3, <1>4
         DEF TransferInv, LifeInv, Attended, Working, At, Closed, Live
    <2>5. Reported(t)'
      BY <1>1, <1>2, <1>3, <1>4
         DEF TransferInv, LifeInv, CountsInv, Reported, Tallies, Working, At, Live
    <2> QED
      BY <2>1, <2>2, <2>3, <2>4, <2>5 DEF TransferInv
  <1>6. TransfersOK' /\ \A u \in Transfers : u # t => Same(u)
    BY <1>1, <1>2, <1>3, <1>4 DEF TransfersOK, Same
  <1> QED
    BY <1>1, <1>2, <1>3, <1>4, <1>5, <1>6, OneTransfer

LEMMA RefuseStep ==
  ASSUME IInv, NEW t \in Transfers, Refuse(t)
  PROVE  IInv'
  <1>1. TransfersOK /\ TransferInv(t)
    BY DEF IInv, TypeOK
  <1>2. /\ job[t].state = "waiting" /\ JobEnds(t) /\ Cause(t, "refused")
        /\ UNCHANGED <<fileVars, transfer, request, written, active, late, torn, faults>>
    BY DEF Refuse
  <1>3. /\ job' \in [Transfers -> Job] /\ \A u \in Transfers : u # t => job'[u] = job[u]
        /\ job'[t].state \in {"waiting", "done"} /\ job'[t].at = "none"
    BY <1>1, <1>2, LeavesIs DEF Leaves
  <1>4. causes' \in [Transfers -> SUBSET Causes] /\ causes'[t] = causes[t] \union {"refused"}
        /\ \A u \in Transfers : u # t => causes'[u] = causes[u]
    BY <1>1, <1>2 DEF TransfersOK, Causes, Cause
  <1>5. TransferInv(t)'
    <2>1. LifeInv(t)'
      BY <1>1, <1>2, <1>3, <1>4
         DEF TransferInv, LifeInv, CountsInv, Tallies, Working, Untouched, At, Live, Closed
    <2>2. CountsInv(t)'
      BY <1>1, <1>2, <1>3, <1>4
         DEF TransferInv, LifeInv, CountsInv, Tallies, Working, Untouched, At
    <2>3. LateInv(t)'
      BY <1>1, <1>2, <1>3, <1>4
         DEF TransferInv, LifeInv, LateInv, At
    <2>4. Attended(t)'
      BY <1>1, <1>2, <1>3, <1>4
         DEF TransferInv, LifeInv, Attended, Working, At, Closed
    <2>5. Reported(t)'
      BY <1>1, <1>2, <1>3, <1>4
         DEF TransferInv, LifeInv, CountsInv, Reported, Tallies, Working, At
    <2> QED
      BY <2>1, <2>2, <2>3, <2>4, <2>5 DEF TransferInv
  <1>6. TransfersOK' /\ \A u \in Transfers : u # t => Same(u)
    BY <1>1, <1>2, <1>3, <1>4 DEF TransfersOK, Same
  <1> QED
    BY <1>1, <1>2, <1>3, <1>4, <1>5, <1>6, OneTransfer

(* ExecutionGuard.execute and claim *)

LEMMA AgainIs ==
  ASSUME TransfersOK, NEW t \in Transfers, JobThrew(t), ~LastAttempt(t)
  PROVE  job'[t].state = "waiting"
  <1> DEFINE j == [Waits(t) EXCEPT !.made = @ + 1]
  <1>1. j.state = "waiting"
    BY JobsAre DEF Job
  <1>2. job \in [Transfers -> Job]
    BY DEF TransfersOK
  <1>3. job' = [job EXCEPT ![t] = j]
    BY DEF JobThrew
  <1> HIDE DEF j
  <1> QED
    BY <1>1, <1>2, <1>3

LEMMA AttemptsIs ==
  ASSUME TransfersOK, NEW t \in Transfers,
         IF LastAttempt(t) THEN Cause(t, "attempts") ELSE causes' = causes
  PROVE  /\ causes' \in [Transfers -> SUBSET Causes] /\ causes[t] \subseteq causes'[t]
         /\ \A u \in Transfers : u # t => causes'[u] = causes[u]
         /\ LastAttempt(t) => "attempts" \in causes'[t]
  <1>1. CASE LastAttempt(t)
    <2>1. Cause(t, "attempts")
      BY <1>1
    <2> QED
      BY <2>1 DEF TransfersOK, Causes, Cause
  <1>2. CASE ~LastAttempt(t)
    BY <1>2 DEF TransfersOK
  <1> QED
    BY <1>1, <1>2

LEMMA ReleasesIs ==
  ASSUME TransfersOK, NEW t \in Transfers, Releases(t)
  PROVE  active' \in Int
  BY DEF TransfersOK, Releases

LEMMA GuardBeginsStep ==
  ASSUME IInv, NEW t \in Transfers, Guard(t), active < GuardLimit
  PROVE  IInv'
  <1>1. TransfersOK /\ TransferInv(t)
    BY DEF IInv, TypeOK
  <1>2. /\ job[t].state = "waiting" /\ Begins(t, "claim") /\ active' = active + 1
        /\ UNCHANGED <<fileVars, transfer, request, written, causes, late, torn, faults>>
    BY DEF Guard
  <1>3. /\ job' \in [Transfers -> Job] /\ \A u \in Transfers : u # t => job'[u] = job[u]
        /\ job'[t].state = "active" /\ job'[t].at = "claim"
        /\ job'[t].row = 1 /\ job'[t].ok = 0 /\ job'[t].rest = 0
    BY <1>1, <1>2, BeginsIs
  <1>4. active' \in Int
    BY <1>1, <1>2, <1>3 DEF TransfersOK
  <1>5. TransferInv(t)'
    <2>1. LifeInv(t)'
      BY <1>1, <1>2, <1>3, <1>4
         DEF TransferInv, LifeInv, CountsInv, Tallies, Working, Untouched, At, Live, Closed
    <2>2. CountsInv(t)'
      BY <1>1, <1>2, <1>3, <1>4
         DEF TransferInv, LifeInv, CountsInv, Tallies, Working, Untouched, At
    <2>3. LateInv(t)'
      BY <1>1, <1>2, <1>3, <1>4
         DEF TransferInv, LifeInv, LateInv, At
    <2>4. Attended(t)'
      BY <1>1, <1>2, <1>3, <1>4
         DEF TransferInv, LifeInv, Attended, Working, At, Closed
    <2>5. Reported(t)'
      BY <1>1, <1>2, <1>3, <1>4
         DEF TransferInv, LifeInv, CountsInv, Reported, Tallies, Working, At
    <2> QED
      BY <2>1, <2>2, <2>3, <2>4, <2>5 DEF TransferInv
  <1>6. TransfersOK' /\ \A u \in Transfers : u # t => Same(u)
    BY <1>1, <1>2, <1>3, <1>4 DEF TransfersOK, Same
  <1> QED
    BY <1>1, <1>2, <1>3, <1>4, <1>5, <1>6, OneTransfer

LEMMA GuardRefusesStep ==
  ASSUME IInv, NEW t \in Transfers, Guard(t), ~(active < GuardLimit)
  PROVE  IInv'
  <1>1. TransfersOK /\ TransferInv(t)
    BY DEF IInv, TypeOK
  <1>2. /\ job[t].state = "waiting" /\ JobThrew(t)
        /\ IF LastAttempt(t) THEN Cause(t, "attempts") ELSE causes' = causes
        /\ UNCHANGED <<fileVars, transfer, request, written, late, torn, faults, active>>
    BY DEF Guard
  <1>3. /\ job' \in [Transfers -> Job] /\ \A u \in Transfers : u # t => job'[u] = job[u]
        /\ job'[t].state \in {"waiting", "done"} /\ job'[t].at = "none"
    BY <1>1, <1>2, LeavesIs DEF Leaves
  <1>4. ~LastAttempt(t) => job'[t].state = "waiting"
    BY <1>1, <1>2, AgainIs
  <1>5. /\ causes' \in [Transfers -> SUBSET Causes] /\ causes[t] \subseteq causes'[t]
        /\ \A u \in Transfers : u # t => causes'[u] = causes[u]
        /\ LastAttempt(t) => "attempts" \in causes'[t]
    BY <1>1, <1>2, AttemptsIs
  <1>6. TransferInv(t)'
    <2>1. LifeInv(t)'
      BY <1>1, <1>2, <1>3, <1>4, <1>5
         DEF TransferInv, LifeInv, CountsInv, Tallies, Working, Untouched, At, Live, Closed
    <2>2. CountsInv(t)'
      BY <1>1, <1>2, <1>3, <1>4, <1>5
         DEF TransferInv, LifeInv, CountsInv, Tallies, Working, Untouched, At
    <2>3. LateInv(t)'
      BY <1>1, <1>2, <1>3, <1>4, <1>5
         DEF TransferInv, LifeInv, LateInv, At
    <2>4. Attended(t)'
      BY <1>1, <1>2, <1>3, <1>4, <1>5
         DEF TransferInv, LifeInv, Attended, Working, At, Closed
    <2>5. Reported(t)'
      BY <1>1, <1>2, <1>3, <1>4, <1>5
         DEF TransferInv, LifeInv, CountsInv, Reported, Tallies, Working, At
    <2> QED
      BY <2>1, <2>2, <2>3, <2>4, <2>5 DEF TransferInv
  <1>7. TransfersOK' /\ \A u \in Transfers : u # t => Same(u)
    BY <1>1, <1>2, <1>3, <1>4, <1>5 DEF TransfersOK, Same
  <1> QED
    BY <1>1, <1>2, <1>3, <1>4, <1>5, <1>6, <1>7, OneTransfer

LEMMA ClaimsStep ==
  ASSUME IInv, NEW t \in Transfers, Claim(t), transfer[t].status = "queued", ~transfer[t].cancelled
  PROVE  IInv'
  <1>1. TransfersOK /\ TransferInv(t)
    BY DEF IInv, TypeOK
  <1>2. /\ Begins(t, "open") /\ SetStatus(t, "running") /\ job[t].state # "none"
        /\ UNCHANGED <<fileVars, request, written, active, causes, late, torn, faults>>
    BY DEF Claim, At
  <1>3. /\ job' \in [Transfers -> Job] /\ \A u \in Transfers : u # t => job'[u] = job[u]
        /\ job'[t].state = "active" /\ job'[t].at = "open"
        /\ job'[t].row = 1 /\ job'[t].ok = 0 /\ job'[t].rest = 0
    BY <1>1, <1>2, BeginsIs
  <1>4. /\ transfer' \in [Transfers -> Record] /\ \A u \in Transfers : u # t => transfer'[u] = transfer[u]
        /\ transfer'[t].status = "running" /\ transfer'[t].kind = transfer[t].kind
        /\ transfer'[t].dryRun = transfer[t].dryRun
        /\ transfer'[t].cancelled = transfer[t].cancelled /\ transfer'[t].report = transfer[t].report
    BY <1>1, <1>2, StatusIs DEF Live, Closed
  <1>5. TransferInv(t)'
    <2>1. LifeInv(t)'
      BY <1>1, <1>2, <1>3, <1>4
         DEF TransferInv, LifeInv, CountsInv, Tallies, Working, Untouched, At, Live, Closed
    <2>2. CountsInv(t)'
      BY <1>1, <1>2, <1>3, <1>4
         DEF TransferInv, LifeInv, CountsInv, Tallies, Working, Untouched, At
    <2>3. LateInv(t)'
      BY <1>1, <1>2, <1>3, <1>4
         DEF TransferInv, LifeInv, LateInv, At
    <2>4. Attended(t)'
      BY <1>1, <1>2, <1>3, <1>4
         DEF TransferInv, LifeInv, Attended, Working, At, Closed
    <2>5. Reported(t)'
      BY <1>1, <1>2, <1>3, <1>4
         DEF TransferInv, LifeInv, CountsInv, Reported, Tallies, Working, At
    <2> QED
      BY <2>1, <2>2, <2>3, <2>4, <2>5 DEF TransferInv
  <1>6. TransfersOK' /\ \A u \in Transfers : u # t => Same(u)
    BY <1>1, <1>2, <1>3, <1>4 DEF TransfersOK, Same
  <1> QED
    BY <1>1, <1>2, <1>3, <1>4, <1>5, <1>6, OneTransfer

LEMMA ClaimsNothingStep ==
  ASSUME IInv, NEW t \in Transfers, Claim(t), ~(transfer[t].status = "queued" /\ ~transfer[t].cancelled)
  PROVE  IInv'
  <1>1. TransfersOK /\ TransferInv(t)
    BY DEF IInv, TypeOK
  <1>2. /\ JobEnds(t) /\ Releases(t) /\ ~Working(t) /\ job[t].state # "none"
        /\ UNCHANGED <<fileVars, transfer, request, written, causes, late, torn, faults>>
    BY DEF Claim, At, Working
  <1>3. /\ job' \in [Transfers -> Job] /\ \A u \in Transfers : u # t => job'[u] = job[u]
        /\ job'[t].state \in {"waiting", "done"} /\ job'[t].at = "none"
    BY <1>1, <1>2, LeavesIs DEF Leaves
  <1>4. active' \in Int
    BY <1>1, <1>2, <1>3 DEF TransfersOK, Releases
  <1>5. TransferInv(t)'
    <2>1. LifeInv(t)'
      BY <1>1, <1>2, <1>3, <1>4
         DEF TransferInv, LifeInv, CountsInv, Tallies, Working, Untouched, At, Live, Closed
    <2>2. CountsInv(t)'
      BY <1>1, <1>2, <1>3, <1>4
         DEF TransferInv, LifeInv, CountsInv, Tallies, Working, Untouched, At
    <2>3. LateInv(t)'
      BY <1>1, <1>2, <1>3, <1>4
         DEF TransferInv, LifeInv, LateInv, At
    <2>4. Attended(t)'
      BY <1>1, <1>2, <1>3, <1>4
         DEF TransferInv, LifeInv, Attended, Working, At, Closed
    <2>5. Reported(t)'
      BY <1>1, <1>2, <1>3, <1>4
         DEF TransferInv, LifeInv, CountsInv, Reported, Tallies, Working, At
    <2> QED
      BY <2>1, <2>2, <2>3, <2>4, <2>5 DEF TransferInv
  <1>6. TransfersOK' /\ \A u \in Transfers : u # t => Same(u)
    BY <1>1, <1>2, <1>3, <1>4 DEF TransfersOK, Same
  <1> QED
    BY <1>1, <1>2, <1>3, <1>4, <1>5, <1>6, OneTransfer

LEMMA ClaimThrowsStep ==
  ASSUME IInv, NEW t \in Transfers, ClaimThrows(t)
  PROVE  IInv'
  <1>1. TransfersOK /\ TransferInv(t)
    BY DEF IInv, TypeOK
  <1>2. /\ ~Working(t) /\ job[t].state # "none" /\ JobThrew(t) /\ Releases(t) /\ Fault
        /\ IF LastAttempt(t) THEN Cause(t, "attempts") ELSE causes' = causes
        /\ UNCHANGED <<fileVars, transfer, request, written, late, torn>>
    BY DEF ClaimThrows, At, Working
  <1>3. /\ job' \in [Transfers -> Job] /\ \A u \in Transfers : u # t => job'[u] = job[u]
        /\ job'[t].state \in {"waiting", "done"} /\ job'[t].at = "none"
    BY <1>1, <1>2, LeavesIs DEF Leaves
  <1>4. ~LastAttempt(t) => job'[t].state = "waiting"
    BY <1>1, <1>2, AgainIs
  <1>5. /\ causes' \in [Transfers -> SUBSET Causes] /\ causes[t] \subseteq causes'[t]
        /\ \A u \in Transfers : u # t => causes'[u] = causes[u]
        /\ LastAttempt(t) => "attempts" \in causes'[t]
    BY <1>1, <1>2, AttemptsIs
  <1>6. active' \in Int
    BY <1>1, <1>2, ReleasesIs
  <1>7. TransferInv(t)'
    <2>1. LifeInv(t)'
      BY <1>1, <1>2, <1>3, <1>4, <1>5, <1>6
         DEF TransferInv, LifeInv, CountsInv, Tallies, Working, Untouched, At, Live, Closed
    <2>2. CountsInv(t)'
      BY <1>1, <1>2, <1>3, <1>4, <1>5, <1>6
         DEF TransferInv, LifeInv, CountsInv, Tallies, Working, Untouched, At
    <2>3. LateInv(t)'
      BY <1>1, <1>2, <1>3, <1>4, <1>5, <1>6
         DEF TransferInv, LifeInv, LateInv, At
    <2>4. Attended(t)'
      BY <1>1, <1>2, <1>3, <1>4, <1>5, <1>6
         DEF TransferInv, LifeInv, Attended, Working, At, Closed
    <2>5. Reported(t)'
      BY <1>1, <1>2, <1>3, <1>4, <1>5, <1>6
         DEF TransferInv, LifeInv, CountsInv, Reported, Tallies, Working, At
    <2> QED
      BY <2>1, <2>2, <2>3, <2>4, <2>5 DEF TransferInv
  <1>8. TransfersOK' /\ \A u \in Transfers : u # t => Same(u)
    BY <1>1, <1>2, <1>3, <1>4, <1>5, <1>6 DEF TransfersOK, Same
  <1> QED
    BY <1>1, <1>2, <1>3, <1>4, <1>5, <1>6, <1>7, <1>8, OneTransfer

(* The source is opened, and the transfer asked for a cancellation before every row *)

LEMMA OpenStep ==
  ASSUME IInv, NEW t \in Transfers, Open(t)
  PROVE  IInv'
  <1>1. TransfersOK /\ TransferInv(t)
    BY DEF IInv, TypeOK
  <1>2. /\ At(t, "open") /\ Goes(t, "row")
        /\ UNCHANGED <<fileVars, transfer, request, written, active, causes, late, torn, faults>>
    BY DEF Open
  <1>3. /\ job' \in [Transfers -> Job] /\ \A u \in Transfers : u # t => job'[u] = job[u]
        /\ job'[t].state = job[t].state /\ job'[t].at = "row" /\ job'[t].row = job[t].row
        /\ job'[t].ok = job[t].ok /\ job'[t].rest = job[t].rest
    BY <1>1, <1>2, GoesIs
  <1>4. 1 \in 1 .. Rows
    OBVIOUS
  <1>5. TransferInv(t)'
    <2>1. LifeInv(t)'
      BY <1>1, <1>2, <1>3, <1>4
         DEF TransferInv, LifeInv, CountsInv, Tallies, Working, Untouched, At, Live, Closed
    <2>2. CountsInv(t)'
      BY <1>1, <1>2, <1>3, <1>4
         DEF TransferInv, LifeInv, CountsInv, Tallies, Working, Untouched, At
    <2>3. LateInv(t)'
      BY <1>1, <1>2, <1>3, <1>4
         DEF TransferInv, LifeInv, LateInv, At
    <2>4. Attended(t)'
      BY <1>1, <1>2, <1>3, <1>4
         DEF TransferInv, LifeInv, Attended, Working, At, Closed
    <2>5. Reported(t)'
      BY <1>1, <1>2, <1>3, <1>4
         DEF TransferInv, LifeInv, CountsInv, Reported, Tallies, Working, At
    <2> QED
      BY <2>1, <2>2, <2>3, <2>4, <2>5 DEF TransferInv
  <1>6. TransfersOK' /\ \A u \in Transfers : u # t => Same(u)
    BY <1>1, <1>2, <1>3, <1>4 DEF TransfersOK, Same
  <1> QED
    BY <1>1, <1>2, <1>3, <1>4, <1>5, <1>6, OneTransfer

LEMMA OpenThrowsStep ==
  ASSUME IInv, NEW t \in Transfers, OpenThrows(t)
  PROVE  IInv'
  <1>1. TransfersOK /\ TransferInv(t)
    BY DEF IInv, TypeOK
  <1>2. /\ At(t, "open") /\ JobThrew(t) /\ Releases(t) /\ Cause(t, "not opened")
        /\ UNCHANGED <<fileVars, transfer, request, written, late, torn>>
    BY DEF OpenThrows
  <1>3. faults' = faults \/ Fault
    BY DEF OpenThrows
  <1>4. /\ job' \in [Transfers -> Job] /\ \A u \in Transfers : u # t => job'[u] = job[u]
        /\ job'[t].state \in {"waiting", "done"} /\ job'[t].at = "none"
    BY <1>1, <1>2, LeavesIs DEF Leaves
  <1>5. active' \in Int
    <2>1. Releases(t) /\ active \in Int
      BY <1>1, <1>2 DEF TransfersOK
    <2> QED
      BY <2>1 DEF Releases
  <1>6. causes' \in [Transfers -> SUBSET Causes] /\ causes'[t] = causes[t] \union {"not opened"}
        /\ \A u \in Transfers : u # t => causes'[u] = causes[u]
    BY <1>1, <1>2 DEF TransfersOK, Causes, Cause
  <1>7. TransferInv(t)'
    <2>1. LifeInv(t)'
      BY <1>1, <1>2, <1>4, <1>5, <1>6
         DEF TransferInv, LifeInv, CountsInv, Tallies, Working, Untouched, At, Live, Closed
    <2>2. CountsInv(t)'
      BY <1>1, <1>2, <1>4, <1>5, <1>6
         DEF TransferInv, LifeInv, CountsInv, Tallies, Working, Untouched, At
    <2>3. LateInv(t)'
      BY <1>1, <1>2, <1>4, <1>5, <1>6
         DEF TransferInv, LifeInv, LateInv, At
    <2>4. Attended(t)'
      BY <1>1, <1>2, <1>4, <1>5, <1>6
         DEF TransferInv, LifeInv, Attended, Working, At, Closed
    <2>5. Reported(t)'
      BY <1>1, <1>2, <1>4, <1>5, <1>6
         DEF TransferInv, LifeInv, CountsInv, Reported, Tallies, Working, At
    <2> QED
      BY <2>1, <2>2, <2>3, <2>4, <2>5 DEF TransferInv
  <1>8. TransfersOK' /\ \A u \in Transfers : u # t => Same(u)
    BY <1>1, <1>2, <1>4, <1>5, <1>6 DEF TransfersOK, Same
  <1> QED
    BY <1>1, <1>2, <1>4, <1>5, <1>6, <1>3, <1>7, <1>8, OneTransfer

LEMMA CheckRowStep ==
  ASSUME IInv, NEW t \in Transfers, CheckRow(t)
  PROVE  IInv'
  <1>1. TransfersOK /\ TransferInv(t)
    BY DEF IInv, TypeOK
  <1>2. /\ At(t, "row") /\ ~transfer[t].cancelled /\ Goes(t, "write")
        /\ UNCHANGED <<fileVars, transfer, request, written, active, causes, late, torn, faults>>
    BY DEF CheckRow, MustStop
  <1>3. /\ job' \in [Transfers -> Job] /\ \A u \in Transfers : u # t => job'[u] = job[u]
        /\ job'[t].state = job[t].state /\ job'[t].at = "write" /\ job'[t].row = job[t].row
        /\ job'[t].ok = job[t].ok /\ job'[t].rest = job[t].rest
    BY <1>1, <1>2, GoesIs
  <1>4. TransferInv(t)'
    <2>1. LifeInv(t)'
      BY <1>1, <1>2, <1>3
         DEF TransferInv, LifeInv, CountsInv, Tallies, Working, Untouched, At, Live, Closed
    <2>2. CountsInv(t)'
      BY <1>1, <1>2, <1>3
         DEF TransferInv, LifeInv, CountsInv, Tallies, Working, Untouched, At
    <2>3. LateInv(t)'
      BY <1>1, <1>2, <1>3
         DEF TransferInv, LifeInv, LateInv, At
    <2>4. Attended(t)'
      BY <1>1, <1>2, <1>3
         DEF TransferInv, LifeInv, Attended, Working, At, Closed
    <2>5. Reported(t)'
      BY <1>1, <1>2, <1>3
         DEF TransferInv, LifeInv, CountsInv, Reported, Tallies, Working, At
    <2> QED
      BY <2>1, <2>2, <2>3, <2>4, <2>5 DEF TransferInv
  <1>5. TransfersOK' /\ \A u \in Transfers : u # t => Same(u)
    BY <1>1, <1>2, <1>3 DEF TransfersOK, Same
  <1> QED
    BY <1>1, <1>2, <1>3, <1>4, <1>5, OneTransfer

LEMMA StopContactsStep ==
  ASSUME IInv, NEW t \in Transfers, Stop(t), Contacts(t)
  PROVE  IInv'
  <1>1. TransfersOK /\ TransferInv(t)
    BY DEF IInv, TypeOK
  <1>2. /\ At(t, "row") /\ SetStatus(t, "cancelled") /\ JobEnds(t) /\ Releases(t)
        /\ UNCHANGED <<fileVars, request, written, causes, late, torn, faults>>
    BY DEF Stop
  <1>3. /\ job' \in [Transfers -> Job] /\ \A u \in Transfers : u # t => job'[u] = job[u]
        /\ job'[t].state \in {"waiting", "done"} /\ job'[t].at = "none"
    BY <1>1, <1>2, LeavesIs DEF Leaves
  <1>4. /\ transfer' \in [Transfers -> Record] /\ \A u \in Transfers : u # t => transfer'[u] = transfer[u]
        /\ transfer'[t].status = "cancelled" /\ transfer'[t].kind = transfer[t].kind
        /\ transfer'[t].dryRun = transfer[t].dryRun
        /\ transfer'[t].cancelled = transfer[t].cancelled /\ transfer'[t].report = transfer[t].report
    BY <1>1, <1>2, StatusIs DEF Live, Closed
  <1>5. active' \in Int
    BY <1>1, <1>2, <1>3, <1>4 DEF TransfersOK, Releases
  <1>6. TransferInv(t)'
    <2>1. LifeInv(t)'
      BY <1>1, <1>2, <1>3, <1>4, <1>5
         DEF TransferInv, LifeInv, CountsInv, Tallies, Working, Untouched, At, Live, Closed
    <2>2. CountsInv(t)'
      BY <1>1, <1>2, <1>3, <1>4, <1>5
         DEF TransferInv, LifeInv, CountsInv, Tallies, Working, Untouched, At
    <2>3. LateInv(t)'
      BY <1>1, <1>2, <1>3, <1>4, <1>5
         DEF TransferInv, LifeInv, LateInv, At
    <2>4. Attended(t)'
      BY <1>1, <1>2, <1>3, <1>4, <1>5
         DEF TransferInv, LifeInv, Attended, Working, At, Closed
    <2>5. Reported(t)'
      BY <1>1, <1>2, <1>3, <1>4, <1>5
         DEF TransferInv, LifeInv, CountsInv, Reported, Tallies, Working, At
    <2> QED
      BY <2>1, <2>2, <2>3, <2>4, <2>5 DEF TransferInv
  <1>7. TransfersOK' /\ \A u \in Transfers : u # t => Same(u)
    BY <1>1, <1>2, <1>3, <1>4, <1>5 DEF TransfersOK, Same
  <1> QED
    BY <1>1, <1>2, <1>3, <1>4, <1>5, <1>6, <1>7, OneTransfer

LEMMA StopOthersStep ==
  ASSUME IInv, NEW t \in Transfers, Stop(t), ~Contacts(t)
  PROVE  IInv'
  <1>1. TransfersOK /\ TransferInv(t)
    BY DEF IInv, TypeOK
  <1>2. /\ At(t, "row") /\ transfer[t].cancelled /\ JobEnds(t) /\ Releases(t) /\ UNCHANGED <<fileVars, transfer, request, written, causes, late, torn, faults>>
    BY DEF Stop, MustStop
  <1>3. /\ job' \in [Transfers -> Job] /\ \A u \in Transfers : u # t => job'[u] = job[u]
        /\ job'[t].state \in {"waiting", "done"} /\ job'[t].at = "none"
    BY <1>1, <1>2, LeavesIs DEF Leaves
  <1>4. active' \in Int
    BY <1>1, <1>2, <1>3 DEF TransfersOK, Releases
  <1>5. TransferInv(t)'
    <2>1. LifeInv(t)'
      BY <1>1, <1>2, <1>3, <1>4
         DEF TransferInv, LifeInv, CountsInv, Tallies, Working, Untouched, At, Live, Closed
    <2>2. CountsInv(t)'
      BY <1>1, <1>2, <1>3, <1>4
         DEF TransferInv, LifeInv, CountsInv, Tallies, Working, Untouched, At
    <2>3. LateInv(t)'
      BY <1>1, <1>2, <1>3, <1>4
         DEF TransferInv, LifeInv, LateInv, At
    <2>4. Attended(t)'
      BY <1>1, <1>2, <1>3, <1>4
         DEF TransferInv, LifeInv, Attended, Working, At, Closed
    <2>5. Reported(t)'
      BY <1>1, <1>2, <1>3, <1>4
         DEF TransferInv, LifeInv, CountsInv, Reported, Tallies, Working, At
    <2> QED
      BY <2>1, <2>2, <2>3, <2>4, <2>5 DEF TransferInv
  <1>6. TransfersOK' /\ \A u \in Transfers : u # t => Same(u)
    BY <1>1, <1>2, <1>3, <1>4 DEF TransfersOK, Same
  <1> QED
    BY <1>1, <1>2, <1>3, <1>4, <1>5, <1>6, OneTransfer

LEMMA StopThrowsStep ==
  ASSUME IInv, NEW t \in Transfers, StopThrows(t)
  PROVE  IInv'
  <1>1. TransfersOK /\ TransferInv(t)
    BY DEF IInv, TypeOK
  <1>2. /\ At(t, "row") /\ Fault /\ JobThrew(t) /\ Releases(t)
        /\ UNCHANGED <<fileVars, request, written, late, torn>>
    BY DEF StopThrows
  <1>3. /\ job' \in [Transfers -> Job] /\ \A u \in Transfers : u # t => job'[u] = job[u]
        /\ job'[t].state \in {"waiting", "done"} /\ job'[t].at = "none"
    BY <1>1, <1>2, LeavesIs DEF Leaves
  <1>4. active' \in Int
    BY <1>1, <1>2, ReleasesIs
  <1>5. CASE SetStatus(t, "cancelled") /\ causes' = causes
    <2>1. /\ transfer' \in [Transfers -> Record] /\ \A u \in Transfers : u # t => transfer'[u] = transfer[u]
          /\ transfer'[t].status = "cancelled" /\ transfer'[t].kind = transfer[t].kind
          /\ transfer'[t].dryRun = transfer[t].dryRun
          /\ transfer'[t].cancelled = transfer[t].cancelled /\ transfer'[t].report = transfer[t].report
      BY <1>1, <1>5, StatusIs DEF Live, Closed
    <2>2. TransferInv(t)'
      BY <1>1, <1>2, <1>3, <1>5, <2>1 DEF TransferInv, LifeInv, CountsInv, LateInv, Attended, Reported,
         Working, Untouched, At, Live, Closed
    <2>3. TransfersOK' /\ \A u \in Transfers : u # t => Same(u)
      BY <1>1, <1>2, <1>3, <1>4, <1>5, <2>1 DEF TransfersOK, Same
    <2> QED
      BY <1>2, <2>2, <2>3, OneTransfer
  <1>6. CASE transfer' = transfer /\ Cause(t, "end lost")
    <2>1. causes' \in [Transfers -> SUBSET Causes] /\ causes'[t] = causes[t] \union {"end lost"}
          /\ \A u \in Transfers : u # t => causes'[u] = causes[u]
      BY <1>1, <1>6 DEF TransfersOK, Causes, Cause
    <2>2. TransferInv(t)'
      BY <1>1, <1>2, <1>3, <1>6, <2>1 DEF TransferInv, LifeInv, CountsInv, LateInv, Attended, Reported,
         Working, Untouched, At, Live, Closed
    <2>3. TransfersOK' /\ \A u \in Transfers : u # t => Same(u)
      BY <1>1, <1>2, <1>3, <1>4, <1>6, <2>1 DEF TransfersOK, Same
    <2> QED
      BY <1>2, <2>2, <2>3, OneTransfer
  <1> QED
    BY <1>5, <1>6 DEF StopThrows

(* One row *)

LEMMA ExportRowStep ==
  ASSUME IInv, NEW t \in Transfers, ExportRow(t)
  PROVE  IInv'
  <1>1. TransfersOK /\ TransferInv(t)
    BY DEF IInv, TypeOK
  <1>2. /\ At(t, "write") /\ transfer[t].kind = "export"
        /\ job' = [job EXCEPT ![t] = [NextRow(t) EXCEPT !.ok = @ + 1]]
        /\ UNCHANGED <<fileVars, transfer, request, written, active, causes, late, torn, faults>>
    BY DEF ExportRow
  <1>3. /\ job' \in [Transfers -> Job] /\ \A u \in Transfers : u # t => job'[u] = job[u]
        /\ job'[t].state = job[t].state /\ job'[t].row = job[t].row + 1
        /\ job'[t].at = IF job[t].row < Rows THEN "row" ELSE "finish"
        /\ job'[t].ok = job[t].ok + 1 /\ job'[t].rest = job[t].rest + 0
    BY <1>1, <1>2, CountsOk
  <1>4. job[t] \in Job /\ written[t] \in Nat /\ late[t] \in Nat /\ torn[t] \in [written : Nat, skipped : Nat]
    BY <1>1 DEF TransfersOK
  <1>5. /\ job[t].row \in Nat /\ job[t].ok \in Nat /\ job[t].rest \in Nat
        /\ torn[t].written \in Nat /\ torn[t].skipped \in Nat
    BY <1>1, <1>2, <1>3, <1>4 DEF Job
  <1>6. TransferInv(t)'
    <2>1. LifeInv(t)'
      BY <1>1, <1>2, <1>3, <1>4, <1>5
         DEF TransferInv, LifeInv, CountsInv, Tallies, Working, Untouched, At, Live, Closed
    <2>2. CountsInv(t)'
      BY <1>1, <1>2, <1>3, <1>4, <1>5
         DEF TransferInv, LifeInv, CountsInv, Tallies, Working, Untouched, At
    <2>3. LateInv(t)'
      BY <1>1, <1>2, <1>3, <1>4, <1>5
         DEF TransferInv, LifeInv, LateInv, At
    <2>4. Attended(t)'
      BY <1>1, <1>2, <1>3, <1>4, <1>5
         DEF TransferInv, LifeInv, Attended, Working, At, Closed
    <2>5. Reported(t)'
      BY <1>1, <1>2, <1>3, <1>4, <1>5
         DEF TransferInv, LifeInv, CountsInv, Reported, Tallies, Working, At
    <2> QED
      BY <2>1, <2>2, <2>3, <2>4, <2>5 DEF TransferInv
  <1>7. TransfersOK' /\ \A u \in Transfers : u # t => Same(u)
    BY <1>1, <1>2, <1>3, <1>4, <1>5 DEF TransfersOK, Same
  <1> QED
    BY <1>1, <1>2, <1>3, <1>4, <1>5, <1>6, <1>7, OneTransfer

LEMMA PassRowStep ==
  ASSUME IInv, NEW t \in Transfers, PassRow(t)
  PROVE  IInv'
  <1>1. TransfersOK /\ TransferInv(t)
    BY DEF IInv, TypeOK
  <1>2. /\ At(t, "write") /\ job' = [job EXCEPT ![t] = [NextRow(t) EXCEPT !.rest = @ + 1]]
        /\ UNCHANGED <<fileVars, transfer, request, written, active, causes, late, torn, faults>>
    BY DEF PassRow
  <1>3. /\ job' \in [Transfers -> Job] /\ \A u \in Transfers : u # t => job'[u] = job[u]
        /\ job'[t].state = job[t].state /\ job'[t].row = job[t].row + 1
        /\ job'[t].at = IF job[t].row < Rows THEN "row" ELSE "finish"
        /\ job'[t].ok = job[t].ok + 0 /\ job'[t].rest = job[t].rest + 1
    BY <1>1, <1>2, CountsRest
  <1>4. job[t] \in Job /\ written[t] \in Nat /\ late[t] \in Nat /\ torn[t] \in [written : Nat, skipped : Nat]
    BY <1>1 DEF TransfersOK
  <1>5. /\ job[t].row \in Nat /\ job[t].ok \in Nat /\ job[t].rest \in Nat
        /\ torn[t].written \in Nat /\ torn[t].skipped \in Nat
    BY <1>1, <1>2, <1>3, <1>4 DEF Job
  <1>6. TransferInv(t)'
    <2>1. LifeInv(t)'
      BY <1>1, <1>2, <1>3, <1>4, <1>5
         DEF TransferInv, LifeInv, CountsInv, Tallies, Working, Untouched, At, Live, Closed
    <2>2. CountsInv(t)'
      BY <1>1, <1>2, <1>3, <1>4, <1>5
         DEF TransferInv, LifeInv, CountsInv, Tallies, Working, Untouched, At
    <2>3. LateInv(t)'
      BY <1>1, <1>2, <1>3, <1>4, <1>5
         DEF TransferInv, LifeInv, LateInv, At
    <2>4. Attended(t)'
      BY <1>1, <1>2, <1>3, <1>4, <1>5
         DEF TransferInv, LifeInv, Attended, Working, At, Closed
    <2>5. Reported(t)'
      BY <1>1, <1>2, <1>3, <1>4, <1>5
         DEF TransferInv, LifeInv, CountsInv, Reported, Tallies, Working, At
    <2> QED
      BY <2>1, <2>2, <2>3, <2>4, <2>5 DEF TransferInv
  <1>7. TransfersOK' /\ \A u \in Transfers : u # t => Same(u)
    BY <1>1, <1>2, <1>3, <1>4, <1>5 DEF TransfersOK, Same
  <1> QED
    BY <1>1, <1>2, <1>3, <1>4, <1>5, <1>6, <1>7, OneTransfer

LEMMA DryRowStep ==
  ASSUME IInv, NEW t \in Transfers, DryRow(t)
  PROVE  IInv'
  <1>1. TransfersOK /\ TransferInv(t)
    BY DEF IInv, TypeOK
  <1>2. /\ At(t, "write") /\ transfer[t].dryRun
        /\ job' = [job EXCEPT ![t] = [NextRow(t) EXCEPT !.ok = @ + 1]]
        /\ UNCHANGED <<fileVars, transfer, request, written, active, causes, late, torn, faults>>
    BY DEF DryRow
  <1>3. /\ job' \in [Transfers -> Job] /\ \A u \in Transfers : u # t => job'[u] = job[u]
        /\ job'[t].state = job[t].state /\ job'[t].row = job[t].row + 1
        /\ job'[t].at = IF job[t].row < Rows THEN "row" ELSE "finish"
        /\ job'[t].ok = job[t].ok + 1 /\ job'[t].rest = job[t].rest + 0
    BY <1>1, <1>2, CountsOk
  <1>4. job[t] \in Job /\ written[t] \in Nat /\ late[t] \in Nat /\ torn[t] \in [written : Nat, skipped : Nat]
    BY <1>1 DEF TransfersOK
  <1>5. /\ job[t].row \in Nat /\ job[t].ok \in Nat /\ job[t].rest \in Nat
        /\ torn[t].written \in Nat /\ torn[t].skipped \in Nat
    BY <1>1, <1>2, <1>3, <1>4 DEF Job
  <1>6. TransferInv(t)'
    <2>1. LifeInv(t)'
      BY <1>1, <1>2, <1>3, <1>4, <1>5
         DEF TransferInv, LifeInv, CountsInv, Tallies, Working, Untouched, At, Live, Closed
    <2>2. CountsInv(t)'
      BY <1>1, <1>2, <1>3, <1>4, <1>5
         DEF TransferInv, LifeInv, CountsInv, Tallies, Working, Untouched, At
    <2>3. LateInv(t)'
      BY <1>1, <1>2, <1>3, <1>4, <1>5
         DEF TransferInv, LifeInv, LateInv, At
    <2>4. Attended(t)'
      BY <1>1, <1>2, <1>3, <1>4, <1>5
         DEF TransferInv, LifeInv, Attended, Working, At, Closed
    <2>5. Reported(t)'
      BY <1>1, <1>2, <1>3, <1>4, <1>5
         DEF TransferInv, LifeInv, CountsInv, Reported, Tallies, Working, At
    <2> QED
      BY <2>1, <2>2, <2>3, <2>4, <2>5 DEF TransferInv
  <1>7. TransfersOK' /\ \A u \in Transfers : u # t => Same(u)
    BY <1>1, <1>2, <1>3, <1>4, <1>5 DEF TransfersOK, Same
  <1> QED
    BY <1>1, <1>2, <1>3, <1>4, <1>5, <1>6, <1>7, OneTransfer

LEMMA CheckThrowsStep ==
  ASSUME IInv, NEW t \in Transfers, CheckThrows(t)
  PROVE  IInv'
  <1>1. TransfersOK /\ TransferInv(t)
    BY DEF IInv, TypeOK
  <1>2. /\ At(t, "row") /\ Fault /\ job' = [job EXCEPT ![t] = [NextRow(t) EXCEPT !.rest = @ + 1]]
        /\ UNCHANGED <<fileVars, transfer, request, written, active, causes, late, torn>>
    BY DEF CheckThrows
  <1>3. /\ job' \in [Transfers -> Job] /\ \A u \in Transfers : u # t => job'[u] = job[u]
        /\ job'[t].state = job[t].state /\ job'[t].row = job[t].row + 1
        /\ job'[t].at = IF job[t].row < Rows THEN "row" ELSE "finish"
        /\ job'[t].ok = job[t].ok + 0 /\ job'[t].rest = job[t].rest + 1
    BY <1>1, <1>2, CountsRest
  <1>4. job[t] \in Job /\ written[t] \in Nat /\ late[t] \in Nat /\ torn[t] \in [written : Nat, skipped : Nat]
    BY <1>1 DEF TransfersOK
  <1>5. /\ job[t].row \in Nat /\ job[t].ok \in Nat /\ job[t].rest \in Nat
        /\ torn[t].written \in Nat /\ torn[t].skipped \in Nat
    BY <1>1, <1>2, <1>3, <1>4 DEF Job
  <1>6. TransferInv(t)'
    <2>1. LifeInv(t)'
      BY <1>1, <1>2, <1>3, <1>4, <1>5
         DEF TransferInv, LifeInv, CountsInv, Tallies, Working, Untouched, At, Live, Closed
    <2>2. CountsInv(t)'
      BY <1>1, <1>2, <1>3, <1>4, <1>5
         DEF TransferInv, LifeInv, CountsInv, Tallies, Working, Untouched, At
    <2>3. LateInv(t)'
      BY <1>1, <1>2, <1>3, <1>4, <1>5
         DEF TransferInv, LifeInv, LateInv, At
    <2>4. Attended(t)'
      BY <1>1, <1>2, <1>3, <1>4, <1>5
         DEF TransferInv, LifeInv, Attended, Working, At, Closed
    <2>5. Reported(t)'
      BY <1>1, <1>2, <1>3, <1>4, <1>5
         DEF TransferInv, LifeInv, CountsInv, Reported, Tallies, Working, At
    <2> QED
      BY <2>1, <2>2, <2>3, <2>4, <2>5 DEF TransferInv
  <1>7. TransfersOK' /\ \A u \in Transfers : u # t => Same(u)
    BY <1>1, <1>2, <1>3, <1>4, <1>5 DEF TransfersOK, Same
  <1> QED
    BY <1>1, <1>2, <1>3, <1>4, <1>5, <1>6, <1>7, OneTransfer

LEMMA SkipTornStep ==
  ASSUME IInv, NEW t \in Transfers, SkipTorn(t)
  PROVE  IInv'
  <1>1. TransfersOK /\ TransferInv(t)
    BY DEF IInv, TypeOK
  <1>2. /\ At(t, "write") /\ Fault /\ torn' = [torn EXCEPT ![t].skipped = @ + 1]
        /\ job' = [job EXCEPT ![t] = [NextRow(t) EXCEPT !.rest = @ + 2]]
        /\ UNCHANGED <<fileVars, transfer, request, written, active, causes, late>>
    BY DEF SkipTorn
  <1>3. /\ job' \in [Transfers -> Job] /\ \A u \in Transfers : u # t => job'[u] = job[u]
        /\ job'[t].state = job[t].state /\ job'[t].row = job[t].row + 1
        /\ job'[t].at = IF job[t].row < Rows THEN "row" ELSE "finish"
        /\ job'[t].ok = job[t].ok + 0 /\ job'[t].rest = job[t].rest + 2
    BY <1>1, <1>2, CountsRest
  <1>4. job[t] \in Job /\ written[t] \in Nat /\ late[t] \in Nat /\ torn[t] \in [written : Nat, skipped : Nat]
    BY <1>1 DEF TransfersOK
  <1>5. /\ job[t].row \in Nat /\ job[t].ok \in Nat /\ job[t].rest \in Nat
        /\ torn[t].written \in Nat /\ torn[t].skipped \in Nat
    BY <1>1, <1>2, <1>3, <1>4 DEF Job
  <1>6. /\ torn' \in [Transfers -> [written : Nat, skipped : Nat]]
        /\ torn'[t].skipped = torn[t].skipped + 1 /\ torn'[t].written = torn[t].written
        /\ \A u \in Transfers : u # t => torn'[u] = torn[u]
    BY <1>1, <1>2 DEF TransfersOK
  <1>7. TransferInv(t)'
    <2>1. LifeInv(t)'
      BY <1>1, <1>2, <1>3, <1>4, <1>5, <1>6
         DEF TransferInv, LifeInv, CountsInv, Tallies, Working, Untouched, At, Live, Closed
    <2>2. CountsInv(t)'
      BY <1>1, <1>2, <1>3, <1>4, <1>5, <1>6
         DEF TransferInv, LifeInv, CountsInv, Tallies, Working, Untouched, At
    <2>3. LateInv(t)'
      BY <1>1, <1>2, <1>3, <1>4, <1>5, <1>6
         DEF TransferInv, LifeInv, LateInv, At
    <2>4. Attended(t)'
      BY <1>1, <1>2, <1>3, <1>4, <1>5, <1>6
         DEF TransferInv, LifeInv, Attended, Working, At, Closed
    <2>5. Reported(t)'
      BY <1>1, <1>2, <1>3, <1>4, <1>5, <1>6
         DEF TransferInv, LifeInv, CountsInv, Reported, Tallies, Working, At
    <2> QED
      BY <2>1, <2>2, <2>3, <2>4, <2>5 DEF TransferInv
  <1>8. TransfersOK' /\ \A u \in Transfers : u # t => Same(u)
    BY <1>1, <1>2, <1>3, <1>4, <1>5, <1>6 DEF TransfersOK, Same
  <1> QED
    BY <1>1, <1>2, <1>3, <1>4, <1>5, <1>6, <1>7, <1>8, OneTransfer

LEMMA WriteRowStep ==
  ASSUME IInv, NEW t \in Transfers, WriteRow(t)
  PROVE  IInv'
  <1>1. TransfersOK /\ TransferInv(t)
    BY DEF IInv, TypeOK
  <1>2. /\ At(t, "write") /\ ~transfer[t].dryRun /\ written' = [written EXCEPT ![t] = @ + 1]
        /\ late' = [late EXCEPT ![t] = IF transfer[t].cancelled THEN @ + 1 ELSE @]
        /\ job' = [job EXCEPT ![t] = [NextRow(t) EXCEPT !.ok = @ + 1]]
        /\ UNCHANGED <<fileVars, transfer, request, active, causes, torn, faults>>
    BY DEF WriteRow, Writes
  <1>3. /\ job' \in [Transfers -> Job] /\ \A u \in Transfers : u # t => job'[u] = job[u]
        /\ job'[t].state = job[t].state /\ job'[t].row = job[t].row + 1
        /\ job'[t].at = IF job[t].row < Rows THEN "row" ELSE "finish"
        /\ job'[t].ok = job[t].ok + 1 /\ job'[t].rest = job[t].rest + 0
    BY <1>1, <1>2, CountsOk
  <1>4. job[t] \in Job /\ written[t] \in Nat /\ late[t] \in Nat /\ torn[t] \in [written : Nat, skipped : Nat]
    BY <1>1 DEF TransfersOK
  <1>5. /\ job[t].row \in Nat /\ job[t].ok \in Nat /\ job[t].rest \in Nat
        /\ torn[t].written \in Nat /\ torn[t].skipped \in Nat
    BY <1>1, <1>2, <1>3, <1>4 DEF Job
  <1>6. /\ written' \in [Transfers -> Nat] /\ written'[t] = written[t] + 1
        /\ \A u \in Transfers : u # t => written'[u] = written[u]
    BY <1>1, <1>2 DEF TransfersOK
  <1>7. /\ late' \in [Transfers -> Nat] /\ late'[t] = IF transfer[t].cancelled THEN late[t] + 1 ELSE late[t]
        /\ \A u \in Transfers : u # t => late'[u] = late[u]
    BY <1>1, <1>2 DEF TransfersOK
  <1>8. TransferInv(t)'
    <2>1. LifeInv(t)'
      BY <1>1, <1>2, <1>3, <1>4, <1>5, <1>6, <1>7
         DEF TransferInv, LifeInv, CountsInv, Tallies, Working, Untouched, At, Live, Closed
    <2>2. CountsInv(t)'
      BY <1>1, <1>2, <1>3, <1>4, <1>5, <1>6, <1>7
         DEF TransferInv, LifeInv, CountsInv, Tallies, Working, Untouched, At
    <2>3. LateInv(t)'
      BY <1>1, <1>2, <1>3, <1>4, <1>5, <1>6, <1>7
         DEF TransferInv, LifeInv, LateInv, At
    <2>4. Attended(t)'
      BY <1>1, <1>2, <1>3, <1>4, <1>5, <1>6, <1>7
         DEF TransferInv, LifeInv, Attended, Working, At, Closed
    <2>5. Reported(t)'
      BY <1>1, <1>2, <1>3, <1>4, <1>5, <1>6, <1>7
         DEF TransferInv, LifeInv, CountsInv, Reported, Tallies, Working, At
    <2> QED
      BY <2>1, <2>2, <2>3, <2>4, <2>5 DEF TransferInv
  <1>9. TransfersOK' /\ \A u \in Transfers : u # t => Same(u)
    BY <1>1, <1>2, <1>3, <1>4, <1>5, <1>6, <1>7 DEF TransfersOK, Same
  <1> QED
    BY <1>1, <1>2, <1>3, <1>4, <1>5, <1>6, <1>7, <1>8, <1>9, OneTransfer

LEMMA WriteTornStep ==
  ASSUME IInv, NEW t \in Transfers, WriteTorn(t)
  PROVE  IInv'
  <1>1. TransfersOK /\ TransferInv(t)
    BY DEF IInv, TypeOK
  <1>2. /\ written' = [written EXCEPT ![t] = @ + 1]
        /\ late' = [late EXCEPT ![t] = IF transfer[t].cancelled THEN @ + 1 ELSE @]
        /\ job' = [job EXCEPT ![t] = [NextRow(t) EXCEPT !.rest = @ + 1]]
        /\ torn' = [torn EXCEPT ![t].written = @ + 1] /\ Fault
    BY DEF WriteTorn, Writes
  <1>3. At(t, "write") /\ ~transfer[t].dryRun /\ UNCHANGED <<fileVars, transfer, request, active, causes>>
    BY DEF WriteTorn, Writes
  <1>4. /\ job' \in [Transfers -> Job] /\ \A u \in Transfers : u # t => job'[u] = job[u]
        /\ job'[t].state = job[t].state /\ job'[t].row = job[t].row + 1
        /\ job'[t].at = IF job[t].row < Rows THEN "row" ELSE "finish"
        /\ job'[t].ok = job[t].ok + 0 /\ job'[t].rest = job[t].rest + 1
    BY <1>1, <1>2, CountsRest
  <1>5. job[t] \in Job /\ written[t] \in Nat /\ late[t] \in Nat /\ torn[t] \in [written : Nat, skipped : Nat]
    BY <1>1 DEF TransfersOK
  <1>6. /\ job[t].row \in Nat /\ job[t].ok \in Nat /\ job[t].rest \in Nat
        /\ torn[t].written \in Nat /\ torn[t].skipped \in Nat
    BY <1>1, <1>3, <1>4, <1>5 DEF Job
  <1>7. /\ written' \in [Transfers -> Nat] /\ written'[t] = written[t] + 1
        /\ \A u \in Transfers : u # t => written'[u] = written[u]
    BY <1>1, <1>2 DEF TransfersOK
  <1>8. /\ late' \in [Transfers -> Nat] /\ late'[t] = IF transfer[t].cancelled THEN late[t] + 1 ELSE late[t]
        /\ \A u \in Transfers : u # t => late'[u] = late[u]
    BY <1>1, <1>2 DEF TransfersOK
  <1>9. /\ torn' \in [Transfers -> [written : Nat, skipped : Nat]]
        /\ torn'[t].written = torn[t].written + 1 /\ torn'[t].skipped = torn[t].skipped
        /\ \A u \in Transfers : u # t => torn'[u] = torn[u]
    BY <1>1, <1>2 DEF TransfersOK
  <1>10. TransferInv(t)'
    <2>1. LifeInv(t)'
      BY <1>1, <1>3, <1>4, <1>5, <1>6, <1>7, <1>8, <1>9
         DEF TransferInv, LifeInv, CountsInv, Tallies, Working, Untouched, At, Live, Closed
    <2>2. CountsInv(t)'
      <3>1. /\ At(t, "write") /\ ~transfer[t].dryRun /\ transfer' = transfer /\ job[t].row \in 1 .. Rows
            /\ job[t].ok + job[t].rest = job[t].row - 1 + torn[t].skipped
            /\ transfer[t].kind # "export" => job[t].ok = written[t] - torn[t].written
        BY <1>1, <1>3 DEF TransferInv, CountsInv, Tallies, At
      <3>2. job'[t].ok + job'[t].rest = job'[t].row - 1 + torn'[t].skipped
        BY <1>4, <1>6, <1>9, <3>1
      <3>3. transfer'[t].kind # "export" => job'[t].ok = written'[t] - torn'[t].written
        <4>1. /\ job'[t].ok = job[t].ok + 0 /\ written'[t] = written[t] + 1
              /\ torn'[t].written = torn[t].written + 1 /\ transfer'[t].kind = transfer[t].kind
              /\ job[t].ok \in Nat /\ written[t] \in Nat /\ torn[t].written \in Nat
          BY <1>4, <1>5, <1>6, <1>7, <1>9, <3>1
        <4>2. transfer[t].kind # "export" => job[t].ok = written[t] - torn[t].written
          BY <3>1
        <4> DEFINE ok == job[t].ok
                   w == written[t]
                   z == torn[t].written
        <4>3. ok \in Nat /\ w \in Nat /\ z \in Nat
          BY <4>1
        <4>4. transfer[t].kind # "export" => ok = w - z
          BY <4>2
        <4>5. job'[t].ok = ok + 0 /\ written'[t] = w + 1 /\ torn'[t].written = z + 1
          BY <4>1
        <4>6. transfer'[t].kind = transfer[t].kind
          BY <4>1
        <4> HIDE DEF ok, w, z
        <4>7. ok = w - z => ok + 0 = (w + 1) - (z + 1)
          BY <4>3
        <4> QED
          BY <4>4, <4>5, <4>6, <4>7
      <3>4. IF job'[t].at = "finish" THEN job'[t].row = Rows + 1 ELSE job'[t].row \in 1 .. Rows
        BY <1>4, <1>6, <3>1
      <3>5. job'[t].at # "open"
        BY <1>4
      <3> QED
        BY <3>1, <3>2, <3>3, <3>4, <3>5 DEF CountsInv, Tallies, At
    <2>3. LateInv(t)'
      BY <1>1, <1>3, <1>4, <1>5, <1>6, <1>7, <1>8, <1>9
         DEF TransferInv, LifeInv, LateInv, At
    <2>4. Attended(t)'
      BY <1>1, <1>3, <1>4, <1>5, <1>6, <1>7, <1>8, <1>9
         DEF TransferInv, LifeInv, Attended, Working, At, Closed
    <2>5. Reported(t)'
      BY <1>1, <1>3, <1>4, <1>5, <1>6, <1>7, <1>8, <1>9
         DEF TransferInv, LifeInv, CountsInv, Reported, Tallies, Working, At
    <2> QED
      BY <2>1, <2>2, <2>3, <2>4, <2>5 DEF TransferInv
  <1>11. TransfersOK' /\ \A u \in Transfers : u # t => Same(u)
    BY <1>1, <1>3, <1>4, <1>5, <1>6, <1>7, <1>8, <1>9 DEF TransfersOK, Same
  <1> QED
    BY <1>1, <1>3, <1>4, <1>5, <1>6, <1>7, <1>8, <1>9, <1>2, <1>10, <1>11, OneTransfer

(* The end of a job *)

LEMMA FinishStep ==
  ASSUME IInv, NEW t \in Transfers, Finish(t)
  PROVE  IInv'
  <1>1. TransfersOK /\ TransferInv(t)
    BY DEF IInv, TypeOK
  <1>2. /\ At(t, "finish") /\ Settle(t, "completed", [ok |-> job[t].ok, rest |-> job[t].rest]) /\ Goes(t, "after")
        /\ UNCHANGED <<fileVars, request, written, active, causes, late, torn, faults>>
    BY DEF Finish
  <1>3. /\ job' \in [Transfers -> Job] /\ \A u \in Transfers : u # t => job'[u] = job[u]
        /\ job'[t].state = job[t].state /\ job'[t].at = "after" /\ job'[t].row = job[t].row
        /\ job'[t].ok = job[t].ok /\ job'[t].rest = job[t].rest
    BY <1>1, <1>2, GoesIs
  <1>4. job[t] \in Job /\ written[t] \in Nat /\ late[t] \in Nat /\ torn[t] \in [written : Nat, skipped : Nat]
    BY <1>1 DEF TransfersOK
  <1>5. /\ job[t].row \in Nat /\ job[t].ok \in Nat /\ job[t].rest \in Nat
        /\ torn[t].written \in Nat /\ torn[t].skipped \in Nat
    BY <1>1, <1>2, <1>3, <1>4 DEF Job
  <1>6. [ok |-> job[t].ok, rest |-> job[t].rest] \in [ok : Nat, rest : Nat]
    BY <1>5
  <1>7. /\ transfer' \in [Transfers -> Record] /\ \A u \in Transfers : u # t => transfer'[u] = transfer[u]
        /\ transfer'[t].kind = transfer[t].kind /\ transfer'[t].cancelled = transfer[t].cancelled
        /\ transfer'[t].dryRun = transfer[t].dryRun
        /\ IF Settles(t, "completed") THEN transfer'[t].status = "completed" /\ transfer'[t].report = [ok |-> job[t].ok, rest |-> job[t].rest]
           ELSE transfer'[t] = transfer[t]
    BY <1>1, <1>2, <1>6, SettleIs DEF Closed
  <1>8. TransferInv(t)'
    <2>1. LifeInv(t)'
      BY <1>1, <1>2, <1>3, <1>4, <1>5, <1>6, <1>7
         DEF TransferInv, LifeInv, CountsInv, Tallies, Working, Untouched, At, Live, Closed, Settles, Live
    <2>2. CountsInv(t)'
      BY <1>1, <1>2, <1>3, <1>4, <1>5, <1>6, <1>7
         DEF TransferInv, LifeInv, CountsInv, Tallies, Working, Untouched, At, Settles, Live
    <2>3. LateInv(t)'
      BY <1>1, <1>2, <1>3, <1>4, <1>5, <1>6, <1>7
         DEF TransferInv, LifeInv, LateInv, At, Settles, Live
    <2>4. Attended(t)'
      BY <1>1, <1>2, <1>3, <1>4, <1>5, <1>6, <1>7
         DEF TransferInv, LifeInv, Attended, Working, At, Closed, Settles, Live
    <2>5. Reported(t)'
      BY <1>1, <1>2, <1>3, <1>4, <1>5, <1>6, <1>7
         DEF TransferInv, LifeInv, CountsInv, Reported, Tallies, Working, At, Settles, Live
    <2> QED
      BY <2>1, <2>2, <2>3, <2>4, <2>5 DEF TransferInv
  <1>9. TransfersOK' /\ \A u \in Transfers : u # t => Same(u)
    BY <1>1, <1>2, <1>3, <1>4, <1>5, <1>6, <1>7 DEF TransfersOK, Same
  <1> QED
    BY <1>1, <1>2, <1>3, <1>4, <1>5, <1>6, <1>7, <1>8, <1>9, OneTransfer

LEMMA AfterStep ==
  ASSUME IInv, NEW t \in Transfers, After(t)
  PROVE  IInv'
  <1>1. TransfersOK /\ TransferInv(t)
    BY DEF IInv, TypeOK
  <1>2. /\ At(t, "after") /\ JobEnds(t) /\ Releases(t) /\ UNCHANGED <<fileVars, transfer, request, written, causes, late, torn, faults>>
    BY DEF After
  <1>3. /\ job' \in [Transfers -> Job] /\ \A u \in Transfers : u # t => job'[u] = job[u]
        /\ job'[t].state \in {"waiting", "done"} /\ job'[t].at = "none"
    BY <1>1, <1>2, LeavesIs DEF Leaves
  <1>4. active' \in Int
    BY <1>1, <1>2, <1>3 DEF TransfersOK, Releases
  <1>5. TransferInv(t)'
    <2>1. LifeInv(t)'
      BY <1>1, <1>2, <1>3, <1>4
         DEF TransferInv, LifeInv, CountsInv, Tallies, Working, Untouched, At, Live, Closed
    <2>2. CountsInv(t)'
      BY <1>1, <1>2, <1>3, <1>4
         DEF TransferInv, LifeInv, CountsInv, Tallies, Working, Untouched, At
    <2>3. LateInv(t)'
      BY <1>1, <1>2, <1>3, <1>4
         DEF TransferInv, LifeInv, LateInv, At
    <2>4. Attended(t)'
      BY <1>1, <1>2, <1>3, <1>4
         DEF TransferInv, LifeInv, Attended, Working, At, Closed
    <2>5. Reported(t)'
      BY <1>1, <1>2, <1>3, <1>4
         DEF TransferInv, LifeInv, CountsInv, Reported, Tallies, Working, At
    <2> QED
      BY <2>1, <2>2, <2>3, <2>4, <2>5 DEF TransferInv
  <1>6. TransfersOK' /\ \A u \in Transfers : u # t => Same(u)
    BY <1>1, <1>2, <1>3, <1>4 DEF TransfersOK, Same
  <1> QED
    BY <1>1, <1>2, <1>3, <1>4, <1>5, <1>6, OneTransfer

(* The catch: the transfer has failed, or its write was lost, or found it no longer running. *)
LEMMA FailsIs ==
  ASSUME TransfersOK, NEW t \in Transfers, Fails(t)
  PROVE  /\ job' \in [Transfers -> Job] /\ \A u \in Transfers : u # t => job'[u] = job[u]
         /\ job'[t].state \in {"waiting", "done"} /\ job'[t].at = "none"
         /\ active' \in Int
         /\ transfer' \in [Transfers -> Record] /\ \A u \in Transfers : u # t => transfer'[u] = transfer[u]
         /\ transfer'[t].cancelled = transfer[t].cancelled
         /\ causes' \in [Transfers -> SUBSET Causes] /\ \A u \in Transfers : u # t => causes'[u] = causes[u]
         /\ causes[t] \subseteq causes'[t]
         /\ \/ transfer'[t].status = "failed"
            \/ transfer'[t] = transfer[t] /\ (transfer[t].status = "running" => "end lost" \in causes'[t])
  <1>1. JobThrew(t) /\ Releases(t)
    BY DEF Fails
  <1>2. /\ job' \in [Transfers -> Job] /\ \A u \in Transfers : u # t => job'[u] = job[u]
        /\ job'[t].state \in {"waiting", "done"} /\ job'[t].at = "none"
    BY <1>1, LeavesIs DEF Leaves
  <1>3. active' \in Int
    BY <1>1, ReleasesIs
  <1>4. CASE Caught(t) /\ causes' = causes
    <2>1. transfer[t].report \in [ok : Nat, rest : Nat]
      BY DEF TransfersOK, Record
    <2>2. /\ transfer' \in [Transfers -> Record] /\ \A u \in Transfers : u # t => transfer'[u] = transfer[u]
          /\ transfer'[t].cancelled = transfer[t].cancelled
          /\ IF Settles(t, "failed") THEN transfer'[t].status = "failed" ELSE transfer'[t] = transfer[t]
      BY <1>4, <2>1, SettleIs DEF Caught, Closed
    <2>3. ~Settles(t, "failed") => transfer[t].status # "running"
      BY DEF Settles
    <2>4. causes' \in [Transfers -> SUBSET Causes]
      BY <1>4 DEF TransfersOK
    <2> QED
      BY <1>2, <1>3, <1>4, <2>2, <2>3, <2>4
  <1>5. CASE transfer' = transfer /\ Cause(t, "end lost")
    <2>1. causes' \in [Transfers -> SUBSET Causes] /\ causes'[t] = causes[t] \union {"end lost"}
          /\ \A u \in Transfers : u # t => causes'[u] = causes[u]
      BY <1>5 DEF TransfersOK, Causes, Cause
    <2>2. transfer \in [Transfers -> Record]
      BY DEF TransfersOK
    <2> QED
      BY <1>2, <1>3, <1>5, <2>1, <2>2
  <1> QED
    BY <1>4, <1>5 DEF Fails

LEMMA ThrowsStep ==
  ASSUME IInv, NEW t \in Transfers, Throws(t)
  PROVE  IInv'
  <1>1. TransfersOK /\ TransferInv(t)
    BY DEF IInv, TypeOK
  <1>2. /\ job[t].state = "active" /\ job[t].at \in {"row", "finish", "after"} /\ Fault
        /\ UNCHANGED <<fileVars, request, written, late, torn>>
    BY DEF Throws
  <1>3. /\ job' \in [Transfers -> Job] /\ \A u \in Transfers : u # t => job'[u] = job[u]
        /\ job'[t].state \in {"waiting", "done"} /\ job'[t].at = "none"
        /\ active' \in Int
        /\ transfer' \in [Transfers -> Record] /\ \A u \in Transfers : u # t => transfer'[u] = transfer[u]
        /\ transfer'[t].cancelled = transfer[t].cancelled
        /\ causes' \in [Transfers -> SUBSET Causes] /\ \A u \in Transfers : u # t => causes'[u] = causes[u]
        /\ causes[t] \subseteq causes'[t]
        /\ \/ transfer'[t].status = "failed"
           \/ transfer'[t] = transfer[t] /\ (transfer[t].status = "running" => "end lost" \in causes'[t])
    BY <1>1, FailsIs DEF Throws
  <1>4. TransferInv(t)'
    <2>1. LifeInv(t)'
      BY <1>1, <1>2, <1>3
         DEF TransferInv, LifeInv, CountsInv, Tallies, Working, Untouched, At, Live, Closed
    <2>2. CountsInv(t)'
      BY <1>1, <1>2, <1>3
         DEF TransferInv, LifeInv, CountsInv, Tallies, Working, Untouched, At
    <2>3. LateInv(t)'
      BY <1>1, <1>2, <1>3
         DEF TransferInv, LifeInv, LateInv, At
    <2>4. Attended(t)'
      BY <1>1, <1>2, <1>3
         DEF TransferInv, LifeInv, Attended, Working, At, Closed
    <2>5. Reported(t)'
      BY <1>1, <1>2, <1>3
         DEF TransferInv, LifeInv, CountsInv, Reported, Tallies, Working, At
    <2> QED
      BY <2>1, <2>2, <2>3, <2>4, <2>5 DEF TransferInv
  <1>5. TransfersOK' /\ \A u \in Transfers : u # t => Same(u)
    BY <1>1, <1>2, <1>3 DEF TransfersOK, Same
  <1> QED
    BY <1>1, <1>2, <1>3, <1>4, <1>5, OneTransfer

LEMMA ErrorThrowsStep ==
  ASSUME IInv, NEW t \in Transfers, ErrorThrows(t)
  PROVE  IInv'
  <1>1. TransfersOK /\ TransferInv(t)
    BY DEF IInv, TypeOK
  <1>2. At(t, "write") /\ Fault /\ UNCHANGED <<fileVars, request, torn>>
    BY DEF ErrorThrows
  <1>3. /\ job' \in [Transfers -> Job] /\ \A u \in Transfers : u # t => job'[u] = job[u]
        /\ job'[t].state \in {"waiting", "done"} /\ job'[t].at = "none"
        /\ active' \in Int
        /\ transfer' \in [Transfers -> Record] /\ \A u \in Transfers : u # t => transfer'[u] = transfer[u]
        /\ transfer'[t].cancelled = transfer[t].cancelled
        /\ causes' \in [Transfers -> SUBSET Causes] /\ \A u \in Transfers : u # t => causes'[u] = causes[u]
        /\ causes[t] \subseteq causes'[t]
        /\ \/ transfer'[t].status = "failed"
           \/ transfer'[t] = transfer[t] /\ (transfer[t].status = "running" => "end lost" \in causes'[t])
    BY <1>1, FailsIs DEF ErrorThrows
  <1>4. Writes(t) \/ (written' = written /\ late' = late)
    BY DEF ErrorThrows
  <1>5. /\ written' \in [Transfers -> Nat] /\ \A u \in Transfers : u # t => written'[u] = written[u]
        /\ late' \in [Transfers -> Nat] /\ \A u \in Transfers : u # t => late'[u] = late[u]
        /\ late'[t] = late[t] \/ (transfer[t].cancelled /\ late'[t] = late[t] + 1)
    <2>1. CASE Writes(t)
      BY <1>1, <2>1 DEF Writes, TransfersOK
    <2>2. CASE written' = written /\ late' = late
      BY <1>1, <2>2 DEF TransfersOK
    <2> QED
      BY <1>4, <2>1, <2>2
  <1>6. late[t] = 0
    <2>1. late[t] \in Nat /\ late[t] <= 1 /\ (late[t] = 1 => ~At(t, "write"))
      BY <1>1 DEF TransfersOK, TransferInv, LateInv
    <2> QED
      BY <1>2, <2>1
  <1>7. TransferInv(t)'
    <2>1. LifeInv(t)'
      BY <1>1, <1>2, <1>3, <1>5, <1>6
         DEF TransferInv, LifeInv, CountsInv, Tallies, Working, Untouched, At, Live, Closed
    <2>2. CountsInv(t)'
      BY <1>1, <1>2, <1>3, <1>5, <1>6
         DEF TransferInv, LifeInv, CountsInv, Tallies, Working, Untouched, At
    <2>3. LateInv(t)'
      <3>1. late'[t] = 0 \/ (late'[t] = 1 /\ transfer[t].cancelled)
        BY <1>5, <1>6
      <3>2. transfer'[t].cancelled = transfer[t].cancelled /\ job'[t].at = "none"
        BY <1>3
      <3> QED
        BY <3>1, <3>2 DEF LateInv, At
    <2>4. Attended(t)'
      BY <1>1, <1>2, <1>3, <1>5, <1>6
         DEF TransferInv, LifeInv, Attended, Working, At, Closed
    <2>5. Reported(t)'
      BY <1>1, <1>2, <1>3, <1>5, <1>6
         DEF TransferInv, LifeInv, CountsInv, Reported, Tallies, Working, At
    <2> QED
      BY <2>1, <2>2, <2>3, <2>4, <2>5 DEF TransferInv
  <1>8. TransfersOK' /\ \A u \in Transfers : u # t => Same(u)
    BY <1>1, <1>2, <1>3, <1>5, <1>6 DEF TransfersOK, Same
  <1> QED
    BY <1>1, <1>2, <1>3, <1>5, <1>6, <1>7, <1>8, OneTransfer

LEMMA CrashStep ==
  ASSUME IInv, NEW t \in Transfers, Crash(t)
  PROVE  IInv'
  <1>1. TransfersOK /\ TransferInv(t)
    BY DEF IInv, TypeOK
  <1>2. /\ Leaves(t) /\ Fault /\ Cause(t, "died") /\ job[t].state = "active"
        /\ UNCHANGED <<fileVars, transfer, request, written, active, late, torn>>
    BY DEF Crash, Leaves
  <1>3. /\ job' \in [Transfers -> Job] /\ \A u \in Transfers : u # t => job'[u] = job[u]
        /\ job'[t].state \in {"waiting", "done"} /\ job'[t].at = "none"
    BY <1>1, <1>2, LeavesIs DEF Leaves
  <1>4. causes' \in [Transfers -> SUBSET Causes] /\ causes'[t] = causes[t] \union {"died"}
        /\ \A u \in Transfers : u # t => causes'[u] = causes[u]
    BY <1>1, <1>2 DEF TransfersOK, Causes, Cause
  <1>5. TransferInv(t)'
    <2>1. LifeInv(t)'
      BY <1>1, <1>2, <1>3, <1>4
         DEF TransferInv, LifeInv, CountsInv, Tallies, Working, Untouched, At, Live, Closed
    <2>2. CountsInv(t)'
      BY <1>1, <1>2, <1>3, <1>4
         DEF TransferInv, LifeInv, CountsInv, Tallies, Working, Untouched, At
    <2>3. LateInv(t)'
      BY <1>1, <1>2, <1>3, <1>4
         DEF TransferInv, LifeInv, LateInv, At
    <2>4. Attended(t)'
      BY <1>1, <1>2, <1>3, <1>4
         DEF TransferInv, LifeInv, Attended, Working, At, Closed
    <2>5. Reported(t)'
      BY <1>1, <1>2, <1>3, <1>4
         DEF TransferInv, LifeInv, CountsInv, Reported, Tallies, Working, At
    <2> QED
      BY <2>1, <2>2, <2>3, <2>4, <2>5 DEF TransferInv
  <1>6. TransfersOK' /\ \A u \in Transfers : u # t => Same(u)
    BY <1>1, <1>2, <1>3, <1>4 DEF TransfersOK, Same
  <1> QED
    BY <1>1, <1>2, <1>3, <1>4, <1>5, <1>6, OneTransfer

----------------------------------------------------------------------------
(* The inductive invariant *)

(* The file, the guard's counter, or nothing at all has changed. *)
LEMMA AloneStep ==
  ASSUME IInv, FileTypeOK', FilesInv', active' \in Int,
         UNCHANGED <<transfer, request, job, written, causes, late, torn>>
  PROVE  IInv'
  <1>1. TransfersOK'
    BY DEF IInv, TypeOK, TransfersOK
  <1>2. ASSUME NEW u \in Transfers
        PROVE  TransferInv(u)'
    <2>1. TransferInv(u)
      BY DEF IInv
    <2>2. LifeInv(u)' /\ LateInv(u)'
      BY <2>1 DEF TransferInv, LifeInv, LateInv, Working, Untouched, At
    <2>3. CountsInv(u)'
      BY <2>1 DEF TransferInv, CountsInv, Tallies, Untouched, At
    <2>4. Attended(u)' /\ Reported(u)'
      BY <2>1 DEF TransferInv, Attended, Reported, Tallies, Working, At
    <2> QED
      BY <2>2, <2>3, <2>4 DEF TransferInv
  <1> QED
    BY <1>1, <1>2 DEF IInv, TypeOK

LEMMA InitInv == Init => IInv
  <1> SUFFICES ASSUME Init
               PROVE  IInv
    OBVIOUS
  <1>1. FileTypeOK /\ FilesInv
    BY FileInitInv DEF Init
  <1>2. NoJob \in Job /\ NoJob.state = "none"
    BY DEF NoJob, Job
  <1>3. \A t \in Transfers :
          /\ transfer[t] = [kind |-> "none", dryRun |-> FALSE, status |-> "absent", cancelled |-> FALSE, report |-> NoCounts]
          /\ request[t] = "idle" /\ job[t] = NoJob /\ written[t] = 0 /\ causes[t] = {} /\ late[t] = 0
          /\ torn[t] = [written |-> 0, skipped |-> 0]
    BY DEF Init
  <1>4. TransfersOK
    <2>1. NoCounts \in [ok : Nat, rest : Nat]
      BY DEF NoCounts
    <2>2. [kind |-> "none", dryRun |-> FALSE, status |-> "absent", cancelled |-> FALSE, report |-> NoCounts] \in Record
      BY <2>1 DEF Record
    <2>3. transfer \in [Transfers -> Record]
      BY <2>2 DEF Init
    <2>4. request \in [Transfers -> {"idle", "create", "enqueue"}]
      BY DEF Init
    <2>5. job \in [Transfers -> Job]
      BY <1>2 DEF Init
    <2>6. written \in [Transfers -> Nat] /\ late \in [Transfers -> Nat] /\ active \in Int
      BY DEF Init
    <2>7. causes \in [Transfers -> SUBSET Causes]
      BY DEF Init
    <2>8. torn \in [Transfers -> [written : Nat, skipped : Nat]]
      BY DEF Init
    <2> QED
      BY <2>3, <2>4, <2>5, <2>6, <2>7, <2>8 DEF TransfersOK
  <1>5. ASSUME NEW t \in Transfers
        PROVE  TransferInv(t)
    <2>1. LifeInv(t) /\ LateInv(t)
      BY <1>2, <1>3 DEF LifeInv, LateInv, Working, Untouched, At
    <2>2. CountsInv(t)
      BY <1>2, <1>3 DEF CountsInv, Tallies, At
    <2>3. transfer[t].status = "absent"
      BY <1>3
    <2>4. Attended(t)
      BY <2>3 DEF Attended
    <2>5. Reported(t)
      BY <2>3 DEF Reported
    <2> QED
      BY <2>1, <2>2, <2>4, <2>5 DEF TransferInv
  <1> QED
    BY <1>1, <1>4, <1>5 DEF IInv, TypeOK

LEMMA TransferNextInv ==
  ASSUME IInv, NEW t \in Transfers, TransferStep(t)
  PROVE  IInv'
  <1>1. CASE Guard(t)
    BY <1>1, GuardBeginsStep, GuardRefusesStep
  <1>2. CASE Claim(t) \/ ClaimThrows(t)
    BY <1>2, ClaimsStep, ClaimsNothingStep, ClaimThrowsStep
  <1>3. CASE Stop(t) \/ StopThrows(t)
    BY <1>3, StopContactsStep, StopOthersStep, StopThrowsStep
  <1>4. CASE \E kind \in Kinds, dryRun \in BOOLEAN : Create(t, kind, dryRun)
    BY <1>4, CreateStep
  <1>5. CASE Count(t) \/ Configure(t) \/ Start(t) \/ Enqueue(t) \/ EnqueueLost(t) \/ Cancel(t)
    BY <1>5, CountStep, ConfigureStep, StartStep, EnqueueStep, EnqueueLostStep, CancelStep
  <1>6. CASE Refuse(t) \/ Open(t) \/ OpenThrows(t) \/ CheckRow(t) \/ CheckThrows(t)
    BY <1>6, RefuseStep, OpenStep, OpenThrowsStep, CheckRowStep, CheckThrowsStep
  <1>7. CASE ExportRow(t) \/ PassRow(t) \/ SkipTorn(t) \/ DryRow(t) \/ WriteRow(t) \/ WriteTorn(t)
    BY <1>7, ExportRowStep, PassRowStep, SkipTornStep, DryRowStep, WriteRowStep, WriteTornStep
  <1>8. CASE ErrorThrows(t) \/ Finish(t) \/ After(t) \/ Throws(t) \/ Crash(t)
    BY <1>8, ErrorThrowsStep, FinishStep, AfterStep, ThrowsStep, CrashStep
  <1> QED
    BY <1>1, <1>2, <1>3, <1>4, <1>5, <1>6, <1>7, <1>8 DEF TransferStep

LEMMA NextInv == IInv /\ [Next]_vars => IInv'
  <1> SUFFICES ASSUME IInv, [Next]_vars
               PROVE  IInv'
    OBVIOUS
  <1>1. CASE FileNext /\ UNCHANGED transferVars
    <2>1. FileTypeOK' /\ FilesInv'
      BY <1>1, FileNextType, FileNextInv DEF IInv, TypeOK
    <2>2. active' \in Int
      BY <1>1 DEF IInv, TypeOK, TransfersOK, transferVars
    <2> QED
      BY <1>1, <2>1, <2>2, AloneStep DEF transferVars
  <1>2. CASE CounterExpires
    <2>1. FileTypeOK' /\ FilesInv'
      BY <1>2 DEF CounterExpires, IInv, TypeOK, FileTypeOK, FilesInv, fileVars, marks
    <2> QED
      BY <1>2, <2>1, AloneStep DEF CounterExpires
  <1>3. CASE UNCHANGED vars
    <2>1. FileTypeOK' /\ FilesInv'
      BY <1>3 DEF vars, IInv, TypeOK, FileTypeOK, FilesInv, fileVars, marks
    <2>2. active' \in Int
      BY <1>3 DEF IInv, TypeOK, TransfersOK, transferVars, vars
    <2> QED
      BY <1>3, <2>1, <2>2, AloneStep DEF vars, transferVars
  <1> QED
    BY <1>1, <1>2, <1>3, TransferNextInv DEF Next

LEMMA SpecInv == Spec => []IInv
  BY InitInv, NextInv, PTL DEF Spec

(* A file offered for download has its object, unless the cleanup or the repeated *)
(* scan that deleted it has still to write the row, or stopped before that, or    *)
(* complete deleted it after its scan was on the way (FilesService.complete and   *)
(* restore, FileProcessingProcessor and OrphanCleanupProcessor, none of which     *)
(* looks at the others).                                                          *)
THEOREM FilesHaveObjects == Spec => []ActiveHasObject
  <1>1. IInv => ActiveHasObject
    BY DEF IInv, FilesInv, ActiveHasObject
  <1> QED
    BY <1>1, SpecInv, PTL

(* A queued or running transfer without a job under way has lost it to one of the *)
(* causes the code does not repair.                                               *)
THEOREM StrandedHasCause == Spec => []StrandedNeedsCause
  <1>1. ASSUME IInv, NEW t \in Transfers, Unattended(t)
        PROVE  /\ transfer[t].status = "queued" =>
                    causes[t] \intersect {"enqueue lost", "refused", "attempts", "died"} # {}
               /\ transfer[t].status = "running" => causes[t] \intersect {"not opened", "died", "end lost"} # {}
    <2>1. Attended(t) /\ request[t] = "idle" /\ job[t].state \notin {"waiting", "active"}
      BY <1>1 DEF IInv, TransferInv, Unattended
    <2> QED
      BY <2>1 DEF Attended, At, Working
  <1>2. IInv => StrandedNeedsCause
    BY <1>1 DEF StrandedNeedsCause
  <1> QED
    BY <1>2, SpecInv, PTL

(* After a cancellation at most the row in progress reaches the collection        *)
(* (isCancelled, asked before every row).                                         *)
THEOREM CancellationStopsRows == Spec => []LateRowsBounded
  <1>1. IInv => LateRowsBounded
    BY DEF IInv, TransferInv, LateInv, LateRowsBounded
  <1> QED
    BY <1>1, SpecInv, PTL

(* A completed transfer reports every row once and, as successes, what it wrote,  *)
(* but for the rows whose receipt failed, however often its job was repeated; a   *)
(* completed dry run has written nothing.                                         *)
THEOREM ReportsAreTruthful == Spec => []ReportTruthful
  <1>1. IInv => ReportTruthful
    BY DEF IInv, TransferInv, Reported, ReportTruthful
  <1> QED
    BY <1>1, SpecInv, PTL

(* What ClosedStays asks of a step. *)
Stays ==
  \A t \in Transfers :
    transfer[t].status \in Closed /\ transfer'[t].status # transfer[t].status =>
      Contacts(t) /\ At(t, job[t].at) /\ job[t].at \in {"row", "finish", "after"}

LEMMA NextStays == IInv /\ [Next]_vars => Stays
  <1> SUFFICES ASSUME IInv, [Next]_vars, NEW t \in Transfers,
                      transfer[t].status \in Closed, transfer'[t].status # transfer[t].status
               PROVE  Contacts(t) /\ At(t, job[t].at) /\ job[t].at \in {"row", "finish", "after"}
    BY DEF Stays
  <1>1. TransfersOK /\ TransferInv(t) /\ transfer \in [Transfers -> Record]
    BY DEF IInv, TypeOK, TransfersOK
  <1>2. PICK u \in Transfers : TransferStep(u)
    BY DEF Next, CounterExpires, transferVars, vars
  <1>3. \/ \E kind \in Kinds, dryRun \in BOOLEAN : Create(u, kind, dryRun)
        \/ Configure(u) \/ Start(u) \/ Cancel(u) \/ Claim(u) \/ Stop(u) \/ StopThrows(u)
        \/ ErrorThrows(u) \/ Finish(u) \/ Throws(u)
    BY <1>2 DEF TransferStep, Count, Enqueue, EnqueueLost, Refuse, Guard, ClaimThrows, Open, OpenThrows,
       CheckRow, CheckThrows, ExportRow, PassRow, SkipTorn, DryRow, WriteRow, WriteTorn, Writes, After, Crash
  <1>4. CASE \E kind \in Kinds, dryRun \in BOOLEAN : Create(u, kind, dryRun)
    <2>1. request[u] = "create" /\ \A v \in Transfers : v # u => transfer'[v] = transfer[v]
      BY <1>1, <1>4 DEF Create
    <2>2. t = u
      BY <2>1
    <2> QED
      BY <1>1, <2>1, <2>2 DEF TransferInv, LifeInv, Closed
  <1>5. CASE Configure(u) \/ Start(u) \/ Cancel(u)
    <2>1. transfer[u].status \in Live /\ \A v \in Transfers : v # u => transfer'[v] = transfer[v]
      BY <1>1, <1>5 DEF Configure, Start, Cancel, SetStatus, Live
    <2> QED
      BY <2>1 DEF Live, Closed
  <1>6. CASE Claim(u)
    <2>1. transfer' = transfer \/ (transfer[u].status = "queued" /\ SetStatus(u, "running"))
      BY <1>6 DEF Claim
    <2>2. \A v \in Transfers : v # u => transfer'[v] = transfer[v]
      BY <1>1, <2>1 DEF SetStatus
    <2> QED
      BY <2>1, <2>2 DEF Closed
  <1>7. CASE Stop(u) \/ StopThrows(u)
    <2>1. At(u, "row") /\ (transfer' = transfer \/ (Contacts(u) /\ SetStatus(u, "cancelled")))
      BY <1>7 DEF Stop, StopThrows
    <2>2. \A v \in Transfers : v # u => transfer'[v] = transfer[v]
      BY <1>1, <2>1 DEF SetStatus
    <2> QED
      BY <2>1, <2>2 DEF At
  <1>8. ASSUME NEW status \in Closed, NEW report \in [ok : Nat, rest : Nat], Settle(u, status, report),
               job[u].state = "active", job[u].at \in {"row", "finish", "after"}
        PROVE  Contacts(t) /\ At(t, job[t].at) /\ job[t].at \in {"row", "finish", "after"}
    <2>1. /\ \A v \in Transfers : v # u => transfer'[v] = transfer[v]
          /\ Settles(u, status) \/ transfer'[u] = transfer[u]
      BY <1>1, <1>8, SettleIs
    <2>2. t = u
      BY <2>1
    <2>3. Settles(t, status)
      BY <2>1, <2>2
    <2>4. Contacts(t)
      BY <2>3 DEF Settles, Closed
    <2> QED
      BY <1>8, <2>2, <2>4 DEF At
  <1>9. CASE Finish(u)
    <2>1. job[u] \in Job
      BY <1>1 DEF TransfersOK
    <2>2. [ok |-> job[u].ok, rest |-> job[u].rest] \in [ok : Nat, rest : Nat]
      BY <2>1 DEF Job
    <2>3. /\ Settle(u, "completed", [ok |-> job[u].ok, rest |-> job[u].rest])
          /\ job[u].state = "active" /\ job[u].at = "finish" /\ "completed" \in Closed
      BY <1>9 DEF Finish, At, Closed
    <2> QED
      BY <1>8, <2>2, <2>3
  <1>10. CASE Throws(u)
    <2>1. transfer[u].report \in [ok : Nat, rest : Nat]
      BY <1>1 DEF Record
    <2>2. transfer' # transfer
      OBVIOUS
    <2>3. /\ Settle(u, "failed", transfer[u].report) /\ "failed" \in Closed
          /\ job[u].state = "active" /\ job[u].at \in {"row", "finish", "after"}
      BY <1>10, <2>2 DEF Throws, Fails, Caught, Closed
    <2> QED
      BY <1>8, <2>1, <2>3
  <1>11. CASE ErrorThrows(u)
    <2>1. At(u, "write") /\ transfer[u].kind = "import" /\ Fails(u)
      BY <1>11 DEF ErrorThrows
    <2>2. TransferInv(u)
      BY DEF IInv
    <2>3. /\ \A v \in Transfers : v # u => transfer'[v] = transfer[v]
          /\ transfer'[u] = transfer[u] \/ Settles(u, "failed")
      <3>1. transfer[u].report \in [ok : Nat, rest : Nat]
        BY <1>1 DEF Record
      <3>2. transfer' = transfer \/ Settle(u, "failed", transfer[u].report)
        BY <2>1 DEF Fails, Caught
      <3> QED
        BY <1>1, <3>1, <3>2, SettleIs DEF Closed
    <2>4. transfer[u].status = "running"
      BY <2>1, <2>3 DEF Settles, Contacts
    <2> QED
      BY <2>3, <2>4 DEF Closed
  <1> QED
    BY <1>3, <1>4, <1>5, <1>6, <1>7, <1>9, <1>10, <1>11

(* A closed transfer keeps its status, whatever still runs, except under the last *)
(* writes of a contact import, which do not look at it (contact-import.processor).*)
THEOREM ClosedTransferStays == Spec => ClosedStays
  <1>1. IInv /\ [Next]_vars => [Stays]_vars
    BY NextStays
  <1>2. Spec => [][Stays]_vars
    BY <1>1, SpecInv, PTL DEF Spec
  <1> QED
    BY <1>2 DEF ClosedStays, Stays

=============================================================================
