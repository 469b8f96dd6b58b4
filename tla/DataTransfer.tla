---------------------------- MODULE DataTransfer -----------------------------
(***************************************************************************)
(* Imports and exports of one workspace and the file they are made from:   *)
(* DataTransferService (create, start, cancel), the DataImportProcessor    *)
(* and DataExportProcessor of the API (apps/api/src/modules/data-transfer) *)
(* and, for contacts, the contact import of the worker application         *)
(* (apps/worker/src) behind its ExecutionGuard.  Files is the component    *)
(* the source file belongs to: an import takes no reference to it.         *)
(*                                                                         *)
(* A transfer has one job, whose id is the transfer's, so a job is part    *)
(* of its transfer.  Kinds: "contacts" (worker application), "import"      *)
(* (the other entities), "export".  A row is a number; what becomes of it  *)
(* (written, skipped by the duplicate policy, refused) is open.  Receipts  *)
(* are not kept: only a second pass over the rows would ask for them, and  *)
(* a transfer is claimed once.  Progress reports, which change no status,  *)
(* are left out.  A call that throws may have had its effect, and an       *)
(* outage (one fault) may also take the write of the catch that follows.   *)
(***************************************************************************)
EXTENDS Files

CONSTANTS
  Transfers,
  Rows,           \* rows of the source, or documents of the export
  Capacity,       \* draft, queued and running transfers a workspace may have (5)
  GuardLimit,     \* WORKER_WORKSPACE_CONCURRENCY (2)
  JobAttempts     \* attempts of a transfer's job (5)

ASSUME TransferAssumption ==
  {Rows, Capacity, GuardLimit, JobAttempts} \subseteq Nat \ {0}

VARIABLES
  transfer, \* DataTransferJob: kind, dryRun, status, cancelRequested and the report: rows that
            \* succeeded (ok), rows skipped or in error (rest)
  request,  \* the API call of each transfer between two of its calls
  job,      \* its BullMQ job and, while it is active, where process() is
  written,  \* how many rows have reached the collection
  active,   \* ExecutionGuard's counter of the workspace
  causes,   \* history: what has cost the transfer its job
  late,     \* history: rows written after the transfer was cancelled
  torn      \* history: rows written, and rows skipped, whose receipt failed

transferVars == <<transfer, request, job, written, active, causes, late, torn>>
vars == <<fileVars, faults, transferVars>>

Kinds == {"contacts", "import", "export"}
Closed == {"completed", "failed", "cancelled"}
Live == {"draft", "queued", "running"}
NoCounts == [ok |-> 0, rest |-> 0]
NoJob ==
  [state |-> "none", at |-> "none", row |-> 0, made |-> 0, stalls |-> 0, ok |-> 0, rest |-> 0]

Init ==
  /\ FileInit
  /\ transfer = [t \in Transfers |-> [kind |-> "none", dryRun |-> FALSE, status |-> "absent",
                                      cancelled |-> FALSE, report |-> NoCounts]]
  /\ request = [t \in Transfers |-> "idle"]
  /\ job = [t \in Transfers |-> NoJob]
  /\ written = [t \in Transfers |-> 0]
  /\ active = 0
  /\ causes = [t \in Transfers |-> {}]
  /\ late = [t \in Transfers |-> 0] /\ torn = [t \in Transfers |-> [written |-> 0, skipped |-> 0]]

SetStatus(t, status) == transfer' = [transfer EXCEPT ![t].status = status]

-----------------------------------------------------------------------------
(* The API.                                                                *)

\* assertCapacity: counts, and later creates.
Count(t) ==
  /\ request[t] = "idle" /\ transfer[t].status = "absent"
  /\ Cardinality({u \in Transfers : transfer[u].status \in Live}) < Capacity
  /\ request' = [request EXCEPT ![t] = "create"]
  /\ UNCHANGED <<fileVars, transfer, job, written, active, causes, late, torn, faults>>

\* createImport needs an active file with its object, for the preview; createExport needs none.
Create(t, kind, dryRun) ==
  /\ request[t] = "create"
  /\ IF kind = "export" THEN ~dryRun ELSE file = "active" /\ stored
  /\ request' = [request EXCEPT ![t] = "idle"]
  /\ transfer' = [transfer EXCEPT ![t].kind = kind, ![t].dryRun = dryRun, ![t].status = "draft"]
  /\ UNCHANGED <<fileVars, job, written, active, causes, late, torn, faults>>

\* configure may turn a draft into a dry run and back.
Configure(t) ==
  /\ transfer[t].status = "draft" /\ transfer[t].kind # "export"
  /\ transfer' = [transfer EXCEPT ![t].dryRun = ~@]
  /\ UNCHANGED <<fileVars, request, job, written, active, causes, late, torn, faults>>

\* start; createExport calls it itself.
Start(t) ==
  /\ transfer[t].status = "draft" /\ request[t] = "idle"
  /\ request' = [request EXCEPT ![t] = "enqueue"]
  /\ SetStatus(t, "queued")
  /\ UNCHANGED <<fileVars, job, written, active, causes, late, torn, faults>>

Enqueue(t) ==
  /\ request[t] = "enqueue"
  /\ request' = [request EXCEPT ![t] = "idle"]
  /\ job' = [job EXCEPT ![t].state = "waiting"]
  /\ UNCHANGED <<fileVars, transfer, written, active, causes, late, torn, faults>>

\* The job is not added, or start has already lost the answer of its update.
EnqueueLost(t) ==
  /\ request[t] = "enqueue" /\ Fault
  /\ request' = [request EXCEPT ![t] = "idle"]
  /\ causes' = [causes EXCEPT ![t] = @ \union {"enqueue lost"}]
  /\ UNCHANGED <<fileVars, transfer, job, written, active, late, torn>>

Cancel(t) ==
  /\ transfer[t].status \in Live
  /\ transfer' = [transfer EXCEPT ![t].status = "cancelled", ![t].cancelled = TRUE]
  /\ UNCHANGED <<fileVars, request, job, written, active, causes, late, torn, faults>>

-----------------------------------------------------------------------------
(* The workers.                                                            *)

At(t, at) == job[t].state = "active" /\ job[t].at = at
Goes(t, at) == job' = [job EXCEPT ![t].at = at]
NextRow(t) ==
  [job[t] EXCEPT !.at = IF job[t].row < Rows THEN "row" ELSE "finish", !.row = @ + 1]
Contacts(t) == transfer[t].kind = "contacts"
StallLimit(t) == IF Contacts(t) THEN 2 ELSE 1

\* The finally of the guard.
Releases(t) == active' = IF Contacts(t) THEN active - 1 ELSE active

\* Outside of process() a job holds no place, row or count; an ended one nothing at all.
Ended == [NoJob EXCEPT !.state = "done"]
Waits(t) == [NoJob EXCEPT !.state = "waiting", !.made = job[t].made, !.stalls = job[t].stalls]
Begins(t, at) ==
  job' = [job EXCEPT ![t] = [Waits(t) EXCEPT !.state = "active", !.at = at, !.row = 1]]

JobEnds(t) == job' = [job EXCEPT ![t] = Ended]
LastAttempt(t) == job[t].made + 1 >= JobAttempts
JobThrew(t) ==
  job' = [job EXCEPT ![t] = IF LastAttempt(t) THEN Ended ELSE [Waits(t) EXCEPT !.made = @ + 1]]
Cause(t, cause) == causes' = [causes EXCEPT ![t] = @ \union {cause}]

\* The worker application fails the job for good: an export's job, which it takes from a queue of
\* the same name, is not an envelope; a contact import may be two hours old.
Refuse(t) ==
  /\ job[t].state = "waiting" /\ transfer[t].kind # "import"
  /\ JobEnds(t)
  /\ Cause(t, "refused")
  /\ UNCHANGED <<fileVars, transfer, request, written, active, late, torn, faults>>

\* A contact import starts with ExecutionGuard.execute: the counter goes up, and down again if
\* that is too many.
Guard(t) ==
  /\ Contacts(t) /\ job[t].state = "waiting"
  /\ IF active < GuardLimit
     THEN active' = active + 1 /\ Begins(t, "claim") /\ UNCHANGED causes
     ELSE /\ JobThrew(t) /\ UNCHANGED active
          /\ IF LastAttempt(t) THEN Cause(t, "attempts") ELSE UNCHANGED causes
  /\ UNCHANGED <<fileVars, transfer, request, written, late, torn, faults>>

\* The counter of dead workers expires when no job of the workspace renews it.
CounterExpires ==
  /\ active > 0 /\ \A t \in Transfers : ~(Contacts(t) /\ job[t].state = "active")
  /\ active' = 0
  /\ UNCHANGED <<fileVars, transfer, request, job, written, causes, late, torn, faults>>

\* claim: one queued, not cancelled transfer; a repeated job finds none and ends.
Claim(t) ==
  /\ IF Contacts(t) THEN At(t, "claim") ELSE job[t].state = "waiting"
  /\ IF transfer[t].status = "queued" /\ ~transfer[t].cancelled
     THEN Begins(t, "open") /\ SetStatus(t, "running") /\ UNCHANGED active
     ELSE JobEnds(t) /\ Releases(t) /\ UNCHANGED transfer
  /\ UNCHANGED <<fileVars, request, written, causes, late, torn, faults>>

\* The claim throws without effect, or the guard does before it; with effect, its answer lost, it
\* is a claim whose source is not opened.
ClaimThrows(t) ==
  /\ IF Contacts(t) THEN At(t, "claim") ELSE job[t].state = "waiting"
  /\ Fault
  /\ JobThrew(t) /\ Releases(t)
  /\ IF LastAttempt(t) THEN Cause(t, "attempts") ELSE UNCHANGED causes
  /\ UNCHANGED <<fileVars, transfer, request, written, late, torn>>

SourceMissing(t) ==
  \/ transfer[t].kind = "import" /\ ~stored
  \/ Contacts(t) /\ (file # "active" \/ ~stored)

Open(t) ==
  /\ At(t, "open") /\ ~SourceMissing(t)
  /\ Goes(t, "row")
  /\ UNCHANGED <<fileVars, transfer, request, written, active, causes, late, torn, faults>>

\* The source is opened before the try: the error leaves the transfer running, and no later
\* attempt can claim it.
OpenThrows(t) ==
  /\ At(t, "open")
  /\ \/ SourceMissing(t) /\ UNCHANGED faults
     \/ ~SourceMissing(t) /\ Fault
  /\ JobThrew(t) /\ Releases(t)
  /\ Cause(t, "not opened")
  /\ UNCHANGED <<fileVars, transfer, request, written, late, torn>>

\* Mutant of MustStop: an import that has begun is not looked at again.
MustStopAtFirst(t) == transfer[t].cancelled /\ job[t].row = 1

\* isCancelled, asked before every row.
MustStop(t) == transfer[t].cancelled

CheckRow(t) ==
  /\ At(t, "row") /\ ~MustStop(t)
  /\ Goes(t, "write")
  /\ UNCHANGED <<fileVars, transfer, request, written, active, causes, late, torn, faults>>

\* The job ends well; the contact import also writes the status, and its signal of two minutes
\* stops it in the same way.
Stop(t) ==
  /\ At(t, "row")
  /\ MustStop(t) \/ Contacts(t)
  /\ IF Contacts(t) THEN SetStatus(t, "cancelled") ELSE UNCHANGED transfer
  /\ JobEnds(t) /\ Releases(t)
  /\ UNCHANGED <<fileVars, request, written, causes, late, torn, faults>>

\* That write throws, and the job with it: nothing, or the same, has been written.
StopThrows(t) ==
  /\ At(t, "row") /\ Contacts(t) /\ Fault
  /\ \/ SetStatus(t, "cancelled") /\ UNCHANGED causes
     \/ UNCHANGED transfer /\ Cause(t, "end lost")
  /\ JobThrew(t) /\ Releases(t)
  /\ UNCHANGED <<fileVars, request, written, late, torn>>

-----------------------------------------------------------------------------
(* One row.                                                                *)

ExportRow(t) ==
  /\ At(t, "write") /\ transfer[t].kind = "export"
  /\ job' = [job EXCEPT ![t] = [NextRow(t) EXCEPT !.ok = @ + 1]]
  /\ UNCHANGED <<fileVars, transfer, request, written, active, causes, late, torn, faults>>

\* The row is refused (a throwing call counts as that), or it is a duplicate and the policy is to
\* skip those.
PassRow(t) ==
  /\ At(t, "write") /\ transfer[t].kind # "export"
  /\ job' = [job EXCEPT ![t] = [NextRow(t) EXCEPT !.rest = @ + 1]]
  /\ UNCHANGED <<fileVars, transfer, request, written, active, causes, late, torn, faults>>

\* The contact import asks for the cancellation inside the try of the row: if that throws, the
\* row is refused without an answer.
CheckThrows(t) ==
  /\ At(t, "row") /\ Contacts(t) /\ Fault
  /\ job' = [job EXCEPT ![t] = [NextRow(t) EXCEPT !.rest = @ + 1]]
  /\ UNCHANGED <<fileVars, transfer, request, written, active, causes, late, torn>>

\* The API's import also writes a receipt for a skipped row: if that throws, the row is counted
\* as an error too.  A dry run looks for no duplicate.
SkipTorn(t) ==
  /\ At(t, "write") /\ transfer[t].kind = "import" /\ ~transfer[t].dryRun /\ Fault
  /\ torn' = [torn EXCEPT ![t].skipped = @ + 1]
  /\ job' = [job EXCEPT ![t] = [NextRow(t) EXCEPT !.rest = @ + 2]]
  /\ UNCHANGED <<fileVars, transfer, request, written, active, causes, late>>

\* A dry run counts the row as a success without writing it.
DryRow(t) ==
  /\ At(t, "write") /\ transfer[t].dryRun
  /\ job' = [job EXCEPT ![t] = [NextRow(t) EXCEPT !.ok = @ + 1]]
  /\ UNCHANGED <<fileVars, transfer, request, written, active, causes, late, torn, faults>>

\* The row reaches the collection.
Writes(t) ==
  /\ At(t, "write") /\ transfer[t].kind # "export" /\ ~transfer[t].dryRun
  /\ written' = [written EXCEPT ![t] = @ + 1]
  /\ late' = [late EXCEPT ![t] = IF transfer[t].cancelled THEN @ + 1 ELSE @]

\* Mutant of WriteRow: a written row is also counted as skipped.
WriteRowTwice(t) ==
  /\ Writes(t)
  /\ job' = [job EXCEPT ![t] = [NextRow(t) EXCEPT !.ok = @ + 1, !.rest = @ + 1]]
  /\ UNCHANGED <<fileVars, transfer, request, active, causes, torn, faults>>

WriteRow(t) ==
  /\ Writes(t)
  /\ job' = [job EXCEPT ![t] = [NextRow(t) EXCEPT !.ok = @ + 1]]
  /\ UNCHANGED <<fileVars, transfer, request, active, causes, torn, faults>>

\* The write itself throws with its effect, or the receipt does: the row is in the collection and
\* counted as an error.
WriteTorn(t) ==
  /\ Writes(t) /\ Fault
  /\ torn' = [torn EXCEPT ![t].written = @ + 1]
  /\ job' = [job EXCEPT ![t] = [NextRow(t) EXCEPT !.rest = @ + 1]]
  /\ UNCHANGED <<fileVars, transfer, request, active, causes>>

-----------------------------------------------------------------------------
(* The end of a job.                                                       *)

\* Mutant of Settles: the filter on the running status is forgotten.
SettlesAny(t, status) == TRUE

\* progress writes to a running transfer; the updates of the contact import have no filter.
Settles(t, status) == Contacts(t) \/ transfer[t].status = "running"

Settle(t, status, report) ==
  transfer' = IF Settles(t, status)
              THEN [transfer EXCEPT ![t].status = status, ![t].report = report] ELSE transfer

\* The final update; the event or the notification comes after it.
Finish(t) ==
  /\ At(t, "finish")
  /\ Settle(t, "completed", [ok |-> job[t].ok, rest |-> job[t].rest])
  /\ Goes(t, "after")
  /\ UNCHANGED <<fileVars, request, written, active, causes, late, torn, faults>>

After(t) ==
  /\ At(t, "after")
  /\ JobEnds(t) /\ Releases(t)
  /\ UNCHANGED <<fileVars, transfer, request, written, causes, late, torn, faults>>

\* Mutant of Caught: the catch rethrows without writing the failure.
CaughtOnly(t) == transfer' = transfer

\* The catch around the rows.
Caught(t) == Settle(t, "failed", transfer[t].report)

\* The job fails through that catch, whose own write may be lost too: then nothing says failed.
Fails(t) ==
  /\ \/ Caught(t) /\ UNCHANGED causes
     \/ UNCHANGED transfer /\ Cause(t, "end lost")
  /\ JobThrew(t) /\ Releases(t)

\* The stream, the report or what follows the final update throws (a final update that is written
\* and throws is one followed by that).
Throws(t) ==
  /\ job[t].state = "active" /\ job[t].at \in {"row", "finish", "after"} /\ Fault
  /\ Fails(t)
  /\ UNCHANGED <<fileVars, request, written, late, torn>>

\* The API's import keeps the errors of its rows: if that throws, for a row refused or one written
\* without its receipt, the import fails.
ErrorThrows(t) ==
  /\ At(t, "write") /\ transfer[t].kind = "import" /\ Fault
  /\ Writes(t) \/ UNCHANGED <<written, late>>
  /\ Fails(t)
  /\ UNCHANGED <<fileVars, request, torn>>

\* A worker dies: its job stalls and is taken again, up to a limit; what it counted is lost and
\* the counter of the guard keeps it.
Crash(t) ==
  /\ job[t].state = "active" /\ Fault
  /\ job' = [job EXCEPT ![t] = IF job[t].stalls < StallLimit(t)
                               THEN [Waits(t) EXCEPT !.stalls = @ + 1] ELSE Ended]
  /\ Cause(t, "died")
  /\ UNCHANGED <<fileVars, transfer, request, written, active, late, torn>>

TransferStep(t) ==
  \/ Count(t) \/ \E kind \in Kinds, dryRun \in BOOLEAN : Create(t, kind, dryRun)
  \/ Configure(t) \/ Start(t) \/ Enqueue(t) \/ EnqueueLost(t) \/ Cancel(t)
  \/ Refuse(t) \/ Guard(t) \/ Claim(t) \/ ClaimThrows(t) \/ Open(t) \/ OpenThrows(t)
  \/ CheckRow(t) \/ CheckThrows(t) \/ Stop(t) \/ StopThrows(t)
  \/ ExportRow(t) \/ PassRow(t) \/ SkipTorn(t) \/ DryRow(t) \/ WriteRow(t) \/ WriteTorn(t)
  \/ ErrorThrows(t) \/ Finish(t) \/ After(t) \/ Throws(t) \/ Crash(t)

Next ==
  \/ FileNext /\ UNCHANGED transferVars
  \/ CounterExpires
  \/ \E t \in Transfers : TransferStep(t)

Spec == Init /\ [][Next]_vars

-----------------------------------------------------------------------------
Unattended(t) == request[t] = "idle" /\ job[t].state \in {"none", "done"}

\* A queued or running transfer, which counts against the workspace, has a job under way, unless
\* the call that enqueues it failed, the job was refused, or spent its attempts before the claim,
\* or (running) its source could not be opened, its worker died or the catch could not write the
\* failure: nothing repairs these.
StrandedNeedsCause ==
  \A t \in Transfers : Unattended(t) =>
    /\ transfer[t].status = "queued" =>
         causes[t] \intersect {"enqueue lost", "refused", "attempts", "died"} # {}
    /\ transfer[t].status = "running" => causes[t] \intersect {"not opened", "died", "end lost"} # {}

\* A completed, failed or cancelled transfer keeps its status, except under the last writes of a
\* contact import, which do not look at it.
ClosedStays ==
  [][\A t \in Transfers :
       transfer[t].status \in Closed /\ transfer'[t].status # transfer[t].status =>
         Contacts(t) /\ At(t, job[t].at) /\ job[t].at \in {"row", "finish", "after"}]_vars

\* After a cancellation at most the row in progress is still written.
LateRowsBounded == \A t \in Transfers : late[t] <= 1

\* The successes a transfer counts are the rows it has written, apart from those counted as errors
\* because a call threw after the write; a dry run, whose successes are rows it would write, has
\* written none.
Tallies(t, ok) ==
  IF transfer[t].dryRun THEN written[t] = 0
  ELSE transfer[t].kind # "export" => ok = written[t] - torn[t].written

\* A completed transfer reports every row once, apart from the skipped ones whose receipt failed,
\* which it reports twice, and its successes tally with what it has written.
ReportTruthful ==
  \A t \in Transfers : transfer[t].status = "completed" =>
    LET r == transfer[t].report IN
    /\ r.ok + r.rest = Rows + torn[t].skipped
    /\ Tallies(t, r.ok)

-----------------------------------------------------------------------------
(* The inductive invariant behind the properties, for one transfer. *)

Record == [kind : Kinds \union {"none"}, dryRun : BOOLEAN,
           status : Live \union Closed \union {"absent"},
           cancelled : BOOLEAN, report : [ok : Nat, rest : Nat]]
Job == [state : {"none", "waiting", "active", "done"},
        at : {"none", "claim", "open", "row", "write", "finish", "after"},
        row : Nat, made : Nat, stalls : Nat, ok : Nat, rest : Nat]
Causes == {"enqueue lost", "refused", "attempts", "died", "not opened", "end lost"}

\* A transfer is a document of data-transfer.schemas.ts, and its job one the code can leave.
TransfersOK ==
  /\ transfer \in [Transfers -> Record]
  /\ request \in [Transfers -> {"idle", "create", "enqueue"}]
  /\ job \in [Transfers -> Job]
  /\ written \in [Transfers -> Nat] /\ active \in Int
  /\ causes \in [Transfers -> SUBSET Causes]
  /\ late \in [Transfers -> Nat]
  /\ torn \in [Transfers -> [written : Nat, skipped : Nat]]
TypeOK == FileTypeOK /\ TransfersOK

\* Where the job is says what has become of the transfer.
Working(t) == job[t].state = "active" /\ job[t].at \in {"open", "row", "write", "finish"}
Untouched(t) == written[t] = 0 /\ torn[t].written = 0 /\ torn[t].skipped = 0
LifeInv(t) ==
  /\ request[t] = "create" => transfer[t].status = "absent"
  /\ request[t] = "enqueue" => transfer[t].status \notin {"absent", "draft"} /\ job[t].state = "none"
  /\ transfer[t].status \in {"absent", "draft"} => job[t].state = "none"
  /\ transfer[t].status \in {"absent", "draft", "queued"} => Untouched(t) /\ ~Working(t)
  /\ transfer[t].cancelled => transfer[t].status \in Closed
  /\ transfer[t].status = "completed" => ~Working(t)
  /\ job[t].state = "active" => job[t].at # "none"

\* The counts of a job that has opened its source agree with what it wrote.
CountsInv(t) ==
  /\ At(t, "open") => Untouched(t) /\ job[t].row = 1 /\ job[t].ok = 0 /\ job[t].rest = 0
  /\ job[t].state = "active" /\ job[t].at \in {"row", "write", "finish"} =>
       /\ job[t].ok + job[t].rest = job[t].row - 1 + torn[t].skipped
       /\ Tallies(t, job[t].ok)
       /\ IF job[t].at = "finish" THEN job[t].row = Rows + 1 ELSE job[t].row \in 1 .. Rows

\* The row in progress at a cancellation is the last: the job has been past its check by then.
LateInv(t) == late[t] <= 1 /\ (late[t] = 1 => transfer[t].cancelled /\ ~At(t, "write"))

Attended(t) ==
  /\ transfer[t].status = "queued" /\ request[t] = "idle" =>
       \/ job[t].state = "waiting" \/ At(t, "claim")
       \/ causes[t] \intersect {"enqueue lost", "refused", "attempts", "died"} # {}
  /\ transfer[t].status = "running" =>
       Working(t) \/ causes[t] \intersect {"not opened", "died", "end lost"} # {}

Reported(t) ==
  transfer[t].status = "completed" =>
    /\ transfer[t].report.ok + transfer[t].report.rest = Rows + torn[t].skipped
    /\ Tallies(t, transfer[t].report.ok)

TransferInv(t) == LifeInv(t) /\ CountsInv(t) /\ LateInv(t) /\ Attended(t) /\ Reported(t)
IInv == TypeOK /\ FilesInv /\ \A t \in Transfers : TransferInv(t)
=============================================================================
