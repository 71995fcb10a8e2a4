----------------------------- MODULE MissionSave -----------------------------
(***************************************************************************)
(* Saving a mission while the game goes on (cmd/ocap_recorder: the handlers *)
(* of :MISSION:SAVE: and :MISSION:START:, runMissionSaveWorker) on top of   *)
(* the memory backend.                                                      *)
(*                                                                          *)
(* The game thread calls the two commands.  An accepted save runs in a      *)
(* goroutine of its own: it ends the mission, reads the path of the export, *)
(* then the metadata, uploads both and reports :MISSION:SAVED:.  A start    *)
(* waits in a channel of capacity one and is handled by another goroutine,  *)
(* and the recording handlers keep calling the backend, so all three        *)
(* interleave between any two calls of the backend.                         *)
(***************************************************************************)
EXTENDS MemoryBackend

CONSTANTS
    MaxSaves,    \* bound: accepted :MISSION:SAVE: commands
    MaxStarts    \* bound: :MISSION:START: commands

Saves == 1..MaxSaves

ASSUME SaveAssumption == MaxSaves \in Nat /\ MaxStarts \in Nat

VARIABLES
    inFlight,    \* missionSaveState.inFlight
    client,      \* is apiClient set?
    saves,       \* number of saves accepted ("queued")
    worker,      \* worker[s]: the goroutine of save s
    startq,      \* channel of :MISSION:START: (capacity 1)
    starting,    \* the mission whose handler is running, or None
    starts,      \* number of :MISSION:START: commands so far
    uploads,     \* history: the file and metadata of every upload request
    reports      \* history: the :MISSION:SAVED: callbacks, in order

svars == <<inFlight, client, saves, worker, startq, starting, starts, uploads,
           reports>>
allvars == <<bvars, svars>>

\* A save goroutine.  pc names the call it makes next; file is the file its
\* EndMission wrote and quiet says that no mission started since.
Unborn == [pc |-> "unborn", client |-> FALSE, path |-> None, meta |-> None,
           result |-> "ok", file |-> None, quiet |-> TRUE]


SInit ==
    /\ BInit
    /\ inFlight = FALSE
    /\ client \in BOOLEAN
    /\ saves = 0
    /\ worker = [s \in Saves |-> Unborn]
    /\ startq = <<>>
    /\ starting = None
    /\ starts = 0
    /\ uploads = {}
    /\ reports = <<>>

-----------------------------------------------------------------------------
(* The game thread *)

CompareAndSwap == ~inFlight

\* triggerMissionSave: the flag is taken and the goroutine spawned with the
\* value apiClient has now.
TriggerSave ==
    /\ CompareAndSwap
    /\ saves < MaxSaves
    /\ inFlight' = TRUE
    /\ saves' = saves + 1
    /\ worker' = [worker EXCEPT ![saves + 1] =
                     [Unborn EXCEPT !.pc = "end", !.client = client]]
    /\ UNCHANGED <<bvars, client, startq, starting, starts, uploads, reports>>

\* "save already in progress": the command is refused.
RefuseSave ==
    /\ inFlight
    /\ UNCHANGED allvars

\* :MISSION:START: is queued; with the channel full the game thread would wait.
QueueStart(m) ==
    /\ starts < MaxStarts
    /\ startq = <<>>
    /\ starts' = starts + 1
    /\ startq' = <<m>>
    /\ UNCHANGED <<bvars, inFlight, client, saves, worker, starting, uploads,
                   reports>>

\* initAPIClient, in its own goroutine, sets apiClient.
ClientReady ==
    /\ ~client
    /\ client' = TRUE
    /\ UNCHANGED <<bvars, inFlight, saves, worker, startq, starting, starts,
                   uploads, reports>>

-----------------------------------------------------------------------------
(* The goroutine of :MISSION:START: *)

\* It takes the event and parses it; a parse error ends the handler.
TakeStart ==
    /\ starting = None
    /\ startq # <<>>
    /\ starting' \in {Head(startq), None}
    /\ startq' = Tail(startq)
    /\ UNCHANGED <<bvars, inFlight, client, saves, worker, starts, uploads,
                   reports>>

\* storageBackend.StartMission.
BackendStart ==
    /\ starting # None
    /\ StartMission(starting)
    /\ starting' = None
    /\ worker' = [s \in Saves |->
                     IF worker[s].pc \in {"path", "meta"}
                     THEN [worker[s] EXCEPT !.quiet = FALSE] ELSE worker[s]]
    /\ UNCHANGED <<inFlight, client, saves, startq, starts, uploads, reports>>

-----------------------------------------------------------------------------
(* The goroutine of a save *)

Advance(s, rec) == worker' = [worker EXCEPT ![s] = rec]

\* EndMission: an error (no mission, failed export, panic in the exporter)
\* goes straight to the report.
WorkerEnd(s) ==
    /\ worker[s].pc = "end"
    /\ \/ /\ EndSucceeds
          /\ Advance(s, [worker[s] EXCEPT !.pc = "path", !.file = lastPath'])
       \/ /\ EndFails \/ EndWithoutMission
          /\ Advance(s, [worker[s] EXCEPT !.pc = "report", !.result = "error"])
    /\ UNCHANGED <<inFlight, client, saves, startq, starting, starts, uploads,
                   reports>>

\* GetExportedFilePath.  Without a client, or without a path, there is nothing
\* to upload.
WorkerPath(s) ==
    /\ worker[s].pc = "path"
    /\ Advance(s, [worker[s] EXCEPT
                     !.path = lastPath,
                     !.pc = IF worker[s].client /\ lastPath # None
                            THEN "meta" ELSE "report"])
    /\ UNCHANGED <<bvars, inFlight, client, saves, startq, starting, starts,
                   uploads, reports>>

\* (As it would be if the metadata were always computed live.)
LiveMetadata == computeExportMetadata
\* GetExportMetadata.
Metadata == GetExportMetadata

WorkerMeta(s) ==
    /\ worker[s].pc = "meta"
    /\ Advance(s, [worker[s] EXCEPT !.pc = "upload", !.meta = Metadata])
    /\ UNCHANGED <<bvars, inFlight, client, saves, startq, starting, starts,
                   uploads, reports>>

\* client.Upload succeeds, fails ("partial") or panics (recovered: "error").
WorkerUpload(s) ==
    /\ worker[s].pc = "upload"
    /\ uploads' = uploads \union
          {[save |-> s, path |-> worker[s].path, meta |-> worker[s].meta]}
    /\ \E r \in {"ok", "partial", "error"} :
          Advance(s, [worker[s] EXCEPT !.pc = "report", !.result = r])
    /\ UNCHANGED <<bvars, inFlight, client, saves, startq, starting, starts,
                   reports>>

\* (As it would be if a save that failed returned without reporting.)
ReportUnlessError(s) ==
    /\ worker[s].pc = "report"
    /\ reports' = IF worker[s].result = "error" THEN reports
                  ELSE Append(reports, [save |-> s, result |-> worker[s].result,
                                        path |-> worker[s].path])
    /\ Advance(s, [worker[s] EXCEPT !.pc = "clear"])
    /\ UNCHANGED <<bvars, inFlight, client, saves, startq, starting, starts,
                   uploads>>

\* The :MISSION:SAVED: callback; an error is reported without the path.
WorkerReport(s) ==
    /\ worker[s].pc = "report"
    /\ reports' = Append(reports,
          [save |-> s, result |-> worker[s].result,
           path |-> IF worker[s].result = "error" THEN None
                    ELSE worker[s].path])
    /\ Advance(s, [worker[s] EXCEPT !.pc = "clear"])
    /\ UNCHANGED <<bvars, inFlight, client, saves, startq, starting, starts,
                   uploads>>

\* (As it would be if only a save that succeeded cleared the flag.)
ClearOnSuccess(s) ==
    /\ worker[s].pc = "clear"
    /\ inFlight' = (worker[s].result = "error")
    /\ Advance(s, [worker[s] EXCEPT !.pc = "done"])
    /\ UNCHANGED <<bvars, client, saves, startq, starting, starts, uploads,
                   reports>>

\* The deferred state.inFlight.Store(false).
WorkerClear(s) ==
    /\ worker[s].pc = "clear"
    /\ inFlight' = FALSE
    /\ Advance(s, [worker[s] EXCEPT !.pc = "done"])
    /\ UNCHANGED <<bvars, client, saves, startq, starting, starts, uploads,
                   reports>>

Worker(s) == WorkerEnd(s) \/ WorkerPath(s) \/ WorkerMeta(s) \/ WorkerUpload(s)
                \/ WorkerReport(s) \/ WorkerClear(s)

-----------------------------------------------------------------------------
\* The recording handlers go on calling the backend during a save.
Recording ==
    /\ \E i \in ObjIds :
          \/ \E d \in Data : AddEntity("soldier", i, d)
          \/ \E s \in Samples :
                /\ entities["soldier"][i] # None =>
                      Len(entities["soldier"][i].states) < MaxSamples
                /\ RecordSample("soldier", i, s)
    /\ UNCHANGED svars

Starter == TakeStart \/ BackendStart

SNext ==
    \/ TriggerSave
    \/ RefuseSave
    \/ \E m \in Missions : QueueStart(m)
    \/ ClientReady
    \/ Starter
    \/ \E s \in Saves : Worker(s)
    \/ Recording

SSpec == SInit /\ [][SNext]_allvars

\* Goroutines run; EndMission and Upload return (the upload has a timeout).
SFairSpec == /\ SSpec
             /\ WF_allvars(Starter)
             /\ \A s \in Saves : WF_allvars(Worker(s))

-----------------------------------------------------------------------------
\* Every save that ended was reported exactly once, and the reports come in
\* the order the saves were accepted (runMissionSaveWorker: every return path
\* of the closure leads to the switch that builds the callback).
ReportedOnceInOrder ==
    /\ \A i \in DOMAIN reports : reports[i].save = i
    /\ \A s \in Saves : worker[s].pc \in {"clear", "done"} => s <= Len(reports)
    /\ Len(reports) <= saves

\* When no mission starts between EndMission and GetExportMetadata, the file
\* that is uploaded is the one this save wrote and the metadata is that of this
\* file.
QuietUploadMatchesFile ==
    \A u \in uploads : worker[u.save].quiet =>
        /\ u.path = worker[u.save].file
        /\ DescribesFile(u.meta, files[u.path])

\* Every accepted save is eventually reported, whatever fails, and the flag
\* never stays set: after a failure or a panic the next save is possible again
\* (the test's "inFlight must be cleared even after panic").
SavesAreReported ==
    /\ \A s \in Saves :
          s <= saves ~> \E i \in DOMAIN reports : reports[i].save = s
    /\ []<>~inFlight

-----------------------------------------------------------------------------
(* A statement of a comment that the code does not keep *)

\* Comment of GetExportMetadata: it "returns metadata about the last export";
\* "If a mission is active (before EndMission), computes metadata from live
\* data".  The worker calls it after EndMission, to upload what it returns with
\* the path of the last export.
UploadMatchesFile ==
    \A u \in uploads : DescribesFile(u.meta, files[u.path])
=============================================================================
