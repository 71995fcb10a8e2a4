---------------------------- MODULE MemoryBackend ----------------------------
(***************************************************************************)
(* The in-memory storage backend (internal/storage/memory): one mission at *)
(* a time, its entities, markers, events and focus ranges, and the export  *)
(* file that EndMission writes.  Every method runs under Backend.mu, so    *)
(* each is one action.  No method but EndMission and the metadata looks at *)
(* whether a mission is active, and neither do the actions.                *)
(*                                                                         *)
(* A recorded state or lifecycle event is a sample, of which the backend   *)
(* looks at the capture frame only; an entity's other fields are its data. *)
(* The twelve lists of events that are only appended to are counters.      *)
(***************************************************************************)
EXTENDS Integers, Sequences, Functions, FiniteSets

CONSTANTS
    Missions,     \* missions passed to StartMission
    ObjIds,       \* object ids of soldiers, vehicles and placed objects
    Names,        \* marker names
    Data,         \* the other fields of an entity or marker
    Samples,      \* states of entities and markers, events of placed objects
    FrameOf,      \* FrameOf[s]: capture frame of a sample
    DeleteFrames, \* frames passed to DeleteSoldier, DeleteVehicle, DeleteMarker
    EventKinds,   \* the append-only event lists
    MaxFrame,     \* bound: largest frame
    MaxSamples,   \* bound: samples per record, events per list
    MaxMarkers,   \* bound: markers added per mission
    MaxRanges,    \* bound: completed focus ranges per mission
    MaxFiles,     \* bound: files written
    None          \* nil, absent, ""

FrameForever == 0
Frames == 0..MaxFrame
Kinds  == {"soldier", "vehicle", "placed"}
UploadMetadata ==
    [mission : Missions, endFrame : Nat, focus : Seq([start : Nat, end : Nat])]

ASSUME MemoryAssumption ==
    /\ FrameOf \in [Samples -> Frames]
    /\ DeleteFrames \subseteq Frames
    /\ MaxFrame \in Nat /\ MaxSamples \in Nat
    /\ MaxMarkers \in Nat /\ MaxRanges \in Nat /\ MaxFiles \in Nat
    /\ None \notin Missions /\ None \notin Data /\ None \notin Nat
    /\ None \notin UploadMetadata

VARIABLES
    mission,       \* Backend.mission (and world, always set with it)
    entities,      \* Backend.soldiers, vehicles, placed: [kind][id] -> record
    markers,       \* Backend.markers: name -> ID of the record it points to
    markersByID,   \* Backend.markersByID: the records, in order of ID
    events,        \* number of events in each append-only list
    focusRanges,   \* completed focus ranges
    focusOpen,     \* Backend.focusOpenStart
    lastPath,      \* Backend.lastExportPath: index of the file, None for ""
    lastMeta,      \* Backend.lastExportMetadata
    files          \* what was written to each export file

bvars == <<mission, entities, markers, markersByID, events, focusRanges,
           focusOpen, lastPath, lastMeta, files>>

Collections ==
    <<entities, markers, markersByID, events, focusRanges, focusOpen>>

-----------------------------------------------------------------------------
NewRecord(d) == [data |-> d, states |-> <<>>, deleteFrame |-> FrameForever]
NewMarker(n, d) == [name |-> n, data |-> d, states |-> <<>>,
                    endFrame |-> FrameForever]

NoEntities == [k \in Kinds |-> [i \in ObjIds |-> None]]

\* resetCollections (and the empty maps of New).
CollectionsAreEmpty ==
    /\ entities    = NoEntities
    /\ markers     = [n \in Names |-> None]
    /\ markersByID = <<>>
    /\ events      = [k \in EventKinds |-> 0]
    /\ focusRanges = <<>>
    /\ focusOpen   = None

\* (As it would be if the marker numbers started again over the old table.)
ResetButMarkerNames ==
    /\ entities'    = NoEntities
    /\ UNCHANGED markers
    /\ markersByID' = <<>>
    /\ events'      = [k \in EventKinds |-> 0]
    /\ focusRanges' = <<>>
    /\ focusOpen'   = None

resetCollections ==
    /\ entities'    = NoEntities
    /\ markers'     = [n \in Names |-> None]
    /\ markersByID' = <<>>
    /\ events'      = [k \in EventKinds |-> 0]
    /\ focusRanges' = <<>>
    /\ focusOpen'   = None

-----------------------------------------------------------------------------
(* Metadata and export *)

\* Capture frames of all samples of the given kinds of entities.
FramesOf(ents, kinds) ==
    LET Of(rec) == IF rec = None THEN {}
                   ELSE {FrameOf[s] : s \in Range(rec.states)}
    IN  UNION {Of(ents[p[1]][p[2]]) : p \in kinds \X ObjIds}

Latest(S) == CHOOSE f \in S \union {0} : \A g \in S : g <= f

\* The exporter's end frame (maxFrame): placed objects do not count.
UnitsEndFrame == Latest(FramesOf(entities, {"soldier", "vehicle"}))
\* The metadata's end frame: they do.
metaEndFrame == Latest(FramesOf(entities, Kinds))

\* The focus ranges of the upload: an open range is closed with the end frame
\* if that is later than its start.
closedRanges(end) ==
    IF focusOpen # None /\ end > focusOpen
    THEN Append(focusRanges, [start |-> focusOpen, end |-> end])
    ELSE focusRanges

computeExportMetadata ==
    [mission |-> mission, endFrame |-> metaEndFrame,
     focus |-> closedRanges(metaEndFrame)]

\* The exported file, of which three parts are kept: the mission, the end frame
\* the exporter writes, and the frames of the samples of its soldiers, vehicles
\* and placed objects.  The rows of events and the states of markers, which
\* neither end frame looks at and whose frames may be later, are not.
buildMissionData ==
    [mission  |-> mission,
     endFrame |-> UnitsEndFrame,
     frames   |-> FramesOf(entities, Kinds)]

\* What GetExportMetadata returns: live data while a mission is active.
GetExportMetadata ==
    IF mission # None THEN computeExportMetadata ELSE lastMeta

-----------------------------------------------------------------------------
BInit ==
    /\ mission = None
    /\ CollectionsAreEmpty
    /\ lastPath = None
    /\ lastMeta = None
    /\ files = <<>>

\* (As it would be if the collections of the running mission were kept.)
StartKeepsCollections(m) ==
    /\ mission' = m
    /\ lastPath' = None
    /\ UNCHANGED <<Collections, lastMeta, files>>

StartMission(m) ==
    /\ mission' = m
    /\ lastPath' = None
    /\ resetCollections
    /\ UNCHANGED <<lastMeta, files>>

\* EndMission without a mission: the error of the guard, nothing changes.
EndWithoutMission ==
    /\ mission = None
    /\ UNCHANGED bvars

\* EndMission: the metadata is cached, the file written, everything reset.
EndSucceeds ==
    /\ mission # None
    /\ Len(files) < MaxFiles
    /\ lastMeta' = computeExportMetadata
    /\ files' = Append(files, buildMissionData)
    /\ lastPath' = Len(files) + 1
    /\ mission' = None
    /\ resetCollections

\* (As it would be if the path were set before the file is written.)
EndFailsWithPath ==
    /\ mission # None
    /\ lastMeta' \in {lastMeta, computeExportMetadata}
    /\ lastPath' = Len(files) + 1
    /\ mission' = None
    /\ resetCollections
    /\ UNCHANGED files

\* EndMission when the export fails or panics: the deferred clean-up runs all
\* the same.  A panic may come before the metadata is stored.
EndFails ==
    /\ mission # None
    /\ lastMeta' \in {lastMeta, computeExportMetadata}
    /\ mission' = None
    /\ resetCollections
    /\ UNCHANGED <<lastPath, files>>

-----------------------------------------------------------------------------
(* Entities: AddSoldier, AddVehicle, AddPlacedObject and their records *)

UNCHANGED_but_entities ==
    UNCHANGED <<mission, markers, markersByID, events, focusRanges, focusOpen,
                lastPath, lastMeta, files>>

\* Adding an id again replaces its record and the states in it.
AddEntity(k, i, d) ==
    /\ entities' = [entities EXCEPT ![k][i] = NewRecord(d)]
    /\ UNCHANGED_but_entities

\* RecordSoldierState, RecordVehicleState, RecordPlacedObjectEvent: without a
\* record the sample is discarded and nil is returned.
RecordSample(k, i, s) ==
    /\ entities' = IF entities[k][i] = None THEN entities
                   ELSE [entities EXCEPT ![k][i].states = Append(@, s)]
    /\ UNCHANGED_but_entities

\* (As it would be if the record were taken out of the map.)
RemoveEntity(k, i, f) ==
    /\ entities' = [entities EXCEPT ![k][i] = None]
    /\ UNCHANGED_but_entities

\* DeleteSoldier, DeleteVehicle.
DeleteEntity(k, i, f) ==
    /\ entities' = IF entities[k][i] = None THEN entities
                   ELSE [entities EXCEPT ![k][i].deleteFrame = f]
    /\ UNCHANGED_but_entities

\* The Record methods that only append to one of the twelve lists.
RecordEvent(k) ==
    /\ events' = [events EXCEPT ![k] = @ + 1]
    /\ UNCHANGED <<mission, entities, markers, markersByID, focusRanges,
                   focusOpen, lastPath, lastMeta, files>>

-----------------------------------------------------------------------------
(* Markers *)

UNCHANGED_but_markers ==
    UNCHANGED <<mission, entities, events, focusRanges, focusOpen, lastPath,
                lastMeta, files>>

\* The ID AddMarker assigns and returns (nextMarkerID + 1).
NewMarkerID == Len(markersByID) + 1

\* (As it would be if a known name kept its first record.)
AddMarkerKeepsFirst(n, d) ==
    /\ markersByID' = Append(markersByID, NewMarker(n, d))
    /\ markers' = IF markers[n] = None
                  THEN [markers EXCEPT ![n] = NewMarkerID] ELSE markers
    /\ UNCHANGED_but_markers

\* (As it would be if a known name kept its ID and got a new record.)
AddMarkerReplaces(n, d) ==
    /\ IF markers[n] = None
       THEN /\ markersByID' = Append(markersByID, NewMarker(n, d))
            /\ markers' = [markers EXCEPT ![n] = NewMarkerID]
       ELSE /\ markersByID' =
                    [markersByID EXCEPT ![markers[n]] = NewMarker(n, d)]
            /\ UNCHANGED markers
    /\ UNCHANGED_but_markers

\* AddMarker: a new ID and a new record, also for a name that has one.
AddMarker(n, d) ==
    /\ markersByID' = Append(markersByID, NewMarker(n, d))
    /\ markers' = [markers EXCEPT ![n] = NewMarkerID]
    /\ UNCHANGED_but_markers

RecordMarkerState(id, s) ==
    /\ markersByID' = IF id \in DOMAIN markersByID
                      THEN [markersByID EXCEPT ![id].states = Append(@, s)]
                      ELSE markersByID
    /\ UNCHANGED markers
    /\ UNCHANGED_but_markers

DeleteMarker(n, f) ==
    /\ markersByID' = IF markers[n] = None THEN markersByID
                      ELSE [markersByID EXCEPT ![markers[n]].endFrame = f]
    /\ UNCHANGED markers
    /\ UNCHANGED_but_markers

-----------------------------------------------------------------------------
(* Focus ranges *)

UNCHANGED_but_focus ==
    UNCHANGED <<mission, entities, markers, markersByID, events, lastPath,
                lastMeta, files>>

LastEnd == focusRanges[Len(focusRanges)].end

\* (As it would be if the start were not compared with the last range.)
ValidStartAny(f) == f # FrameForever
\* The two errors of SetFocusStart.
ValidStart(f) ==
    /\ f # FrameForever
    /\ focusRanges # <<>> => f >= LastEnd

\* The error of SetFocusEnd.
ValidEnd(f) == f > focusOpen

\* A start while a range is open is ignored, and no error is returned.
SetFocusStart(f) ==
    /\ focusOpen' = IF focusOpen = None /\ ValidStart(f) THEN f ELSE focusOpen
    /\ UNCHANGED focusRanges
    /\ UNCHANGED_but_focus

\* An end without an open range is ignored, and no error is returned.
SetFocusEnd(f) ==
    /\ IF focusOpen # None /\ ValidEnd(f)
       THEN /\ focusRanges' =
                  Append(focusRanges, [start |-> focusOpen, end |-> f])
            /\ focusOpen' = None
       ELSE UNCHANGED <<focusRanges, focusOpen>>
    /\ UNCHANGED_but_focus

-----------------------------------------------------------------------------
EntityStep ==
    \E k \in Kinds, i \in ObjIds :
        \/ \E d \in Data : AddEntity(k, i, d)
        \/ \E s \in Samples :
              /\ entities[k][i] # None =>
                    Len(entities[k][i].states) < MaxSamples
              /\ RecordSample(k, i, s)
        \/ k # "placed" /\ \E f \in DeleteFrames : DeleteEntity(k, i, f)

MarkerStep ==
    \/ \E n \in Names, d \in Data :
          Len(markersByID) < MaxMarkers /\ AddMarker(n, d)
    \/ \E id \in 1..MaxMarkers, s \in Samples :
          /\ id \in DOMAIN markersByID =>
                Len(markersByID[id].states) < MaxSamples
          /\ RecordMarkerState(id, s)
    \/ \E n \in Names, f \in DeleteFrames : DeleteMarker(n, f)

EventStep == \E k \in EventKinds : events[k] < MaxSamples /\ RecordEvent(k)

FocusStep ==
    \E f \in Frames :
        \/ SetFocusStart(f)
        \/ Len(focusRanges) < MaxRanges /\ SetFocusEnd(f)

MissionStep ==
    \/ \E m \in Missions : StartMission(m)
    \/ EndWithoutMission
    \/ EndSucceeds
    \/ EndFails

BNext == EntityStep \/ MarkerStep \/ EventStep \/ FocusStep \/ MissionStep

BSpec == BInit /\ [][BNext]_bvars

-----------------------------------------------------------------------------
\* The two marker tables agree: a name points to a record of that name, the
\* newest one, so a state sent with the returned ID and a deletion sent with
\* the name reach the same record (AddMarker, DeleteMarker).
MarkerTablesAgree ==
    /\ \A n \in Names : markers[n] # None =>
          markers[n] \in DOMAIN markersByID /\ markersByID[markers[n]].name = n
    /\ \A id \in DOMAIN markersByID :
          LET m == markers[markersByID[id].name]
          IN  m # None /\ id <= m

\* Ordered ranges: none is empty, none begins before the previous one ended.
OrderedRanges(rs) ==
    /\ \A i \in DOMAIN rs : rs[i].start < rs[i].end
    /\ \A i, j \in DOMAIN rs : i < j => rs[i].end <= rs[j].start

\* The focus ranges are ordered, the open one comes after all of them, and no
\* range starts at frame 0 (SetFocusStart, SetFocusEnd); the metadata that goes
\* with an upload has ordered ranges, whether it is the cached one or computed
\* live, also when a range was still open (computeExportMetadata).
FocusOrdered ==
    /\ OrderedRanges(focusRanges)
    /\ \A i \in DOMAIN focusRanges : focusRanges[i].start # FrameForever
    /\ focusOpen # None =>
          /\ focusOpen # FrameForever
          /\ \A i \in DOMAIN focusRanges : focusRanges[i].end <= focusOpen
    /\ lastMeta # None => OrderedRanges(lastMeta.focus)
    /\ mission # None => OrderedRanges(GetExportMetadata.focus)

\* Metadata is that of a file: of its mission, and ending at the last sample of
\* the file's soldiers, vehicles and placed objects.
DescribesFile(meta, file) ==
    /\ meta.mission = file.mission
    /\ meta.endFrame \in file.frames \union {0}
    /\ \A f \in file.frames : f <= meta.endFrame

\* However missions start, end and fail, a published path names the file written
\* last, the metadata cached with it is that of this file and ends no earlier
\* than the file says it does; while a mission is active no path is published
\* (StartMission, EndMission).
PathMatchesMetadata ==
    lastPath # None =>
        /\ mission = None
        /\ lastPath = Len(files)
        /\ lastMeta # None
        /\ DescribesFile(lastMeta, files[lastPath])
        /\ files[lastPath].endFrame <= lastMeta.endFrame

Prolongs(t, s) == Len(t) >= Len(s) /\ \A j \in DOMAIN s : t[j] = s[j]

\* A mission ends or is replaced only as a whole, however its export ends
\* (EndMission: "Regardless of outcome ... always reset"), and while it goes on
\* no marker record and no closed focus range disappears or changes its name or
\* bounds.
RecordsPersist ==
    [][\/ CollectionsAreEmpty'
       \/ /\ mission' = mission
          /\ Len(markersByID') >= Len(markersByID)
          /\ \A id \in DOMAIN markersByID :
                /\ markersByID'[id].name = markersByID[id].name
                /\ Prolongs(markersByID'[id].states, markersByID[id].states)
          /\ Prolongs(focusRanges', focusRanges)]_bvars
=============================================================================
