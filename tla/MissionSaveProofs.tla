-------------------------- MODULE MissionSaveProofs --------------------------
(***************************************************************************)
(* Proofs about MemoryBackend: the marker tables, the focus ranges, and    *)
(* what is published with an export file; and about MissionSave, which     *)
(* runs a backend: the reports of the saves and what an upload sends.  For *)
(* any missions, names, entities, samples, frames, saves and starts.       *)
(***************************************************************************)
EXTENDS MissionSave, TLAPS, WellFoundedInduction

(* The backend *)

MarkerRecord == [name : Names, data : Data, states : Seq(Samples), endFrame : Frames]
FocusRange   == [start : Nat, end : Nat]

\* The types of the markers and of the focus ranges.
MTypes ==
    /\ markers \in [Names -> Nat \union {None}]
    /\ markersByID \in Seq(MarkerRecord)
    /\ focusRanges \in Seq(FocusRange)
    /\ focusOpen \in Nat \union {None}

\* The ranges as SetFocusStart and SetFocusEnd leave them.
RangesInOrder ==
    /\ OrderedRanges(focusRanges)
    /\ \A i \in DOMAIN focusRanges : focusRanges[i].start # FrameForever
    /\ focusOpen # None =>
          /\ focusOpen # FrameForever
          /\ \A i \in DOMAIN focusRanges : focusRanges[i].end <= focusOpen

MetadataInOrder == lastMeta # None => OrderedRanges(lastMeta.focus)

MemoryInv == MTypes /\ MarkerTablesAgree /\ RangesInOrder /\ MetadataInOrder

MarkerTables == <<markers, markersByID>>
FocusState   == <<focusRanges, focusOpen>>

-----------------------------------------------------------------------------
\* Frames are numbers.
LEMMA FramesAreNatural == Frames \subseteq Nat /\ FrameForever \in Frames
    BY MemoryAssumption DEF Frames, FrameForever

\* A range that begins where the others have ended, or later, keeps the order.
LEMMA RangeAppended ==
    ASSUME NEW rs \in Seq(FocusRange), OrderedRanges(rs), NEW s \in Nat, NEW e,
           s < e, \A i \in DOMAIN rs : rs[i].end <= s
    PROVE  OrderedRanges(Append(rs, [start |-> s, end |-> e]))
<1> DEFINE r == [start |-> s, end |-> e]
<1>1. rs \in Seq(FocusRange \union {r})
    OBVIOUS
<1>2. /\ DOMAIN Append(rs, r) = 1..Len(rs) + 1 /\ Len(rs) \in Nat
      /\ DOMAIN rs = 1..Len(rs)
      /\ Append(rs, r)[Len(rs) + 1] = r
      /\ \A i \in DOMAIN rs : Append(rs, r)[i] = rs[i]
    BY <1>1
<1>3. r.start = s /\ r.end = e
    OBVIOUS
<1> HIDE DEF r
<1>4. ASSUME NEW i \in DOMAIN Append(rs, r)
      PROVE  Append(rs, r)[i].start < Append(rs, r)[i].end
  <2>1. CASE i \in DOMAIN rs
    BY <1>2, <2>1 DEF OrderedRanges
  <2>2. CASE i = Len(rs) + 1
    BY <1>2, <1>3, <2>2
  <2> QED
    BY <1>2, <1>4, <2>1, <2>2
<1>5. ASSUME NEW i \in DOMAIN Append(rs, r), NEW j \in DOMAIN Append(rs, r), i < j
      PROVE  Append(rs, r)[i].end <= Append(rs, r)[j].start
  <2>1. i \in DOMAIN rs
    BY <1>2, <1>5
  <2>2. CASE j \in DOMAIN rs
    BY <1>2, <1>5, <2>1, <2>2 DEF OrderedRanges
  <2>3. CASE j = Len(rs) + 1
    BY <1>2, <1>3, <2>1, <2>3
  <2> QED
    BY <1>2, <1>5, <2>2, <2>3
<1> QED
    BY <1>4, <1>5 DEF OrderedRanges, r

\* An open range that ends is like any other.
LEMMA ClosedInOrder ==
    ASSUME MTypes, RangesInOrder, NEW e
    PROVE  OrderedRanges(closedRanges(e))
<1>1. CASE focusOpen # None /\ e > focusOpen
  <2>1. focusOpen \in Nat /\ focusRanges \in Seq(FocusRange) /\ focusOpen < e
    BY <1>1 DEF MTypes
  <2>2. OrderedRanges(Append(focusRanges, [start |-> focusOpen, end |-> e]))
    BY <1>1, <2>1, RangeAppended DEF RangesInOrder
  <2> QED
    BY <1>1, <2>2 DEF closedRanges
<1>2. CASE ~(focusOpen # None /\ e > focusOpen)
    BY <1>2 DEF closedRanges, RangesInOrder
<1> QED
    BY <1>1, <1>2

-----------------------------------------------------------------------------
\* Empty tables agree with one another.
LEMMA EmptyInOrder ==
    ASSUME CollectionsAreEmpty, MetadataInOrder
    PROVE  MemoryInv
    BY DEF CollectionsAreEmpty, MemoryInv, MTypes, MarkerTablesAgree, RangesInOrder,
           OrderedRanges

\* A reset leaves every collection empty.
LEMMA ResetStep == resetCollections => CollectionsAreEmpty'
    BY DEF resetCollections, CollectionsAreEmpty, NoEntities

\* Steps of a mission's begin and end.
LEMMA MissionStepInv ==
    ASSUME MemoryInv, MissionStep
    PROVE  MemoryInv'
<1>1. CASE EndWithoutMission
    BY <1>1 DEF EndWithoutMission, bvars, MemoryInv, MTypes, MarkerTablesAgree,
                RangesInOrder, MetadataInOrder
<1>2. CASE ~EndWithoutMission
  <2>1. resetCollections
    BY <1>2 DEF MissionStep, StartMission, EndSucceeds, EndFails
  <2>2. lastMeta' \in {lastMeta, computeExportMetadata}
    BY <1>2 DEF MissionStep, StartMission, EndSucceeds, EndFails
  <2>3. OrderedRanges(computeExportMetadata.focus)
    BY ClosedInOrder DEF MemoryInv, computeExportMetadata
  <2>4. MetadataInOrder'
    BY <2>2, <2>3 DEF MemoryInv, MetadataInOrder, OrderedRanges
  <2>5. CollectionsAreEmpty'
    BY <2>1, ResetStep
  <2> QED
    BY <2>4, <2>5, EmptyInOrder, PTL
<1> QED
    BY <1>1, <1>2

\* AddMarker: the name points to the new record, the newest one.
LEMMA AddMarkerInv ==
    ASSUME MTypes, MarkerTablesAgree, NEW n \in Names, NEW d \in Data, AddMarker(n, d)
    PROVE  MTypes' /\ MarkerTablesAgree'
<1> USE DEF MTypes
<1> DEFINE r == NewMarker(n, d)
<1>1. /\ markersByID' = Append(markersByID, r)
      /\ markers' = [markers EXCEPT ![n] = Len(markersByID) + 1]
      /\ UNCHANGED FocusState
    BY DEF AddMarker, NewMarkerID, UNCHANGED_but_markers, FocusState
<1>2. r \in MarkerRecord /\ r.name = n
    BY FramesAreNatural DEF NewMarker, MarkerRecord
<1> HIDE DEF r
<1>3. /\ markersByID' \in Seq(MarkerRecord)
      /\ Len(markersByID') = Len(markersByID) + 1 /\ Len(markersByID) \in Nat
      /\ markersByID'[Len(markersByID) + 1] = r
      /\ \A id \in DOMAIN markersByID : markersByID'[id] = markersByID[id]
      /\ DOMAIN markersByID' = 1..Len(markersByID) + 1
      /\ DOMAIN markersByID = 1..Len(markersByID)
    BY <1>1, <1>2
<1>4. MTypes'
    BY <1>1, <1>3 DEF FocusState
<1>5. ASSUME NEW m \in Names, markers'[m] # None
      PROVE  markers'[m] \in DOMAIN markersByID' /\ markersByID'[markers'[m]].name = m
  <2>1. CASE m = n
    BY <1>1, <1>2, <1>3, <2>1
  <2>2. CASE m # n
    BY <1>1, <1>3, <1>5, <2>2 DEF MarkerTablesAgree
  <2> QED
    BY <2>1, <2>2
<1>6. ASSUME NEW id \in DOMAIN markersByID'
      PROVE  LET m == markers'[markersByID'[id].name] IN m # None /\ id <= m
  <2>0. Len(markersByID) + 1 # None
    BY <1>3, MemoryAssumption
  <2>1. CASE id = Len(markersByID) + 1
    BY <1>1, <1>2, <1>3, <2>0, <2>1
  <2>2. CASE id \in DOMAIN markersByID /\ markersByID[id].name = n
    BY <1>1, <1>3, <2>0, <2>2
  <2>3. CASE id \in DOMAIN markersByID /\ markersByID[id].name # n
    BY <1>1, <1>3, <2>3 DEF MarkerTablesAgree, MarkerRecord
  <2> QED
    BY <1>3, <2>1, <2>2, <2>3
<1> QED
    BY <1>4, <1>5, <1>6 DEF MarkerTablesAgree

\* Changes of a record that keep its name keep the tables.
LEMMA SameNamesInv ==
    ASSUME MTypes, MarkerTablesAgree, UNCHANGED markers, UNCHANGED FocusState,
           markersByID' \in Seq(MarkerRecord), DOMAIN markersByID' = DOMAIN markersByID,
           \A id \in DOMAIN markersByID : markersByID'[id].name = markersByID[id].name
    PROVE  MTypes' /\ MarkerTablesAgree'
    BY DEF MTypes, MarkerTablesAgree, FocusState

\* A state sent with an ID, also with one that was never given out.
LEMMA MarkerStateInv ==
    ASSUME MTypes, MarkerTablesAgree, NEW id \in Nat, NEW s \in Samples,
           RecordMarkerState(id, s)
    PROVE  MTypes' /\ MarkerTablesAgree'
<1>1. UNCHANGED markers /\ UNCHANGED FocusState
    BY DEF RecordMarkerState, UNCHANGED_but_markers, FocusState
<1>2. CASE id \notin DOMAIN markersByID
    BY <1>1, <1>2, SameNamesInv DEF RecordMarkerState, MTypes
<1>3. CASE id \in DOMAIN markersByID
  <2> DEFINE r == [markersByID[id] EXCEPT !.states = Append(@, s)]
  <2>1. markersByID' = [markersByID EXCEPT ![id] = r]
    BY <1>3 DEF RecordMarkerState
  <2>2. markersByID[id] \in MarkerRecord
    BY <1>3 DEF MTypes
  <2>3. r \in MarkerRecord /\ r.name = markersByID[id].name
    <3>1. markersByID[id].states \in Seq(Samples)
      BY <2>2 DEF MarkerRecord
    <3>2. Append(markersByID[id].states, s) \in Seq(Samples)
      BY <3>1
    <3> QED
      BY <2>2, <3>2 DEF MarkerRecord
  <2> HIDE DEF r
  <2> QED
    BY <1>1, <1>3, <2>1, <2>3, SameNamesInv DEF MTypes
<1> QED
    BY <1>2, <1>3

\* Deleting a marker renames no record.
LEMMA DeleteMarkerInv ==
    ASSUME MTypes, MarkerTablesAgree, NEW n \in Names, NEW f \in Frames,
           DeleteMarker(n, f)
    PROVE  MTypes' /\ MarkerTablesAgree'
<1>1. UNCHANGED markers /\ UNCHANGED FocusState
    BY DEF DeleteMarker, UNCHANGED_but_markers, FocusState
<1>2. CASE markers[n] = None
    BY <1>1, <1>2, SameNamesInv DEF DeleteMarker, MTypes
<1>3. CASE markers[n] # None
  <2> DEFINE id == markers[n]
             r  == [markersByID[id] EXCEPT !.endFrame = f]
  <2>1. markersByID' = [markersByID EXCEPT ![id] = r] /\ id \in DOMAIN markersByID
    BY <1>3 DEF DeleteMarker, MarkerTablesAgree
  <2>2. markersByID[id] \in MarkerRecord
    BY <2>1 DEF MTypes
  <2>3. r \in MarkerRecord /\ r.name = markersByID[id].name
    BY <2>2 DEF MarkerRecord
  <2> HIDE DEF r, id
  <2> QED
    BY <1>1, <2>1, <2>3, SameNamesInv DEF MTypes
<1> QED
    BY <1>2, <1>3

-----------------------------------------------------------------------------
\* Every call about a marker keeps its two tables in agreement.
LEMMA MarkerStepInv ==
    ASSUME MemoryInv, MarkerStep
    PROVE  MemoryInv'
<1>1. MTypes' /\ MarkerTablesAgree'
    BY AddMarkerInv, MarkerStateInv, DeleteMarkerInv, MemoryAssumption
       DEF MarkerStep, MemoryInv
<1>2. UNCHANGED <<focusRanges, focusOpen, lastMeta>>
    BY DEF MarkerStep, AddMarker, RecordMarkerState, DeleteMarker,
           UNCHANGED_but_markers
<1> QED
    BY <1>1, <1>2 DEF MemoryInv, RangesInOrder, MetadataInOrder

\* Every call about the focus keeps the ranges in order.
LEMMA FocusStepInv ==
    ASSUME MemoryInv, FocusStep
    PROVE  MemoryInv'
<1> USE DEF MemoryInv
<1>1. PICK f \in Frames : SetFocusStart(f) \/ SetFocusEnd(f)
    BY DEF FocusStep
<1>2. f \in Nat
    BY FramesAreNatural
<1>3. UNCHANGED <<MarkerTables, lastMeta>>
    BY <1>1 DEF SetFocusStart, SetFocusEnd, UNCHANGED_but_focus, MarkerTables
<1>4. MarkerTablesAgree' /\ MetadataInOrder'
    BY <1>3 DEF MarkerTablesAgree, MetadataInOrder, MarkerTables
<1>5. CASE UNCHANGED FocusState
    BY <1>3, <1>4, <1>5 DEF MTypes, RangesInOrder, FocusState, MarkerTables
<1>6. CASE focusOpen = None /\ ValidStart(f) /\ focusOpen' = f /\ UNCHANGED focusRanges
  <2>1. ASSUME NEW i \in DOMAIN focusRanges
        PROVE  focusRanges[i].end <= f
    <3>1. /\ Len(focusRanges) \in DOMAIN focusRanges /\ i <= Len(focusRanges)
          /\ focusRanges[i] \in FocusRange
          /\ focusRanges[Len(focusRanges)] \in FocusRange
          /\ focusRanges # <<>>
      BY <2>1 DEF MTypes
    <3>2. /\ focusRanges[i].end \in Nat
          /\ focusRanges[Len(focusRanges)].start \in Nat
          /\ focusRanges[Len(focusRanges)].end \in Nat
      BY <3>1 DEF FocusRange
    <3>3. focusRanges[Len(focusRanges)].end <= f
      BY <1>6, <3>1 DEF ValidStart, LastEnd
    <3>4. CASE i = Len(focusRanges)
      BY <3>3, <3>4
    <3>5. CASE i < Len(focusRanges)
      BY <1>2, <3>1, <3>2, <3>3, <3>5 DEF RangesInOrder, OrderedRanges
    <3> QED
      BY <3>1, <3>4, <3>5 DEF MTypes
  <2> QED
    BY <1>2, <1>3, <1>4, <1>6, <2>1
       DEF MTypes, RangesInOrder, ValidStart, MarkerTables
<1>7. CASE /\ focusOpen # None /\ ValidEnd(f) /\ focusOpen' = None
           /\ focusRanges' = Append(focusRanges, [start |-> focusOpen, end |-> f])
  <2>1. focusOpen \in Nat /\ focusOpen < f
    BY <1>2, <1>7 DEF MTypes, ValidEnd
  <2>2. OrderedRanges(focusRanges')
    BY <1>7, <2>1, RangeAppended DEF RangesInOrder, MTypes
  <2> DEFINE r == [start |-> focusOpen, end |-> f]
  <2>3. r \in FocusRange /\ r.start # FrameForever
    BY <1>2, <1>7, <2>1 DEF FocusRange, RangesInOrder
  <2> HIDE DEF r
  <2>4. /\ focusRanges' \in Seq(FocusRange)
        /\ \A i \in DOMAIN focusRanges' : focusRanges'[i].start # FrameForever
    <3>1. focusRanges' = Append(focusRanges, r)
      BY <1>7 DEF r
    <3> QED
      BY <2>3, <3>1 DEF MTypes, RangesInOrder
  <2> QED
    BY <1>3, <1>4, <1>7, <2>2, <2>4 DEF MTypes, RangesInOrder, MarkerTables
<1> QED
    BY <1>1, <1>5, <1>6, <1>7 DEF SetFocusStart, SetFocusEnd, FocusState

\* Every call of the backend keeps its invariant.
LEMMA MemoryStep ==
    ASSUME MemoryInv, [BNext]_bvars
    PROVE  MemoryInv'
<1>1. CASE EntityStep \/ EventStep \/ UNCHANGED bvars
  <2>1. UNCHANGED <<MarkerTables, FocusState, lastMeta>>
    BY <1>1 DEF EntityStep, EventStep, AddEntity, RecordSample, DeleteEntity,
                RecordEvent, UNCHANGED_but_entities, bvars, MarkerTables, FocusState
  <2> QED
    BY <2>1 DEF MemoryInv, MTypes, MarkerTablesAgree, RangesInOrder, MetadataInOrder,
                MarkerTables, FocusState
<1> QED
    BY <1>1, MarkerStepInv, FocusStepInv, MissionStepInv DEF BNext

\* The invariant of the backend holds in every reachable state.
LEMMA MemoryIsInvariant == BSpec => []MemoryInv
<1>1. BInit => MemoryInv
    BY EmptyInOrder DEF BInit, MetadataInOrder
<1> QED
    BY <1>1, MemoryStep, PTL DEF BSpec

\* A name points to the newest record of that name, so a state sent with the ID
\* AddMarker returned and a deletion sent with the name reach the same record.
THEOREM TablesAgree == BSpec => []MarkerTablesAgree
<1>1. MemoryInv => MarkerTablesAgree
    BY DEF MemoryInv
<1> QED
    BY <1>1, MemoryIsInvariant, PTL

\* Focus ranges never overlap or run backwards, neither those the backend keeps
\* nor those that go with an upload, cached or computed live, whatever the frames
\* SetFocusStart and SetFocusEnd are called with.
THEOREM RangesAreOrdered == BSpec => []FocusOrdered
<1>1. MemoryInv => FocusOrdered
  <2> SUFFICES ASSUME MemoryInv, mission # None
               PROVE  OrderedRanges(GetExportMetadata.focus)
    BY DEF MemoryInv, RangesInOrder, MetadataInOrder, FocusOrdered
  <2>1. OrderedRanges(closedRanges(metaEndFrame))
    BY ClosedInOrder DEF MemoryInv
  <2> QED
    BY <2>1 DEF GetExportMetadata, computeExportMetadata
<1> QED
    BY <1>1, MemoryIsInvariant, PTL

-----------------------------------------------------------------------------
\* What RecordsPersist says of a step within a mission.
MarkersPersist ==
    /\ Len(markersByID') >= Len(markersByID)
    /\ \A id \in DOMAIN markersByID :
          /\ markersByID'[id].name = markersByID[id].name
          /\ Prolongs(markersByID'[id].states, markersByID[id].states)

\* A sequence prolongs itself.
LEMMA Reflexive ==
    ASSUME NEW S, NEW t \in Seq(S)
    PROVE  Prolongs(t, t)
    BY DEF Prolongs

\* A sequence with one more item prolongs the one without.
LEMMA Appended ==
    ASSUME NEW S, NEW t \in Seq(S), NEW e \in S
    PROVE  Prolongs(Append(t, e), t)
    BY DEF Prolongs

\* What a marker record holds.
LEMMA StatesAreSequences ==
    ASSUME MTypes, NEW id \in DOMAIN markersByID
    PROVE  markersByID[id] \in MarkerRecord /\ markersByID[id].states \in Seq(Samples)
<1>1. markersByID[id] \in MarkerRecord
    BY DEF MTypes
<1> QED
    BY <1>1 DEF MarkerRecord

\* Records that do not change persist.
LEMMA MarkersUnchanged ==
    ASSUME MTypes, UNCHANGED markersByID
    PROVE  MarkersPersist
<1>1. Len(markersByID) \in Nat
    BY DEF MTypes
<1>2. ASSUME NEW id \in DOMAIN markersByID
      PROVE  Prolongs(markersByID'[id].states, markersByID[id].states)
    BY StatesAreSequences, Reflexive
<1> QED
    BY <1>1, <1>2 DEF MarkersPersist

\* One record takes the place of another that it prolongs.
LEMMA MarkerReplaced ==
    ASSUME MTypes, NEW id \in DOMAIN markersByID, NEW r,
           markersByID' = [markersByID EXCEPT ![id] = r],
           r.name = markersByID[id].name,
           Prolongs(r.states, markersByID[id].states)
    PROVE  MarkersPersist
<1>1. Len(markersByID') = Len(markersByID) /\ Len(markersByID) \in Nat
  <2>1. markersByID \in Seq(MarkerRecord \union {r})
    BY DEF MTypes
  <2> QED
    BY <2>1
<1>2. ASSUME NEW j \in DOMAIN markersByID, j # id
      PROVE  /\ markersByID'[j] = markersByID[j]
             /\ Prolongs(markersByID'[j].states, markersByID[j].states)
  <2>1. markersByID'[j] = markersByID[j]
    BY <1>2
  <2> QED
    BY <2>1, StatesAreSequences, Reflexive
<1>3. markersByID'[id] = r
    OBVIOUS
<1> QED
    BY <1>1, <1>2, <1>3 DEF MarkersPersist

\* No call about a marker drops a record, renames it or cuts its states short.
LEMMA MarkerStepPersists ==
    ASSUME MemoryInv, MarkerStep
    PROVE  MarkersPersist
<1> USE DEF MemoryInv
<1>1. ASSUME NEW n \in Names, NEW d \in Data, AddMarker(n, d)
      PROVE  MarkersPersist
  <2> DEFINE r == NewMarker(n, d)
  <2>1. markersByID' = Append(markersByID, r)
    BY <1>1 DEF AddMarker
  <2>2. markersByID \in Seq(MarkerRecord \union {r})
    BY DEF MTypes
  <2> HIDE DEF r
  <2>3. /\ Len(markersByID') >= Len(markersByID)
        /\ \A id \in DOMAIN markersByID : markersByID'[id] = markersByID[id]
    BY <2>1, <2>2
  <2> QED
    BY <2>3, StatesAreSequences, Reflexive DEF MarkersPersist
<1>2. ASSUME NEW id \in Nat, NEW s \in Samples, RecordMarkerState(id, s)
      PROVE  MarkersPersist
  <2>1. CASE id \notin DOMAIN markersByID
    BY <1>2, <2>1, MarkersUnchanged DEF RecordMarkerState
  <2>2. CASE id \in DOMAIN markersByID
    <3> DEFINE t == markersByID[id].states
               r == [markersByID[id] EXCEPT !.states = Append(t, s)]
    <3>1. markersByID' = [markersByID EXCEPT ![id] = r]
      BY <1>2, <2>2 DEF RecordMarkerState
    <3>2. r.name = markersByID[id].name /\ r.states = Append(t, s) /\ t \in Seq(Samples)
      BY <2>2, StatesAreSequences DEF MarkerRecord
    <3> HIDE DEF r
    <3>3. Prolongs(r.states, t)
      BY <3>2, Appended
    <3> QED
      BY <2>2, <3>1, <3>2, <3>3, MarkerReplaced
  <2> QED
    BY <2>1, <2>2
<1>3. ASSUME NEW n \in Names, NEW f \in DeleteFrames, DeleteMarker(n, f)
      PROVE  MarkersPersist
  <2>1. CASE markers[n] = None
    BY <1>3, <2>1, MarkersUnchanged DEF DeleteMarker
  <2>2. CASE markers[n] # None
    <3> DEFINE id == markers[n]
               r  == [markersByID[id] EXCEPT !.endFrame = f]
    <3>1. markersByID' = [markersByID EXCEPT ![id] = r] /\ id \in DOMAIN markersByID
      BY <1>3, <2>2 DEF DeleteMarker, MarkerTablesAgree
    <3>2. /\ r.name = markersByID[id].name /\ r.states = markersByID[id].states
          /\ markersByID[id].states \in Seq(Samples)
      BY <3>1, StatesAreSequences DEF MarkerRecord
    <3> HIDE DEF r, id
    <3>3. Prolongs(r.states, markersByID[id].states)
      BY <3>2, Reflexive
    <3> QED
      BY <3>1, <3>2, <3>3, MarkerReplaced
  <2> QED
    BY <2>1, <2>2
<1> QED
    BY <1>1, <1>2, <1>3, MemoryAssumption DEF MarkerStep

\* A mission's markers and closed focus ranges are discarded all together or not
\* at all: within a mission no record is dropped, renamed or cut short, and
\* EndMission empties every collection however the export ends.
THEOREM NothingIsForgotten == BSpec => RecordsPersist
<1>1. ASSUME MemoryInv, [BNext]_bvars
      PROVE  \/ CollectionsAreEmpty'
             \/ mission' = mission /\ MarkersPersist /\ Prolongs(focusRanges', focusRanges)
             \/ UNCHANGED bvars
  <2> USE <1>1 DEF MemoryInv
  <2>1. focusRanges \in Seq(FocusRange)
    BY DEF MTypes
  <2>2. Prolongs(focusRanges, focusRanges)
    BY <2>1, Reflexive
  <2>3. CASE EntityStep \/ EventStep
    <3>1. UNCHANGED <<mission, markersByID, focusRanges>>
      BY <2>3 DEF EntityStep, EventStep, AddEntity, RecordSample, DeleteEntity,
                  RecordEvent, UNCHANGED_but_entities
    <3> QED
      BY <2>2, <3>1, MarkersUnchanged
  <2>4. CASE MarkerStep
    <3>1. UNCHANGED <<mission, focusRanges>>
      BY <2>4 DEF MarkerStep, AddMarker, RecordMarkerState, DeleteMarker,
                  UNCHANGED_but_markers
    <3> QED
      BY <2>2, <2>4, <3>1, MarkerStepPersists
  <2>5. CASE FocusStep
    <3>1. UNCHANGED <<mission, markersByID>>
      BY <2>5 DEF FocusStep, SetFocusStart, SetFocusEnd, UNCHANGED_but_focus
    <3>2. Prolongs(focusRanges', focusRanges)
      <4>1. PICK f \in Frames : SetFocusStart(f) \/ SetFocusEnd(f)
        BY <2>5 DEF FocusStep
      <4>2. \/ UNCHANGED focusRanges
            \/ /\ focusOpen # None
               /\ focusRanges' = Append(focusRanges, [start |-> focusOpen, end |-> f])
        BY <4>1 DEF SetFocusStart, SetFocusEnd
      <4>3. focusOpen # None => [start |-> focusOpen, end |-> f] \in FocusRange
        BY <4>1, FramesAreNatural DEF MTypes, FocusRange
      <4> QED
        BY <2>1, <2>2, <4>2, <4>3, Appended
    <3> QED
      BY <3>1, <3>2, MarkersUnchanged
  <2>6. CASE MissionStep
    BY <2>6, ResetStep
       DEF MissionStep, StartMission, EndSucceeds, EndFails, EndWithoutMission
  <2> QED
    BY <2>3, <2>4, <2>5, <2>6 DEF BNext
<1>2. ASSUME MemoryInv, [BNext]_bvars
      PROVE  [\/ CollectionsAreEmpty'
              \/ /\ mission' = mission
                 /\ Len(markersByID') >= Len(markersByID)
                 /\ \A id \in DOMAIN markersByID :
                       /\ markersByID'[id].name = markersByID[id].name
                       /\ Prolongs(markersByID'[id].states, markersByID[id].states)
                 /\ Prolongs(focusRanges', focusRanges)]_bvars
    BY <1>1, <1>2 DEF MarkersPersist
<1> QED
    BY <1>2, MemoryIsInvariant, PTL DEF BSpec, RecordsPersist

-----------------------------------------------------------------------------
\* What is published with a file.  The greatest frame of a set of frames exists:
\* the natural numbers are well founded, and frames are bounded.
LEMMA LeastNumber ==
    ASSUME NEW T, T \subseteq Nat, T # {}
    PROVE  \E n \in T : \A m \in T : n <= m
<1> DEFINE less == {p \in Nat \X Nat : p[1] < p[2]}
<1>1. IsWellFoundedOn(less, Nat)
    BY NatLessThanWellFounded, Zenon DEF OpToRel
<1>2. \A m, n \in Nat : <<m, n>> \notin less => n <= m
    OBVIOUS
<1> HIDE DEF less
<1>3. PICK n \in T : \A m \in T : ~(<<m, n>> \in less)
    BY <1>1, WFMin, Zenon
<1> QED
    BY <1>2, <1>3

\* Latest is the greatest of a set of frames, 0 if there are none.
LEMMA LatestIsGreatest ==
    ASSUME NEW S, S \subseteq Frames
    PROVE  /\ Latest(S) \in S \union {0} /\ Latest(S) \in Nat
           /\ \A g \in S : g <= Latest(S)
<1>1. MaxFrame \in Nat /\ S \subseteq 0..MaxFrame
    BY MemoryAssumption DEF Frames
<1>2. \E f \in S \union {0} : \A g \in S : g <= f
  <2>1. CASE S = {}
    BY <2>1
  <2>2. CASE S # {}
    <3> DEFINE below == {n \in Nat : \E f \in S : n = MaxFrame - f}
    <3>1. below # {}
      <4>1. PICK f \in S : TRUE
        BY <2>2
      <4>2. MaxFrame - f \in below
        BY <1>1, <4>1
      <4> QED
        BY <4>2
    <3>2. PICK n \in below : \A m \in below : n <= m
      BY <3>1, LeastNumber, Zenon
    <3>3. PICK f \in S : n = MaxFrame - f
      BY <3>2
    <3>4. ASSUME NEW g \in S
          PROVE  g <= f
      <4>1. MaxFrame - g \in below
        BY <1>1
      <4>2. n <= MaxFrame - g
        BY <3>2, <4>1
      <4> QED
        BY <1>1, <3>3, <4>2
    <3> QED
      BY <3>4
  <2> QED
    BY <2>1, <2>2
<1>3. Latest(S) \in S \union {0} /\ \A g \in S : g <= Latest(S)
    BY <1>2 DEF Latest
<1>4. \A f \in S \union {0} : f \in Nat
    BY <1>1
<1> QED
    BY <1>3, <1>4

EntityRecord == [data : Data, states : Seq(Samples), deleteFrame : Frames]
ExportFile   == [mission : Missions, endFrame : Nat, frames : SUBSET Nat]
EntityTypes  == entities \in [Kinds -> [ObjIds -> EntityRecord \union {None}]]

\* The variables that a publication is made from.
PublishTypes ==
    /\ mission \in Missions \union {None}
    /\ EntityTypes
    /\ files \in Seq(ExportFile)

PublishInv ==
    /\ PublishTypes
    /\ mission # None => lastPath = None
    /\ PathMatchesMetadata

\* A sample's frame is a frame, so the frames of any kinds have a latest.
LEMMA FramesOfEntities ==
    ASSUME EntityTypes, NEW kinds, kinds \subseteq Kinds
    PROVE  FramesOf(entities, kinds) \subseteq Frames
<1> SUFFICES ASSUME NEW k \in kinds, NEW i \in ObjIds, entities[k][i] # None,
                    NEW s \in Range(entities[k][i].states)
             PROVE  FrameOf[s] \in Frames
    BY DEF FramesOf
<1>1. entities[k][i] \in EntityRecord
    BY DEF EntityTypes
<1>2. s \in Samples
    BY <1>1 DEF EntityRecord, Range
<1> QED
    BY <1>2, MemoryAssumption

\* Whatever was recorded, the two loops over the collections agree: the frame the
\* metadata ends at is the last one of the samples written, and the exporter's
\* end frame, which leaves the placed objects out, is no later.
LEMMA MetadataDescribesFile ==
    ASSUME EntityTypes
    PROVE  /\ DescribesFile(computeExportMetadata, buildMissionData)
           /\ buildMissionData.endFrame <= computeExportMetadata.endFrame
           /\ buildMissionData.endFrame \in Nat /\ metaEndFrame \in Nat
           /\ buildMissionData.frames \subseteq Nat
<1> DEFINE units == FramesOf(entities, {"soldier", "vehicle"})
           all   == FramesOf(entities, Kinds)
<1>1. units \subseteq Frames /\ all \subseteq Frames /\ Frames \subseteq Nat
    BY FramesOfEntities, FramesAreNatural DEF Kinds
<1>2. units \subseteq all
    BY DEF FramesOf, Kinds
<1> HIDE DEF units, all
<1>3. /\ Latest(units) \in units \union {0} /\ Latest(units) \in Nat
      /\ Latest(all) \in all \union {0} /\ Latest(all) \in Nat
      /\ \A g \in all : g <= Latest(all)
    BY <1>1, LatestIsGreatest
<1>4. Latest(units) <= Latest(all)
    BY <1>2, <1>3
<1>5. metaEndFrame = Latest(all) /\ UnitsEndFrame = Latest(units)
    BY DEF metaEndFrame, UnitsEndFrame, all, units
<1>6. /\ buildMissionData.frames = all /\ buildMissionData.endFrame = Latest(units)
      /\ computeExportMetadata.endFrame = Latest(all)
      /\ computeExportMetadata.mission = buildMissionData.mission
    BY <1>5 DEF buildMissionData, computeExportMetadata, all
<1> QED
    BY <1>1, <1>3, <1>4, <1>5, <1>6 DEF DescribesFile

\* Metadata and file of a mission have their types.
LEMMA ExportTypes ==
    ASSUME MTypes, PublishTypes, mission # None
    PROVE  /\ computeExportMetadata # None
           /\ buildMissionData \in ExportFile
<1>1. mission \in Missions
    BY DEF PublishTypes
<1>2. /\ metaEndFrame \in Nat
      /\ buildMissionData.endFrame \in Nat /\ buildMissionData.frames \subseteq Nat
    BY MetadataDescribesFile DEF PublishTypes
<1>3. closedRanges(metaEndFrame) \in Seq(FocusRange)
  <2>1. CASE focusOpen # None /\ metaEndFrame > focusOpen
    <3>1. focusOpen \in Nat /\ focusRanges \in Seq(FocusRange)
      BY <2>1 DEF MTypes
    <3>2. [start |-> focusOpen, end |-> metaEndFrame] \in FocusRange
      BY <1>2, <3>1 DEF FocusRange
    <3> QED
      BY <2>1, <3>1, <3>2 DEF closedRanges
  <2>2. CASE ~(focusOpen # None /\ metaEndFrame > focusOpen)
    BY <2>2 DEF closedRanges, MTypes
  <2> QED
    BY <2>1, <2>2
<1>4. computeExportMetadata \in UploadMetadata
    BY <1>1, <1>2, <1>3 DEF computeExportMetadata, UploadMetadata, FocusRange
<1>5. buildMissionData \in ExportFile
    BY <1>1, <1>2 DEF buildMissionData, ExportFile
<1> QED
    BY <1>4, <1>5, MemoryAssumption

\* No operation but a mission's end publishes anything.
LEMMA EntitiesKeepTypes ==
    ASSUME EntityTypes, EntityStep
    PROVE  EntityTypes'
<1> SUFFICES entities' \in [Kinds -> [ObjIds -> EntityRecord \union {None}]]
    BY DEF EntityTypes
<1>1. PICK k \in Kinds, i \in ObjIds :
          \/ \E d \in Data : AddEntity(k, i, d)
          \/ \E s \in Samples : RecordSample(k, i, s)
          \/ \E f \in DeleteFrames : DeleteEntity(k, i, f)
    BY DEF EntityStep
<1>2. ASSUME NEW r \in EntityRecord
      PROVE  [entities EXCEPT ![k][i] = r]
                 \in [Kinds -> [ObjIds -> EntityRecord \union {None}]]
    BY DEF EntityTypes
<1>3. ASSUME NEW d \in Data, AddEntity(k, i, d)
      PROVE  entities' \in [Kinds -> [ObjIds -> EntityRecord \union {None}]]
  <2>1. NewRecord(d) \in EntityRecord
    BY FramesAreNatural DEF NewRecord, EntityRecord
  <2> QED
    BY <1>2, <1>3, <2>1 DEF AddEntity
<1>4. ASSUME NEW s \in Samples, RecordSample(k, i, s)
      PROVE  entities' \in [Kinds -> [ObjIds -> EntityRecord \union {None}]]
  <2>1. CASE entities[k][i] = None
    BY <1>4, <2>1 DEF RecordSample, EntityTypes
  <2>2. CASE entities[k][i] # None
    <3> DEFINE old == entities[k][i]
    <3>1. old \in EntityRecord
      BY <2>2 DEF EntityTypes
    <3>2. [old EXCEPT !.states = Append(@, s)] \in EntityRecord
      <4> DEFINE more == Append(old.states, s)
      <4>1. old.states \in Seq(Samples)
        BY <3>1 DEF EntityRecord
      <4>2. more \in Seq(Samples)
        BY <4>1
      <4> HIDE DEF more
      <4>3. [old EXCEPT !.states = more] \in EntityRecord
        BY <3>1, <4>2 DEF EntityRecord
      <4> QED
        BY <4>3 DEF more
    <3>3. entities' = [entities EXCEPT ![k][i] = [old EXCEPT !.states = Append(@, s)]]
      BY <1>4, <2>2 DEF RecordSample
    <3> QED
      BY <1>2, <3>2, <3>3
  <2> QED
    BY <2>1, <2>2
<1>5. ASSUME NEW f \in DeleteFrames, DeleteEntity(k, i, f)
      PROVE  entities' \in [Kinds -> [ObjIds -> EntityRecord \union {None}]]
  <2>1. CASE entities[k][i] = None
    BY <1>5, <2>1 DEF DeleteEntity, EntityTypes
  <2>2. CASE entities[k][i] # None
    <3> DEFINE old == entities[k][i]
    <3>1. old \in EntityRecord
      BY <2>2 DEF EntityTypes
    <3>2. [old EXCEPT !.deleteFrame = f] \in EntityRecord
      BY <3>1, MemoryAssumption DEF EntityRecord
    <3>3. entities' = [entities EXCEPT ![k][i] = [old EXCEPT !.deleteFrame = f]]
      BY <1>5, <2>2 DEF DeleteEntity
    <3> QED
      BY <1>2, <3>2, <3>3
  <2> QED
    BY <2>1, <2>2
<1> QED
    BY <1>1, <1>3, <1>4, <1>5

\* Path and metadata stay those of one export, and no path is published during a mission.
LEMMA PublishStep ==
    ASSUME MTypes, PublishInv, [BNext]_bvars
    PROVE  PublishInv'
<1> DEFINE Published == <<mission, lastPath, lastMeta, files>>
<1>1. ASSUME UNCHANGED Published, PublishTypes'
      PROVE  PublishInv'
    BY <1>1 DEF PublishInv, PathMatchesMetadata
<1>2. CASE EntityStep
  <2>1. UNCHANGED Published
    BY <1>2 DEF EntityStep, AddEntity, RecordSample, DeleteEntity, UNCHANGED_but_entities
  <2> QED
    BY <1>1, <1>2, <2>1, EntitiesKeepTypes DEF PublishInv, PublishTypes
<1>3. CASE MarkerStep \/ EventStep \/ FocusStep \/ UNCHANGED bvars
  <2>1. UNCHANGED Published /\ UNCHANGED entities
    BY <1>3 DEF MarkerStep, AddMarker, RecordMarkerState, DeleteMarker, EventStep,
        RecordEvent, FocusStep, SetFocusStart, SetFocusEnd, UNCHANGED_but_markers,
        UNCHANGED_but_focus, bvars
  <2> QED
    BY <1>1, <2>1 DEF PublishInv, PublishTypes, EntityTypes
<1>4. CASE MissionStep
  <2>1. CASE EndWithoutMission
    BY <1>1, <2>1 DEF EndWithoutMission, bvars, PublishInv, PublishTypes,
        EntityTypes
  <2>2. CASE ~EndWithoutMission
    <3>1. resetCollections
      BY <1>4, <2>2 DEF MissionStep, StartMission, EndSucceeds, EndFails
    <3>2. EntityTypes'
      BY <3>1 DEF resetCollections, NoEntities, EntityTypes
    <3>3. ASSUME NEW m \in Missions, StartMission(m)
          PROVE  PublishInv'
      BY <3>2, <3>3 DEF StartMission, PublishInv, PublishTypes, PathMatchesMetadata
    <3>4. CASE EndFails
      BY <3>2, <3>4 DEF EndFails, PublishInv, PublishTypes, PathMatchesMetadata
    <3>5. CASE EndSucceeds
      <4>1. /\ mission # None /\ mission' = None
            /\ lastMeta' = computeExportMetadata
            /\ files' = Append(files, buildMissionData)
            /\ lastPath' = Len(files) + 1
        BY <3>5 DEF EndSucceeds
      <4>2. /\ computeExportMetadata # None
            /\ buildMissionData \in ExportFile
            /\ DescribesFile(computeExportMetadata, buildMissionData)
            /\ buildMissionData.endFrame <= computeExportMetadata.endFrame
        BY <4>1, ExportTypes, MetadataDescribesFile DEF PublishInv, PublishTypes
      <4>3. /\ files' \in Seq(ExportFile) /\ Len(files') = Len(files) + 1
            /\ files'[Len(files) + 1] = buildMissionData
        BY <4>1, <4>2 DEF PublishInv, PublishTypes
      <4>4. PathMatchesMetadata'
        BY <4>1, <4>2, <4>3 DEF PathMatchesMetadata, DescribesFile
      <4> QED
        BY <3>2, <4>1, <4>3, <4>4 DEF PublishInv, PublishTypes
    <3> QED
      BY <1>4, <2>2, <3>3, <3>4, <3>5 DEF MissionStep
  <2> QED
    BY <2>1, <2>2
<1> QED
    BY <1>2, <1>3, <1>4 DEF BNext

\* However missions start, end and fail, a published path names the file written
\* last and the cached metadata is that of this file: of its mission, ending at
\* the last sample of its soldiers, vehicles and placed objects, and no earlier
\* than the file says (EndMission, GetExportedFilePath, GetExportMetadata).
THEOREM PublishedTogether == BSpec => []PathMatchesMetadata
<1>1. BInit => PublishInv
    BY DEF BInit, CollectionsAreEmpty, NoEntities, PublishInv, PublishTypes,
        EntityTypes, PathMatchesMetadata
<1>2. MemoryInv => MTypes
    BY DEF MemoryInv
<1>3. PublishInv => PathMatchesMetadata
    BY DEF PublishInv
<1> QED
    BY <1>1, <1>2, <1>3, MemoryIsInvariant, PublishStep, PTL DEF BSpec

-----------------------------------------------------------------------------
(* The goroutines that save *)

IsSequence(f) == \E S : f \in Seq(S)

PathType == Nat \union {None}

\* A save goroutine whose metadata is in M.
Job(M) ==
    [pc : {"unborn", "end", "path", "meta", "upload", "report", "clear", "done"},
     client : BOOLEAN, path : PathType, meta : M, result : {"ok", "partial", "error"},
     file : PathType, quiet : BOOLEAN]

SaveTypes ==
    /\ saves \in 0..MaxSaves
    /\ client \in BOOLEAN
    /\ lastPath \in PathType
    /\ IsSequence(files)
    /\ IsSequence(reports)
    /\ \E M : worker \in [Saves -> Job(M)]

\* From the compare-and-swap to the store that clears the flag, one goroutine
\* exists, that of the save accepted last.
OneWorker ==
    /\ \A s \in Saves : s > saves <=> worker[s].pc = "unborn"
    /\ \A s \in Saves : s < saves => worker[s].pc = "done"
    /\ inFlight <=> saves > 0 /\ worker[saves].pc # "done"

\* Every save is reported but the one that is running, until it reports.
AllReported ==
    /\ \A i \in DOMAIN reports : reports[i].save = i
    /\ Len(reports) = IF saves > 0 /\ worker[saves].pc \notin {"clear", "done"}
                      THEN saves - 1 ELSE saves

\* meta describes the file of that index.
Describes(meta, f) ==
    /\ f \in DOMAIN files
    /\ DescribesFile(meta, files[f])

\* What a quiet save finds at each of its calls, and has sent.
QuietWorker ==
    \A s \in Saves : worker[s].quiet =>
        /\ worker[s].pc \in {"path", "meta"} =>
              /\ mission = None
              /\ lastPath = worker[s].file
              /\ Describes(lastMeta, worker[s].file)
        /\ worker[s].pc = "meta" => worker[s].path = worker[s].file
        /\ worker[s].pc = "upload" =>
              /\ worker[s].path = worker[s].file
              /\ Describes(worker[s].meta, worker[s].file)

QuietUploads ==
    \A u \in uploads :
        /\ u.save \in Saves
        /\ worker[u.save].pc \in {"report", "clear", "done"}
        /\ worker[u.save].quiet =>
              u.path = worker[u.save].file /\ Describes(u.meta, u.path)

SaveInv == SaveTypes /\ OneWorker /\ AllReported /\ QuietWorker /\ QuietUploads

-----------------------------------------------------------------------------
\* A sequence, whatever its items, with one more.
LEMMA AppendedTo ==
    ASSUME NEW f, IsSequence(f), NEW e
    PROVE  /\ IsSequence(Append(f, e))
           /\ Len(f) \in Nat /\ DOMAIN f = 1..Len(f)
           /\ Len(Append(f, e)) = Len(f) + 1
           /\ DOMAIN Append(f, e) = 1..(Len(f) + 1)
           /\ \A i \in DOMAIN f : Append(f, e)[i] = f[i]
           /\ Append(f, e)[Len(f) + 1] = e
<1>1. PICK S : f \in Seq(S)
    BY DEF IsSequence
<1>2. f \in Seq(S \union {e})
    BY <1>1
<1>3. Append(f, e) \in Seq(S \union {e})
    BY <1>2
<1> QED
    BY <1>2, <1>3 DEF IsSequence

\* The places of a sequence, whatever its items.
LEMMA SequencesHaveALength ==
    ASSUME NEW f, IsSequence(f)
    PROVE  Len(f) \in Nat /\ DOMAIN f = 1..Len(f)
    BY DEF IsSequence

\* Saves are numbered from 1.
LEMMA SavesAreNatural ==
    ASSUME SaveTypes
    PROVE  /\ saves \in Nat /\ MaxSaves \in Nat /\ Saves \subseteq Nat \ {0}
           /\ saves > 0 => saves \in Saves
           /\ saves < MaxSaves => saves + 1 \in Saves
    BY SaveAssumption DEF SaveTypes, Saves

\* One goroutine changes, all its fields stay in their types.
LEMMA WorkerUpdated ==
    ASSUME SaveTypes, NEW s \in Saves, NEW M, NEW r \in Job(M),
           worker' = [worker EXCEPT ![s] = r]
    PROVE  /\ \E N : worker' \in [Saves -> Job(N)]
           /\ worker'[s] = r
           /\ \A t \in Saves : t # s => worker'[t] = worker[t]
<1>1. PICK M1 : worker \in [Saves -> Job(M1)]
    BY DEF SaveTypes
<1>2. worker \in [Saves -> Job(M \union M1)] /\ r \in Job(M \union M1)
    BY <1>1 DEF Job
<1>3. worker' \in [Saves -> Job(M \union M1)]
    BY <1>2
<1> QED
    BY <1>2, <1>3

\* What the goroutine of a save holds.
LEMMA WorkerIsJob ==
    ASSUME SaveTypes, NEW s \in Saves
    PROVE  \E M : worker[s] \in Job(M)
    BY DEF SaveTypes

\* Only the save accepted last can run.
LEMMA OnlyTheLastRuns ==
    ASSUME SaveTypes, OneWorker, NEW s \in Saves, worker[s].pc \notin {"unborn", "done"}
    PROVE  s = saves /\ saves > 0 /\ inFlight
    BY SavesAreNatural DEF OneWorker

-----------------------------------------------------------------------------
\* No save was accepted at the start.
LEMMA Initially == SInit => SaveInv
<1> SUFFICES ASSUME SInit PROVE SaveInv
    OBVIOUS
<1> USE DEF SInit, BInit
<1>1. SaveTypes
  <2>1. worker \in [Saves -> Job({None})]
    BY DEF Unborn, Job, PathType
  <2>2. <<>> \in Seq({})
    OBVIOUS
  <2> QED
    BY <2>1, <2>2, SaveAssumption DEF SaveTypes, IsSequence, PathType
<1>2. \A s \in Saves : worker[s].pc = "unborn"
    BY DEF Unborn
<1>3. OneWorker /\ AllReported
    BY <1>1, <1>2, SavesAreNatural DEF OneWorker, AllReported
<1>4. QuietWorker /\ QuietUploads
    BY <1>2 DEF QuietWorker, QuietUploads
<1> QED
    BY <1>1, <1>3, <1>4 DEF SaveInv

\* Steps that change neither a goroutine nor what a goroutine looks at.
Seen == <<mission, lastPath, lastMeta, files, inFlight, saves, worker, uploads, reports>>

\* A step that the saves cannot see keeps their invariant.
LEMMA UnseenSteps ==
    ASSUME SaveInv, UNCHANGED Seen, client' \in BOOLEAN
    PROVE  SaveInv'
    BY DEF SaveInv, Seen, SaveTypes, OneWorker, AllReported, QuietWorker, QuietUploads,
           Describes

\* A save is accepted only when the flag is down, so it is the newest and the only one.
LEMMA TriggerStep ==
    ASSUME SaveInv, TriggerSave
    PROVE  SaveInv'
<1> USE DEF SaveInv
<1> DEFINE n == saves + 1
           r == [Unborn EXCEPT !.pc = "end", !.client = client]
<1>1. /\ ~inFlight /\ saves < MaxSaves /\ inFlight' /\ saves' = n
      /\ worker' = [worker EXCEPT ![n] = r]
      /\ UNCHANGED <<mission, client, lastPath, lastMeta, files, uploads, reports>>
    BY DEF TriggerSave, CompareAndSwap, bvars
<1>2. n \in Saves /\ n > 0 /\ saves \in Nat /\ Saves \subseteq Nat \ {0}
    BY <1>1, SavesAreNatural
<1>3. r \in Job({None}) /\ r.pc = "end"
    BY DEF Unborn, Job, PathType, SaveTypes
<1> HIDE DEF r
<1>4. /\ \E N : worker' \in [Saves -> Job(N)]
      /\ worker'[n] = r
      /\ \A t \in Saves : t # n => worker'[t] = worker[t]
    BY <1>1, <1>2, <1>3, WorkerUpdated
<1>5. SaveTypes'
    BY <1>1, <1>2, <1>4, SaveAssumption DEF SaveTypes
<1>6. worker[n].pc = "unborn"
    BY <1>2 DEF OneWorker
<1>7. OneWorker'
  <2>1. \A s \in Saves : s < n => worker[s].pc = "done"
    BY <1>1, <1>2 DEF OneWorker
  <2>2. \A s \in Saves : s > n <=> worker'[s].pc = "unborn"
    BY <1>2, <1>3, <1>4, <2>1 DEF OneWorker
  <2> QED
    BY <1>1, <1>2, <1>3, <1>4, <2>1, <2>2 DEF OneWorker
<1>8. AllReported'
    BY <1>1, <1>2, <1>3, <1>4 DEF AllReported, OneWorker
<1>9. QuietWorker'
    BY <1>1, <1>3, <1>4 DEF QuietWorker, Describes
<1>10. QuietUploads'
    BY <1>1, <1>4, <1>6 DEF QuietUploads, Describes
<1> QED
    BY <1>5, <1>7, <1>8, <1>9, <1>10

\* A mission that starts while a save is between its calls ends the quiet.
LEMMA StartStep ==
    ASSUME SaveInv, BackendStart
    PROVE  SaveInv'
<1> USE DEF SaveInv
<1> DEFINE W(s) == IF worker[s].pc \in {"path", "meta"}
                   THEN [worker[s] EXCEPT !.quiet = FALSE] ELSE worker[s]
<1>1. /\ lastPath' = None /\ worker' = [s \in Saves |-> W(s)]
      /\ UNCHANGED <<client, lastMeta, files, inFlight, saves, uploads, reports>>
    BY DEF BackendStart, StartMission
<1>2. PICK M : worker \in [Saves -> Job(M)]
    BY DEF SaveTypes
<1>3. ASSUME NEW s \in Saves
      PROVE  /\ W(s) \in Job(M) /\ W(s).pc = worker[s].pc
             /\ W(s).path = worker[s].path /\ W(s).meta = worker[s].meta
             /\ W(s).file = worker[s].file
             /\ W(s).quiet => worker[s].quiet /\ worker[s].pc \notin {"path", "meta"}
  <2>1. worker[s] \in Job(M)
    BY <1>2
  <2> QED
    BY <2>1 DEF Job
<1>4. \A s \in Saves : worker'[s] = W(s)
    BY <1>1
<1>5. worker' \in [Saves -> Job(M)]
    BY <1>1, <1>3
<1> HIDE DEF W
<1>6. SaveTypes'
    BY <1>1, <1>5 DEF SaveTypes, PathType
<1>7. OneWorker' /\ AllReported'
    BY <1>1, <1>3, <1>4, SavesAreNatural DEF OneWorker, AllReported
<1>8. QuietWorker'
    BY <1>1, <1>3, <1>4 DEF QuietWorker, Describes
<1>9. QuietUploads'
    BY <1>1, <1>3, <1>4 DEF QuietUploads, Describes
<1> QED
    BY <1>6, <1>7, <1>8, <1>9

-----------------------------------------------------------------------------
\* A goroutine goes on, and does not end.
LEMMA WorkerGoesOn ==
    ASSUME SaveInv, NEW s \in Saves, worker[s].pc \notin {"unborn", "done"}, NEW M,
           NEW r \in Job(M), worker' = [worker EXCEPT ![s] = r],
           r.pc \notin {"unborn", "done"}, UNCHANGED <<inFlight, saves>>
    PROVE  /\ OneWorker'
           /\ s = saves /\ saves > 0 /\ saves \in Nat /\ inFlight
           /\ \E N : worker' \in [Saves -> Job(N)]
           /\ worker'[s] = r
           /\ \A t \in Saves : t # s => worker'[t] = worker[t]
           /\ \A t \in Saves : t # s => worker[t].pc \in {"unborn", "done"}
<1> USE DEF SaveInv
<1>1. s = saves /\ saves > 0 /\ inFlight
    BY OnlyTheLastRuns
<1>2. /\ \E N : worker' \in [Saves -> Job(N)]
      /\ worker'[s] = r
      /\ \A t \in Saves : t # s => worker'[t] = worker[t]
    BY WorkerUpdated
<1>3. saves \in Nat /\ Saves \subseteq Nat
    BY SavesAreNatural
<1>4. OneWorker'
    BY <1>1, <1>2, <1>3 DEF OneWorker
<1> QED
    BY <1>1, <1>2, <1>3, <1>4 DEF OneWorker

\* EndMission: the file it wrote is the last one, and no mission is active.
LEMMA EndStep ==
    ASSUME SaveInv, EntityTypes, NEW s \in Saves, WorkerEnd(s)
    PROVE  SaveInv'
<1> USE DEF SaveInv
<1>1. /\ worker[s].pc = "end"
      /\ UNCHANGED <<inFlight, client, saves, uploads, reports>>
    BY DEF WorkerEnd
<1>2. PICK M : worker[s] \in Job(M)
    BY WorkerIsJob
<1>3. CASE EndSucceeds /\ Advance(s, [worker[s] EXCEPT !.pc = "path", !.file = lastPath'])
  <2> DEFINE f == Len(files) + 1
             r == [worker[s] EXCEPT !.pc = "path", !.file = f]
             b == buildMissionData
  <2>1. /\ lastPath' = f /\ files' = Append(files, b) /\ mission' = None
        /\ lastMeta' = computeExportMetadata
        /\ worker' = [worker EXCEPT ![s] = r]
    BY <1>3 DEF EndSucceeds, Advance
  <2>2. f \in PathType /\ r \in Job(M) /\ r.pc = "path" /\ r.file = f
    <3>1. f \in PathType
      BY SequencesHaveALength DEF SaveTypes, PathType
    <3> QED
      BY <1>2, <3>1 DEF Job
  <2>3. DescribesFile(lastMeta', b)
    BY <2>1, MetadataDescribesFile
  <2> HIDE DEF b, r
  <2>4. /\ IsSequence(files') /\ f \in DOMAIN files' /\ files'[f] = b
        /\ \A i \in DOMAIN files : i \in DOMAIN files' /\ files'[i] = files[i]
    BY <2>1, AppendedTo DEF SaveTypes
  <2> HIDE DEF f
  <2>5. /\ OneWorker'
        /\ s = saves /\ saves > 0 /\ saves \in Nat
        /\ \E N : worker' \in [Saves -> Job(N)]
        /\ worker'[s] = r
        /\ \A t \in Saves : t # s => worker'[t] = worker[t]
        /\ \A t \in Saves : t # s => worker[t].pc \in {"unborn", "done"}
    BY <1>1, <2>1, <2>2, WorkerGoesOn
  <2>6. SaveTypes'
    BY <1>1, <2>1, <2>2, <2>4, <2>5 DEF SaveTypes
  <2>7. AllReported'
    BY <1>1, <2>2, <2>5 DEF AllReported
  <2>8. QuietWorker'
    BY <2>1, <2>2, <2>3, <2>4, <2>5 DEF QuietWorker, Describes
  <2>9. QuietUploads'
    BY <1>1, <2>4, <2>5 DEF QuietUploads, Describes
  <2> QED
    BY <2>5, <2>6, <2>7, <2>8, <2>9
<1>4. CASE /\ EndFails \/ EndWithoutMission
           /\ Advance(s, [worker[s] EXCEPT !.pc = "report", !.result = "error"])
  <2> DEFINE r == [worker[s] EXCEPT !.pc = "report", !.result = "error"]
  <2>1. worker' = [worker EXCEPT ![s] = r] /\ UNCHANGED <<lastPath, files>>
    BY <1>4 DEF EndFails, EndWithoutMission, Advance, bvars
  <2>2. r \in Job(M) /\ r.pc = "report"
    BY <1>2 DEF Job
  <2> HIDE DEF r
  <2>3. /\ OneWorker'
        /\ s = saves /\ saves > 0 /\ saves \in Nat
        /\ \E N : worker' \in [Saves -> Job(N)]
        /\ worker'[s] = r
        /\ \A t \in Saves : t # s => worker'[t] = worker[t]
        /\ \A t \in Saves : t # s => worker[t].pc \in {"unborn", "done"}
    BY <1>1, <2>1, <2>2, WorkerGoesOn
  <2>4. SaveTypes'
    BY <1>1, <2>1, <2>3 DEF SaveTypes
  <2>5. AllReported'
    BY <1>1, <2>2, <2>3 DEF AllReported
  <2>6. QuietWorker'
    BY <2>2, <2>3 DEF QuietWorker
  <2>7. QuietUploads'
    BY <1>1, <2>1, <2>3 DEF QuietUploads, Describes
  <2> QED
    BY <2>3, <2>4, <2>5, <2>6, <2>7
<1> QED
    BY <1>3, <1>4 DEF WorkerEnd

\* GetExportedFilePath.
LEMMA PathStep ==
    ASSUME SaveInv, NEW s \in Saves, WorkerPath(s)
    PROVE  SaveInv'
<1> USE DEF SaveInv
<1> DEFINE next == IF worker[s].client /\ lastPath # None THEN "meta" ELSE "report"
           r == [worker[s] EXCEPT !.path = lastPath, !.pc = next]
<1>1. /\ worker[s].pc = "path" /\ worker' = [worker EXCEPT ![s] = r]
      /\ UNCHANGED <<inFlight, client, saves, uploads, reports, mission, lastPath,
                     lastMeta, files>>
    BY DEF WorkerPath, Advance, bvars
<1>2. PICK M : worker[s] \in Job(M)
    BY WorkerIsJob
<1>3. /\ r \in Job(M) /\ r.path = lastPath /\ r.pc \in {"meta", "report"}
      /\ r.file = worker[s].file /\ r.quiet = worker[s].quiet
    BY <1>2 DEF Job, SaveTypes
<1> HIDE DEF r
<1>4. /\ OneWorker'
      /\ s = saves /\ saves > 0 /\ saves \in Nat
      /\ \E N : worker' \in [Saves -> Job(N)]
      /\ worker'[s] = r
      /\ \A t \in Saves : t # s => worker'[t] = worker[t]
      /\ \A t \in Saves : t # s => worker[t].pc \in {"unborn", "done"}
    BY <1>1, <1>3, WorkerGoesOn
<1>5. SaveTypes'
    BY <1>1, <1>4 DEF SaveTypes
<1>6. AllReported'
    BY <1>1, <1>3, <1>4 DEF AllReported
<1>7. QuietWorker'
    BY <1>1, <1>3, <1>4 DEF QuietWorker, Describes
<1>8. QuietUploads'
    BY <1>1, <1>4 DEF QuietUploads, Describes
<1> QED
    BY <1>4, <1>5, <1>6, <1>7, <1>8

\* GetExportMetadata: with no mission active, the metadata of the last export.
LEMMA MetaStep ==
    ASSUME SaveInv, NEW s \in Saves, WorkerMeta(s)
    PROVE  SaveInv'
<1> USE DEF SaveInv
<1> DEFINE r == [worker[s] EXCEPT !.pc = "upload", !.meta = Metadata]
<1>1. /\ worker[s].pc = "meta" /\ worker' = [worker EXCEPT ![s] = r]
      /\ UNCHANGED <<inFlight, client, saves, uploads, reports, mission, lastPath,
                     lastMeta, files>>
    BY DEF WorkerMeta, Advance, bvars
<1>2. PICK M : worker[s] \in Job(M)
    BY WorkerIsJob
<1>3. /\ r \in Job(M \union {Metadata}) /\ r.path = worker[s].path /\ r.pc = "upload"
      /\ r.file = worker[s].file /\ r.quiet = worker[s].quiet /\ r.meta = Metadata
    BY <1>2 DEF Job
<1>4. mission = None => Metadata = lastMeta
    BY DEF Metadata, GetExportMetadata
<1> HIDE DEF r
<1>5. /\ OneWorker'
      /\ s = saves /\ saves > 0 /\ saves \in Nat
      /\ \E N : worker' \in [Saves -> Job(N)]
      /\ worker'[s] = r
      /\ \A t \in Saves : t # s => worker'[t] = worker[t]
      /\ \A t \in Saves : t # s => worker[t].pc \in {"unborn", "done"}
    BY <1>1, <1>3, WorkerGoesOn
<1>6. SaveTypes'
    BY <1>1, <1>5 DEF SaveTypes
<1>7. AllReported'
    BY <1>1, <1>3, <1>5 DEF AllReported
<1>8. QuietWorker'
    BY <1>1, <1>3, <1>4, <1>5 DEF QuietWorker, Describes
<1>9. QuietUploads'
    BY <1>1, <1>5 DEF QuietUploads, Describes
<1> QED
    BY <1>5, <1>6, <1>7, <1>8, <1>9

\* An upload sends what the goroutine of that save has read.
LEMMA UploadStep ==
    ASSUME SaveInv, NEW s \in Saves, WorkerUpload(s)
    PROVE  SaveInv'
<1> USE DEF SaveInv
<1>0. PICK result \in {"ok", "partial", "error"} :
          Advance(s, [worker[s] EXCEPT !.pc = "report", !.result = result])
    BY DEF WorkerUpload
<1> DEFINE r == [worker[s] EXCEPT !.pc = "report", !.result = result]
           u == [save |-> s, path |-> worker[s].path, meta |-> worker[s].meta]
<1>1. /\ worker[s].pc = "upload" /\ worker' = [worker EXCEPT ![s] = r]
      /\ uploads' = uploads \union {u}
      /\ UNCHANGED <<inFlight, client, saves, reports, mission, lastPath, lastMeta,
                     files>>
    BY <1>0 DEF WorkerUpload, Advance, bvars
<1>2. PICK M : worker[s] \in Job(M)
    BY WorkerIsJob
<1>3. /\ r \in Job(M) /\ r.pc = "report"
      /\ r.file = worker[s].file /\ r.quiet = worker[s].quiet
    BY <1>2 DEF Job
<1>4. u.save = s /\ u.path = worker[s].path /\ u.meta = worker[s].meta
    OBVIOUS
<1> HIDE DEF r, u
<1>5. /\ OneWorker'
      /\ s = saves /\ saves > 0 /\ saves \in Nat
      /\ \E N : worker' \in [Saves -> Job(N)]
      /\ worker'[s] = r
      /\ \A t \in Saves : t # s => worker'[t] = worker[t]
      /\ \A t \in Saves : t # s => worker[t].pc \in {"unborn", "done"}
    BY <1>1, <1>3, WorkerGoesOn
<1>6. SaveTypes'
    BY <1>1, <1>5 DEF SaveTypes
<1>7. AllReported'
    BY <1>1, <1>3, <1>5 DEF AllReported
<1>8. QuietWorker'
    BY <1>1, <1>3, <1>5 DEF QuietWorker, Describes
<1>9. QuietUploads'
    BY <1>1, <1>3, <1>4, <1>5 DEF QuietUploads, QuietWorker, Describes
<1> QED
    BY <1>5, <1>6, <1>7, <1>8, <1>9

\* The callback: the report of this save comes after those of all before it.
LEMMA ReportStep ==
    ASSUME SaveInv, NEW s \in Saves, WorkerReport(s)
    PROVE  SaveInv'
<1> USE DEF SaveInv
<1> DEFINE r == [worker[s] EXCEPT !.pc = "clear"]
           e == [save |-> s, result |-> worker[s].result,
                 path |-> IF worker[s].result = "error" THEN None ELSE worker[s].path]
<1>1. /\ worker[s].pc = "report" /\ worker' = [worker EXCEPT ![s] = r]
      /\ reports' = Append(reports, e)
      /\ UNCHANGED <<inFlight, client, saves, uploads, mission, lastPath, lastMeta,
                     files>>
    BY DEF WorkerReport, Advance, bvars
<1>2. PICK M : worker[s] \in Job(M)
    BY WorkerIsJob
<1>3. /\ r \in Job(M) /\ r.pc = "clear"
      /\ r.file = worker[s].file /\ r.quiet = worker[s].quiet
    BY <1>2 DEF Job
<1>4. e.save = s
    OBVIOUS
<1> HIDE DEF r, e
<1>5. /\ OneWorker'
      /\ s = saves /\ saves > 0 /\ saves \in Nat
      /\ \E N : worker' \in [Saves -> Job(N)]
      /\ worker'[s] = r
      /\ \A t \in Saves : t # s => worker'[t] = worker[t]
      /\ \A t \in Saves : t # s => worker[t].pc \in {"unborn", "done"}
    BY <1>1, <1>3, WorkerGoesOn
<1>6. /\ IsSequence(reports')
      /\ Len(reports) \in Nat /\ DOMAIN reports = 1..Len(reports)
      /\ Len(reports') = Len(reports) + 1
      /\ DOMAIN reports' = 1..(Len(reports) + 1)
      /\ \A i \in DOMAIN reports : reports'[i] = reports[i]
      /\ reports'[Len(reports) + 1] = e
    BY <1>1, AppendedTo DEF SaveTypes
<1>7. SaveTypes'
    BY <1>1, <1>5, <1>6 DEF SaveTypes
<1>8. AllReported'
  <2>1. Len(reports) = saves - 1
    BY <1>1, <1>5 DEF AllReported
  <2>2. \A i \in DOMAIN reports' : reports'[i].save = i
    BY <1>4, <1>5, <1>6, <2>1 DEF AllReported
  <2> QED
    BY <1>1, <1>3, <1>5, <1>6, <2>1, <2>2 DEF AllReported
<1>9. QuietWorker'
    BY <1>1, <1>3, <1>5 DEF QuietWorker, Describes
<1>10. QuietUploads'
    BY <1>1, <1>3, <1>5 DEF QuietUploads, Describes
<1> QED
    BY <1>5, <1>7, <1>8, <1>9, <1>10

\* The flag is cleared by the goroutine that holds it.
LEMMA ClearStep ==
    ASSUME SaveInv, NEW s \in Saves, WorkerClear(s)
    PROVE  SaveInv'
<1> USE DEF SaveInv
<1> DEFINE r == [worker[s] EXCEPT !.pc = "done"]
<1>1. /\ worker[s].pc = "clear" /\ worker' = [worker EXCEPT ![s] = r] /\ ~inFlight'
      /\ UNCHANGED <<client, saves, uploads, reports, mission, lastPath, lastMeta, files>>
    BY DEF WorkerClear, Advance, bvars
<1>2. PICK M : worker[s] \in Job(M)
    BY WorkerIsJob
<1>3. /\ r \in Job(M) /\ r.pc = "done"
      /\ r.file = worker[s].file /\ r.quiet = worker[s].quiet
    BY <1>2 DEF Job
<1> HIDE DEF r
<1>4. /\ \E N : worker' \in [Saves -> Job(N)]
      /\ worker'[s] = r
      /\ \A t \in Saves : t # s => worker'[t] = worker[t]
    BY <1>1, <1>3, WorkerUpdated
<1>5. s = saves /\ saves > 0 /\ saves \in Nat /\ Saves \subseteq Nat
    BY <1>1, OnlyTheLastRuns, SavesAreNatural
<1>6. SaveTypes'
    BY <1>1, <1>4 DEF SaveTypes
<1>7. OneWorker'
    BY <1>1, <1>3, <1>4, <1>5 DEF OneWorker
<1>8. AllReported'
    BY <1>1, <1>3, <1>4, <1>5 DEF AllReported
<1>9. QuietWorker'
    BY <1>1, <1>3, <1>4 DEF QuietWorker, Describes
<1>10. QuietUploads'
    BY <1>1, <1>3, <1>4 DEF QuietUploads, Describes
<1> QED
    BY <1>6, <1>7, <1>8, <1>9, <1>10

\* Every step keeps the invariant of the saves.
LEMMA SaveStep ==
    ASSUME SaveInv, EntityTypes, [SNext]_allvars
    PROVE  SaveInv'
<1>1. CASE TriggerSave
    BY <1>1, TriggerStep
<1>2. CASE BackendStart
    BY <1>2, StartStep
<1>3. ASSUME NEW s \in Saves, Worker(s)
      PROVE  SaveInv'
    BY <1>3, EndStep, PathStep, MetaStep, UploadStep, ReportStep, ClearStep DEF Worker
<1>4. CASE \/ RefuseSave \/ (\E m \in Missions : QueueStart(m)) \/ ClientReady
           \/ TakeStart \/ Recording \/ UNCHANGED allvars
  <2>1. UNCHANGED Seen /\ client' \in BOOLEAN
    BY <1>4 DEF SaveInv, SaveTypes, RefuseSave, QueueStart, ClientReady, TakeStart,
                Recording, AddEntity, RecordSample, UNCHANGED_but_entities, allvars,
                bvars, svars, Seen
  <2> QED
    BY <2>1, UnseenSteps
<1> QED
    BY <1>1, <1>2, <1>3, <1>4 DEF SNext, Starter

\* Neither a save nor a start nor the recording handlers change the entities'
\* types.
LEMMA SaveKeepsEntityTypes ==
    ASSUME EntityTypes, [SNext]_allvars
    PROVE  EntityTypes'
<1>1. CASE resetCollections
    BY <1>1 DEF resetCollections, NoEntities, EntityTypes
<1>2. CASE UNCHANGED entities
    BY <1>2 DEF EntityTypes
<1>3. CASE Recording
    BY <1>3, EntitiesKeepTypes DEF Recording, EntityStep, Kinds
<1>4. \/ resetCollections \/ UNCHANGED entities \/ Recording
    BY DEF SNext, TriggerSave, RefuseSave, QueueStart, ClientReady, Starter, TakeStart,
        BackendStart, StartMission, Worker, WorkerEnd, EndSucceeds, EndFails,
        EndWithoutMission, WorkerPath, WorkerMeta, WorkerUpload, WorkerReport,
        WorkerClear, allvars, bvars
<1> QED
    BY <1>1, <1>2, <1>3, <1>4

\* The invariant of the saves holds in every reachable state.
LEMMA SaveIsInvariant == SSpec => []SaveInv
<1>1. SInit => EntityTypes
    BY DEF SInit, BInit, CollectionsAreEmpty, NoEntities, EntityTypes
<1> QED
    BY <1>1, Initially, SaveStep, SaveKeepsEntityTypes, PTL DEF SSpec

\* Every :MISSION:SAVE: that was accepted is reported exactly once and in the
\* order of acceptance, however its export and its upload end.
THEOREM SavesAreReportedInOrder == SSpec => []ReportedOnceInOrder
<1>1. SaveInv => ReportedOnceInOrder
  <2> SUFFICES ASSUME SaveInv PROVE ReportedOnceInOrder
    OBVIOUS
  <2> USE DEF SaveInv
  <2>1. /\ saves \in Nat /\ Saves \subseteq Nat
        /\ Len(reports) \in {saves - 1, saves} /\ Len(reports) <= saves
    BY SavesAreNatural DEF AllReported
  <2>2. ASSUME NEW s \in Saves, worker[s].pc \in {"clear", "done"}
        PROVE  s <= Len(reports)
    BY <2>1, <2>2 DEF OneWorker, AllReported
  <2> QED
    BY <2>1, <2>2 DEF AllReported, ReportedOnceInOrder
<1> QED
    BY <1>1, SaveIsInvariant, PTL

\* A save during which no mission starts uploads the file it wrote with the
\* metadata of that file, whatever else the game records meanwhile.
THEOREM QuietUploadsMatch == SSpec => []QuietUploadMatchesFile
<1>1. SaveInv => QuietUploadMatchesFile
    BY DEF SaveInv, QuietUploads, QuietUploadMatchesFile, Describes
<1> QED
    BY <1>1, SaveIsInvariant, PTL
=============================================================================
