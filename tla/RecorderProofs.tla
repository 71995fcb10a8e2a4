---------------------------- MODULE RecorderProofs ----------------------------
(***************************************************************************)
(* Proofs about Recorder, for any missions, objects, markers and commands  *)
(* of a game that waits for :MISSION:OK: before it records.                *)
(***************************************************************************)
EXTENDS Recorder, TLAPS

Entry    == [src : Missions, player : BOOLEAN]
StateMsg == [id : ObjIds, src : Missions, player : BOOLEAN]
MoveMsg  == [name : Names, src : Missions]
Record   == [data : Missions, states : Seq(Samples), deleteFrame : Frames]
Marker   == [name : Names, data : Missions, states : Seq(Samples), endFrame : Frames]

BackendTypes ==
    /\ mission \in Missions \union {None}
    /\ entities \in [Kinds -> [ObjIds -> Record \union {None}]]
    /\ markers \in [Names -> Nat \union {None}]
    /\ markersByID \in Seq(Marker)

CacheTypes ==
    /\ entityCache \in [Kinds -> [ObjIds -> Entry \union {None}]]
    /\ markerCache \in [Names -> Nat \union {None}]

QueueTypes ==
    /\ stateq \in [Kinds -> Seq(StateMsg)]
    /\ deleteq \in [Kinds -> Seq([id : ObjIds, frame : DeleteFrames])]
    /\ moveq \in Seq(MoveMsg)
    /\ unmarkq \in Seq([name : Names, frame : DeleteFrames])
    /\ startq \in Seq(Missions)

Stater == [pc : {"update", "record"}, ev : StateMsg, entry : Entry]
Mover  == [pc : {"record"}, ev : MoveMsg, id : Nat]

GoroutineTypes ==
    /\ stater \in [Kinds -> {Resting} \union Stater]
    /\ mover \in {Resting} \union Mover
    /\ starter \in {Resting} \union
          [pc : {"markers", "entities", "backend", "ok"}, mission : Missions]

Command == [pc : {"addEntity"}, kind : ActiveKinds, id : ObjIds, src : Missions]
              \union [pc : {"setMarker"}, name : Names, id : Nat]

GameTypes ==
    /\ drains \in BOOLEAN
    /\ game \in {Resting} \union Command
    /\ current \in Missions \union {None}
    /\ acked \in Missions \union {None}
    /\ started \subseteq Missions

Types == BackendTypes /\ CacheTypes /\ QueueTypes /\ GoroutineTypes /\ GameTypes

-----------------------------------------------------------------------------
\* What is sent is in the channel with what was there.
LEMMA Sent ==
    ASSUME NEW S, NEW q \in Seq(S), NEW e \in S
    PROVE  Append(q, e) \in Seq(S) /\ Range(Append(q, e)) = Range(q) \union {e}
<1>1. Append(q, e) \in Seq(S) /\ Len(q) \in Nat /\ Len(Append(q, e)) = Len(q) + 1
    OBVIOUS
<1>2. DOMAIN q = 1..Len(q) /\ DOMAIN Append(q, e) = 1..(Len(q) + 1)
    BY <1>1
<1>3. /\ \A i \in 1..Len(q) : Append(q, e)[i] = q[i]
      /\ Append(q, e)[Len(q) + 1] = e
    OBVIOUS
<1> QED
    BY <1>1, <1>2, <1>3 DEF Range

\* What is received was in the channel, and so is the rest.
LEMMA Received ==
    ASSUME NEW S, NEW q \in Seq(S), q # <<>>
    PROVE  /\ Head(q) \in S /\ Head(q) \in Range(q)
           /\ Tail(q) \in Seq(S) /\ Range(Tail(q)) \subseteq Range(q)
<1>1. Tail(q) \in Seq(S) /\ Len(q) \in Nat /\ Len(q) > 0 /\ Len(Tail(q)) = Len(q) - 1
    OBVIOUS
<1>2. DOMAIN q = 1..Len(q) /\ DOMAIN Tail(q) = 1..(Len(q) - 1)
    BY <1>1
<1>3. \A i \in 1..(Len(q) - 1) : Tail(q)[i] = q[i + 1] /\ i + 1 \in 1..Len(q)
    BY <1>1
<1>4. Head(q) = q[1] /\ q[1] \in S /\ 1 \in 1..Len(q)
    BY <1>1
<1> QED
    BY <1>1, <1>2, <1>3, <1>4 DEF Range

\* A deletion has a frame.
LEMMA FramesInclude == FrameForever \in Frames /\ DeleteFrames \subseteq Frames
    BY MemoryAssumption DEF Frames, FrameForever

-----------------------------------------------------------------------------
(* What the calls of the backend do to the records *)

Tables == <<mission, entities, markers, markersByID>>

\* Entities stay as they are but for their states and the frame of deletion;
\* only samples of S are new.
EntitiesKept(S) ==
    /\ UNCHANGED <<mission, markers, markersByID>>
    /\ \A k \in Kinds, i \in ObjIds :
          /\ entities'[k][i] = None <=> entities[k][i] = None
          /\ entities[k][i] # None =>
                /\ entities'[k][i].data = entities[k][i].data
                /\ Range(entities'[k][i].states) \subseteq Range(entities[k][i].states) \union S

\* Markers stay as they are but for their states and the end frame; only the one
\* with that id has new states.
MarkersKept(id, S) ==
    /\ UNCHANGED <<mission, entities, markers>>
    /\ DOMAIN markersByID' = DOMAIN markersByID
    /\ \A x \in DOMAIN markersByID :
          /\ markersByID'[x].name = markersByID[x].name
          /\ markersByID'[x].data = markersByID[x].data
          /\ Range(markersByID'[x].states) \subseteq
                Range(markersByID[x].states) \union (IF x = id THEN S ELSE {})

\* AddSoldier, AddVehicle and AddPlacedObject make one record.
LEMMA AddEntityEffect ==
    ASSUME BackendTypes, NEW k \in Kinds, NEW i \in ObjIds, NEW m \in Missions,
           AddEntity(k, i, m)
    PROVE  /\ BackendTypes'
           /\ UNCHANGED <<mission, markers, markersByID>>
           /\ entities'[k][i] = NewRecord(m)
           /\ \A l \in Kinds, j \in ObjIds :
                 (l # k \/ j # i) => entities'[l][j] = entities[l][j]
           /\ NewRecord(m) # None
<1>1. NewRecord(m) \in Record
    BY FramesInclude DEF NewRecord, Record
<1>2. NewRecord(m) # None
    BY <1>1, RecorderAssumption DEF Record
<1> QED
    BY <1>1, <1>2 DEF AddEntity, UNCHANGED_but_entities, BackendTypes

\* One record is replaced by one that keeps its data.
LEMMA RecordReplaced ==
    ASSUME BackendTypes, NEW k \in Kinds, NEW i \in ObjIds, entities[k][i] # None,
           NEW r \in Record, NEW S,
           r.data = entities[k][i].data,
           Range(r.states) \subseteq Range(entities[k][i].states) \union S,
           entities' = [entities EXCEPT ![k][i] = r],
           UNCHANGED <<mission, markers, markersByID>>
    PROVE  BackendTypes' /\ EntitiesKept(S)
<1>1. r # None
    BY RecorderAssumption DEF Record
<1>2. BackendTypes'
    BY DEF BackendTypes
<1>3. \A l \in Kinds, j \in ObjIds :
          entities'[l][j] = IF l = k /\ j = i THEN r ELSE entities[l][j]
    BY DEF BackendTypes
<1> QED
    BY <1>1, <1>2, <1>3 DEF EntitiesKept

\* Recording a state adds no sample but that one.
LEMMA RecordSampleEffect ==
    ASSUME BackendTypes, NEW k \in Kinds, NEW i \in ObjIds, NEW s \in Samples,
           RecordSample(k, i, s)
    PROVE  BackendTypes' /\ EntitiesKept({s})
<1>1. CASE entities[k][i] = None
    BY <1>1 DEF RecordSample, UNCHANGED_but_entities, BackendTypes, EntitiesKept
<1>2. CASE entities[k][i] # None
  <2> DEFINE r == [entities[k][i] EXCEPT !.states = Append(@, s)]
  <2>1. entities[k][i] \in Record
    BY <1>2 DEF BackendTypes
  <2>2. /\ Append(entities[k][i].states, s) \in Seq(Samples)
        /\ Range(Append(entities[k][i].states, s)) = Range(entities[k][i].states) \union {s}
    BY <2>1, Sent DEF Record
  <2>3. r \in Record /\ r.data = entities[k][i].data
        /\ r.states = Append(entities[k][i].states, s)
    BY <2>1, <2>2 DEF Record
  <2>4. entities' = [entities EXCEPT ![k][i] = r]
    BY <1>2 DEF RecordSample
  <2> HIDE DEF r
  <2>5. UNCHANGED <<mission, markers, markersByID>>
    BY DEF RecordSample, UNCHANGED_but_entities
  <2>6. Range(r.states) \subseteq Range(entities[k][i].states) \union {s}
    BY <2>2, <2>3
  <2> QED
    BY <1>2, <2>3, <2>4, <2>5, <2>6, RecordReplaced
<1> QED
    BY <1>1, <1>2

\* Deleting an entity adds no sample.
LEMMA DeleteEntityEffect ==
    ASSUME BackendTypes, NEW k \in Kinds, NEW i \in ObjIds, NEW f \in DeleteFrames,
           DeleteEntity(k, i, f)
    PROVE  BackendTypes' /\ EntitiesKept({})
<1>1. CASE entities[k][i] = None
    BY <1>1 DEF DeleteEntity, UNCHANGED_but_entities, BackendTypes, EntitiesKept
<1>2. CASE entities[k][i] # None
  <2> DEFINE r == [entities[k][i] EXCEPT !.deleteFrame = f]
  <2>1. entities[k][i] \in Record
    BY <1>2 DEF BackendTypes
  <2>2. r \in Record /\ r.data = entities[k][i].data /\ r.states = entities[k][i].states
    BY <2>1, FramesInclude DEF Record
  <2>3. entities' = [entities EXCEPT ![k][i] = r]
    BY <1>2 DEF DeleteEntity
  <2> HIDE DEF r
  <2> QED
    BY <1>2, <2>2, <2>3, RecordReplaced DEF DeleteEntity, UNCHANGED_but_entities
<1> QED
    BY <1>1, <1>2

\* AddMarker makes a record under a new ID and points the name to it.
LEMMA AddMarkerEffect ==
    ASSUME BackendTypes, NEW n \in Names, NEW m \in Missions, AddMarker(n, m)
    PROVE  /\ BackendTypes'
           /\ UNCHANGED <<mission, entities>>
           /\ NewMarkerID \in Nat
           /\ DOMAIN markersByID' = DOMAIN markersByID \union {NewMarkerID}
           /\ \A x \in DOMAIN markersByID : x # NewMarkerID /\ markersByID'[x] = markersByID[x]
           /\ markersByID'[NewMarkerID] = NewMarker(n, m)
           /\ markers' = [markers EXCEPT ![n] = NewMarkerID]
<1> DEFINE r == NewMarker(n, m)
<1>1. r \in Marker
    BY FramesInclude DEF NewMarker, Marker
<1>2. /\ markersByID' = Append(markersByID, r)
      /\ markers' = [markers EXCEPT ![n] = NewMarkerID]
      /\ NewMarkerID = Len(markersByID) + 1
      /\ UNCHANGED <<mission, entities>>
    BY DEF AddMarker, NewMarkerID, UNCHANGED_but_markers
<1> HIDE DEF r
<1>3. markersByID \in Seq(Marker) /\ markers \in [Names -> Nat \union {None}]
    BY DEF BackendTypes
<1>4. /\ Len(markersByID) \in Nat /\ DOMAIN markersByID = 1..Len(markersByID)
      /\ Append(markersByID, r) \in Seq(Marker)
      /\ DOMAIN Append(markersByID, r) = 1..(Len(markersByID) + 1)
      /\ \A x \in 1..Len(markersByID) : Append(markersByID, r)[x] = markersByID[x]
      /\ Append(markersByID, r)[Len(markersByID) + 1] = r
    BY <1>1, <1>3
<1>5. BackendTypes'
    BY <1>2, <1>3, <1>4 DEF BackendTypes
<1> QED
    BY <1>2, <1>4, <1>5 DEF r

\* One marker is replaced by one that keeps its name and data.
LEMMA MarkerReplaced ==
    ASSUME BackendTypes, NEW x \in DOMAIN markersByID, NEW r \in Marker, NEW S,
           r.name = markersByID[x].name, r.data = markersByID[x].data,
           Range(r.states) \subseteq Range(markersByID[x].states) \union S,
           markersByID' = [markersByID EXCEPT ![x] = r],
           UNCHANGED <<mission, entities, markers>>
    PROVE  BackendTypes' /\ MarkersKept(x, S)
<1>1. markersByID \in Seq(Marker)
    BY DEF BackendTypes
<1>2. markersByID' \in Seq(Marker)
    BY <1>1
<1>3. /\ DOMAIN markersByID' = DOMAIN markersByID
      /\ \A y \in DOMAIN markersByID : markersByID'[y] = IF y = x THEN r ELSE markersByID[y]
    BY <1>1
<1>4. BackendTypes'
    BY <1>2 DEF BackendTypes
<1> QED
    BY <1>3, <1>4 DEF MarkersKept

\* Recording a marker state adds no sample but that one, to the record of the ID.
LEMMA RecordMarkerStateEffect ==
    ASSUME BackendTypes, NEW x, NEW s \in Samples, RecordMarkerState(x, s)
    PROVE  BackendTypes' /\ MarkersKept(x, {s})
<1>1. CASE x \notin DOMAIN markersByID
    BY <1>1 DEF RecordMarkerState, UNCHANGED_but_markers, BackendTypes, MarkersKept
<1>2. CASE x \in DOMAIN markersByID
  <2> DEFINE r == [markersByID[x] EXCEPT !.states = Append(@, s)]
  <2>1. markersByID[x] \in Marker
    BY <1>2 DEF BackendTypes
  <2>2. /\ Append(markersByID[x].states, s) \in Seq(Samples)
        /\ Range(Append(markersByID[x].states, s)) = Range(markersByID[x].states) \union {s}
    BY <2>1, Sent DEF Marker
  <2>3. /\ r \in Marker /\ r.name = markersByID[x].name /\ r.data = markersByID[x].data
        /\ r.states = Append(markersByID[x].states, s)
    BY <2>1, <2>2 DEF Marker
  <2>4. markersByID' = [markersByID EXCEPT ![x] = r]
    BY <1>2 DEF RecordMarkerState
  <2> HIDE DEF r
  <2> QED
    BY <1>2, <2>2, <2>3, <2>4, MarkerReplaced DEF RecordMarkerState, UNCHANGED_but_markers
<1> QED
    BY <1>1, <1>2

\* Deleting a marker adds no sample.
LEMMA DeleteMarkerEffect ==
    ASSUME BackendTypes, NEW n \in Names, NEW f \in DeleteFrames, DeleteMarker(n, f)
    PROVE  BackendTypes' /\ MarkersKept(markers[n], {})
<1> DEFINE x == markers[n]
<1>1. CASE x = None \/ x \notin DOMAIN markersByID
  <2>1. markersByID' = markersByID
    BY <1>1 DEF DeleteMarker, BackendTypes
  <2> QED
    BY <2>1 DEF DeleteMarker, UNCHANGED_but_markers, BackendTypes, MarkersKept
<1>2. CASE x # None /\ x \in DOMAIN markersByID
  <2> DEFINE r == [markersByID[x] EXCEPT !.endFrame = f]
  <2>1. markersByID[x] \in Marker
    BY <1>2 DEF BackendTypes
  <2>2. /\ r \in Marker /\ r.name = markersByID[x].name /\ r.data = markersByID[x].data
        /\ r.states = markersByID[x].states
    BY <2>1, FramesInclude DEF Marker
  <2>3. markersByID' = [markersByID EXCEPT ![x] = r]
    BY <1>2 DEF DeleteMarker
  <2> HIDE DEF r
  <2> QED
    BY <1>2, <2>2, <2>3, MarkerReplaced DEF DeleteMarker, UNCHANGED_but_markers
<1> QED
    BY <1>1, <1>2

\* After the reset no record is left.
Emptied ==
    /\ entities' = NoEntities
    /\ markers' = [n \in Names |-> None]
    /\ markersByID' = <<>>

\* A reset leaves nothing in the backend.
LEMMA ResetEffect ==
    ASSUME BackendTypes, resetCollections, mission' \in Missions \union {None}
    PROVE  BackendTypes' /\ Emptied
    BY DEF resetCollections, BackendTypes, NoEntities, Emptied

\* A mission that ends, however its export ends, takes its records with it.
LEMMA EndEffect ==
    ASSUME BackendTypes, EndWithoutMission \/ EndSucceeds \/ EndFails
    PROVE  BackendTypes' /\ (UNCHANGED Tables \/ (mission' = None /\ Emptied))
<1>1. CASE EndWithoutMission
    BY <1>1 DEF EndWithoutMission, bvars, BackendTypes, Tables
<1>2. CASE EndSucceeds \/ EndFails
    BY <1>2, ResetEffect DEF EndSucceeds, EndFails
<1> QED
    BY <1>1, <1>2

-----------------------------------------------------------------------------
(* Types *)

\* The types hold at the start.
LEMMA InitTypes == RInit => Types
<1> SUFFICES ASSUME RInit PROVE Types
    OBVIOUS
<1>1. /\ \A S : <<>> \in Seq(S)
      /\ mission = None /\ CollectionsAreEmpty
    BY DEF RInit, BInit
<1>2. BackendTypes
    BY <1>1 DEF CollectionsAreEmpty, NoEntities, BackendTypes
<1>3. CacheTypes /\ QueueTypes /\ GoroutineTypes /\ GameTypes
    BY <1>1 DEF RInit, CacheTypes, QueueTypes, GoroutineTypes, GameTypes
<1> QED
    BY <1>2, <1>3 DEF Types

\* What the parts of Types are about.
BackendVars == <<mission, entities, markers, markersByID>>
QueueVars   == <<stateq, deleteq, moveq, unmarkq, startq>>
WorkerVars  == <<stater, mover, starter>>
GameVars    == <<drains, game, current, acked, started>>

\* The types of what a step leaves alone.
LEMMA UnchangedTypes ==
    ASSUME Types
    PROVE  /\ UNCHANGED BackendVars => BackendTypes'
           /\ UNCHANGED caches => CacheTypes'
           /\ UNCHANGED QueueVars => QueueTypes'
           /\ UNCHANGED WorkerVars => GoroutineTypes'
           /\ UNCHANGED GameVars => GameTypes'
    BY DEF Types, BackendTypes, CacheTypes, QueueTypes, GoroutineTypes, GameTypes,
           BackendVars, caches, QueueVars, WorkerVars, GameVars

\* A queued command is about something the game has created.
LEMMA SendEffect ==
    ASSUME Types, Send
    PROVE  /\ QueueTypes' /\ current \in Missions
           /\ \/ /\ UNCHANGED moveq
                 /\ \E k \in Kinds, e \in StateMsg :
                       /\ e.id \in ObjIds /\ <<k, e.id>> \in created /\ e.src = current
                       /\ stateq' = [stateq EXCEPT ![k] = Append(@, e)]
              \/ /\ UNCHANGED stateq
                 /\ \E e \in MoveMsg :
                       /\ e.name \in Names /\ e.name \in created /\ e.src = current
                       /\ moveq' = Append(moveq, e)
              \/ UNCHANGED <<stateq, moveq>>
<1> USE DEF Types
<1>1. current \in Missions /\ UNCHANGED startq /\ ActiveKinds \subseteq Kinds
    BY RecorderAssumption DEF Send, Recording, GameTypes
<1>2. CASE \E k \in ActiveKinds, i \in ObjIds, p \in BOOLEAN :
              /\ <<k, i>> \in created
              /\ stateq' = [stateq EXCEPT ![k] =
                     Append(@, [id |-> i, src |-> current, player |-> p])]
              /\ UNCHANGED <<deleteq, eventq, moveq, unmarkq>>
  <2>1. PICK k \in ActiveKinds, i \in ObjIds, p \in BOOLEAN :
              /\ <<k, i>> \in created
              /\ stateq' = [stateq EXCEPT ![k] =
                     Append(@, [id |-> i, src |-> current, player |-> p])]
              /\ UNCHANGED <<deleteq, eventq, moveq, unmarkq>>
    BY <1>2
  <2> DEFINE e == [id |-> i, src |-> current, player |-> p]
  <2>2. e \in StateMsg /\ e.id = i /\ e.src = current
    BY <1>1 DEF StateMsg
  <2> HIDE DEF e
  <2>3. k \in Kinds /\ stateq' = [stateq EXCEPT ![k] = Append(@, e)]
    BY <1>1, <2>1 DEF e
  <2>4. Append(stateq[k], e) \in Seq(StateMsg)
    BY <2>2, <2>3 DEF QueueTypes
  <2>5. QueueTypes'
    BY <1>1, <2>1, <2>3, <2>4 DEF QueueTypes
  <2> QED
    BY <1>1, <2>1, <2>2, <2>3, <2>5
<1>3. CASE \E k \in ActiveKinds, i \in ObjIds, f \in DeleteFrames :
              /\ deleteq' = [deleteq EXCEPT ![k] = Append(@, [id |-> i, frame |-> f])]
              /\ UNCHANGED <<stateq, eventq, moveq, unmarkq>>
  <2>1. PICK k \in ActiveKinds, i \in ObjIds, f \in DeleteFrames :
              /\ deleteq' = [deleteq EXCEPT ![k] = Append(@, [id |-> i, frame |-> f])]
              /\ UNCHANGED <<stateq, eventq, moveq, unmarkq>>
    BY <1>3
  <2>2. Append(deleteq[k], [id |-> i, frame |-> f]) \in Seq([id : ObjIds, frame : DeleteFrames])
    <3>1. deleteq[k] \in Seq([id : ObjIds, frame : DeleteFrames])
      BY <1>1 DEF QueueTypes
    <3>2. [id |-> i, frame |-> f] \in [id : ObjIds, frame : DeleteFrames]
      OBVIOUS
    <3> QED
      BY <3>1, <3>2, Sent
  <2> QED
    BY <1>1, <2>1, <2>2 DEF QueueTypes
<1>4. CASE UNCHANGED <<stateq, deleteq, moveq, unmarkq>>
    BY <1>1, <1>4 DEF QueueTypes
<1>5. CASE \E n \in Names \intersect created :
              /\ moveq' = Append(moveq, [name |-> n, src |-> current])
              /\ UNCHANGED <<stateq, deleteq, eventq, unmarkq>>
  <2>1. PICK n \in Names \intersect created :
              /\ moveq' = Append(moveq, [name |-> n, src |-> current])
              /\ UNCHANGED <<stateq, deleteq, eventq, unmarkq>>
    BY <1>5
  <2> DEFINE e == [name |-> n, src |-> current]
  <2>2. e \in MoveMsg /\ e.name = n /\ e.src = current
    BY <1>1 DEF MoveMsg
  <2> HIDE DEF e
  <2>3. moveq' = Append(moveq, e)
    BY <2>1 DEF e
  <2>4. Append(moveq, e) \in Seq(MoveMsg)
    BY <2>2, Sent DEF QueueTypes
  <2>5. QueueTypes'
    BY <1>1, <2>1, <2>3, <2>4 DEF QueueTypes
  <2> QED
    BY <1>1, <2>1, <2>2, <2>3, <2>5
<1>6. CASE \E n \in Names \intersect created, f \in DeleteFrames :
              /\ unmarkq' = Append(unmarkq, [name |-> n, frame |-> f])
              /\ UNCHANGED <<stateq, deleteq, eventq, moveq>>
  <2>1. PICK n \in Names, f \in DeleteFrames :
              /\ unmarkq' = Append(unmarkq, [name |-> n, frame |-> f])
              /\ UNCHANGED <<stateq, deleteq, eventq, moveq>>
    BY <1>6
  <2>2. [name |-> n, frame |-> f] \in [name : Names, frame : DeleteFrames]
    OBVIOUS
  <2>3. Append(unmarkq, [name |-> n, frame |-> f]) \in Seq([name : Names, frame : DeleteFrames])
    BY <2>2, Sent DEF QueueTypes
  <2> QED
    BY <1>1, <2>1, <2>3 DEF QueueTypes
<1> QED
    BY <1>2, <1>3, <1>4, <1>5, <1>6 DEF Send

\* The commands of the game.
LEMMA GameTypesKept == Types /\ Game => Types'
<1> SUFFICES ASSUME Types, Game PROVE Types'
    OBVIOUS
<1> USE RecorderAssumption DEF BackendVars, caches, QueueVars, WorkerVars, GameVars,
        bvars, queues, gorout, gvars
<1>1. /\ BackendTypes /\ CacheTypes /\ QueueTypes /\ GoroutineTypes /\ GameTypes
      /\ Recording => current \in Missions /\ current # None
    BY DEF Types, Recording, GameTypes
<1>2. ASSUME NEW k \in ActiveKinds, NEW i \in ObjIds, CreateEntity(k, i) PROVE Types'
  <2>1. [src |-> current, player |-> FALSE] \in Entry
    BY <1>1, <1>2 DEF CreateEntity, Entry
  <2>2. CacheTypes'
    BY <1>1, <1>2, <2>1 DEF CreateEntity, CacheTypes
  <2>3. game' \in Command
    BY <1>1, <1>2 DEF CreateEntity, Command
  <2>4. GameTypes'
    BY <1>1, <1>2, <2>3 DEF CreateEntity, GameTypes
  <2> QED
    BY <1>2, <2>2, <2>4, UnchangedTypes DEF CreateEntity, Types
<1>3. CASE CreateEntityBackend
  <2>1. game.kind \in Kinds /\ game.id \in ObjIds /\ game.src \in Missions
    BY <1>1, <1>3 DEF CreateEntityBackend, GameTypes, Command, Resting
  <2>2. BackendTypes'
    BY <1>1, <1>3, <2>1, AddEntityEffect DEF CreateEntityBackend
  <2>3. GameTypes'
    BY <1>1, <1>3 DEF CreateEntityBackend, GameTypes
  <2> QED
    BY <1>3, <2>2, <2>3, UnchangedTypes DEF CreateEntityBackend, Types
<1>4. ASSUME NEW n \in Names, CreateMarker(n) PROVE Types'
  <2>1. BackendTypes' /\ NewMarkerID \in Nat
    BY <1>1, <1>4, AddMarkerEffect DEF CreateMarker
  <2>2. game' \in Command
    BY <1>4, <2>1 DEF CreateMarker, Command
  <2>3. GameTypes'
    BY <1>1, <1>4, <2>2 DEF CreateMarker, GameTypes
  <2> QED
    BY <1>4, <2>1, <2>3, UnchangedTypes DEF CreateMarker, Types
<1>5. CASE CreateMarkerCache
  <2>1. game.name \in Names /\ game.id \in Nat
    BY <1>1, <1>5 DEF CreateMarkerCache, GameTypes, Command, Resting
  <2>2. CacheTypes' /\ GameTypes'
    BY <1>1, <1>5, <2>1 DEF CreateMarkerCache, CacheTypes, GameTypes
  <2> QED
    BY <1>5, <2>2, UnchangedTypes DEF CreateMarkerCache, Types
<1>6. CASE Send
    BY <1>6, SendEffect, UnchangedTypes DEF Send, Types
<1>7. ASSUME NEW m \in Missions, SendStart(m) PROVE Types'
  <2>1. QueueTypes'
    <3>1. <<m>> \in Seq(Missions)
      OBVIOUS
    <3> QED
      BY <1>1, <1>7, <3>1 DEF SendStart, QueueTypes
  <2>2. GameTypes'
    BY <1>1, <1>7 DEF SendStart, GameTypes
  <2> QED
    BY <1>7, <2>1, <2>2, UnchangedTypes DEF SendStart, Types
<1>8. CASE SendSave
    BY <1>8, UnchangedTypes DEF SendSave, Types
<1> QED
    BY <1>2, <1>3, <1>4, <1>5, <1>6, <1>7, <1>8 DEF Game

\* The goroutine of :MISSION:START:, and EndMission.
LEMMA StartTypesKept == Types /\ (Start \/ EndBackend) => Types'
<1> SUFFICES ASSUME Types, Start \/ EndBackend PROVE Types'
    OBVIOUS
<1> USE RecorderAssumption DEF BackendVars, caches, QueueVars, WorkerVars, GameVars,
        bvars, queues, gorout, gvars
<1>1. BackendTypes /\ CacheTypes /\ QueueTypes /\ GoroutineTypes /\ GameTypes
    BY DEF Types
<1>2. CASE StartTake
  <2>1. Head(startq) \in Missions /\ Tail(startq) \in Seq(Missions)
    BY <1>1, <1>2, Received DEF StartTake, QueueTypes
  <2>2. QueueTypes' /\ GoroutineTypes'
    BY <1>1, <1>2, <2>1 DEF StartTake, QueueTypes, GoroutineTypes
  <2> QED
    BY <1>2, <2>2, UnchangedTypes DEF StartTake, Types
<1>3. starter # Resting =>
          starter \in [pc : {"markers", "entities", "backend", "ok"}, mission : Missions]
    BY <1>1 DEF GoroutineTypes
<1>4. CASE ResetMarkerCache
  <2>1. CacheTypes' /\ GoroutineTypes'
    BY <1>1, <1>3, <1>4 DEF ResetMarkerCache, CacheTypes, GoroutineTypes, Resting
  <2> QED
    BY <1>4, <2>1, UnchangedTypes DEF ResetMarkerCache, Types
<1>5. CASE ResetEntityCache
  <2>1. CacheTypes' /\ GoroutineTypes'
    BY <1>1, <1>3, <1>5 DEF ResetEntityCache, CacheTypes, GoroutineTypes, Resting
  <2> QED
    BY <1>5, <2>1, UnchangedTypes DEF ResetEntityCache, Types
<1>6. CASE StartBackend
  <2>1. starter.mission \in Missions /\ GoroutineTypes'
    BY <1>1, <1>3, <1>6 DEF StartBackend, GoroutineTypes, Resting
  <2>2. BackendTypes'
    BY <1>1, <1>6, <2>1, ResetEffect DEF StartBackend, StartMission
  <2> QED
    BY <1>6, <2>1, <2>2, UnchangedTypes DEF StartBackend, Types
<1>7. CASE StartOk
  <2>1. GoroutineTypes' /\ GameTypes'
    BY <1>1, <1>3, <1>7 DEF StartOk, GoroutineTypes, GameTypes, Resting
  <2> QED
    BY <1>7, <2>1, UnchangedTypes DEF StartOk, Types
<1>8. CASE EndBackend
  <2>1. BackendTypes'
    BY <1>1, <1>8, EndEffect DEF EndBackend
  <2> QED
    BY <1>8, <2>1, UnchangedTypes DEF EndBackend, Types
<1> QED
    BY <1>2, <1>4, <1>5, <1>6, <1>7, <1>8 DEF Start

\* A goroutine that has taken an event.
LEMMA StaterIs ==
    ASSUME Types, NEW k \in Kinds
    PROVE  /\ stater[k] = Resting \/ stater[k] \in Stater
           /\ stater[k] # Resting <=> stater[k].pc \in {"update", "record"}
           /\ stater[k] # Resting =>
                 /\ stater[k].ev \in StateMsg /\ stater[k].entry \in Entry
                 /\ stater[k].ev.id \in ObjIds /\ stater[k].ev.src \in Missions
                 /\ stater[k].entry.src \in Missions /\ stater[k].entry # None
                 /\ Sample(stater[k].ev.src, stater[k].ev.id) \in Samples
<1>1. stater[k] = Resting \/ stater[k] \in Stater
    BY DEF Types, GoroutineTypes
<1> QED
    BY <1>1, RecorderAssumption DEF Resting, Stater, StateMsg, Entry, Sample

\* The goroutine of the marker states is at rest or holds a state and an ID.
LEMMA MoverIs ==
    ASSUME Types
    PROVE  /\ mover = Resting \/ mover \in Mover
           /\ mover # Resting <=> mover.pc = "record"
           /\ mover # Resting =>
                 /\ mover.ev \in MoveMsg /\ mover.id \in Nat
                 /\ mover.ev.name \in Names /\ mover.ev.src \in Missions
                 /\ Sample(mover.ev.src, mover.ev.name) \in Samples
<1>1. mover = Resting \/ mover \in Mover
    BY DEF Types, GoroutineTypes
<1> QED
    BY <1>1, RecorderAssumption DEF Resting, Mover, MoveMsg, Sample

\* What a goroutine of a STATE channel finds.
LEMMA StateTakeEffect ==
    ASSUME Types, NEW k \in ActiveKinds, StateTake(k)
    PROVE  \E e \in Range(stateq[k]) :
              /\ k \in Kinds /\ stater[k] = Resting
              /\ e \in StateMsg /\ e.id \in ObjIds
              /\ stateq' = [stateq EXCEPT ![k] = Tail(@)]
              /\ Tail(stateq[k]) \in Seq(StateMsg)
              /\ Range(Tail(stateq[k])) \subseteq Range(stateq[k])
              /\ \/ /\ entityCache[k][e.id] = None
                    /\ stater' = stater
                    /\ lost' = IF Matters(e.src) THEN lost \union {e} ELSE lost
                 \/ /\ entityCache[k][e.id] # None
                    /\ \E pc \in {"update", "record"} : stater' =
                          [stater EXCEPT ![k] = [pc |-> pc, ev |-> e, entry |-> entityCache[k][e.id]]]
                    /\ lost' = lost
<1> DEFINE e == Head(stateq[k])
<1>1. k \in Kinds
    BY RecorderAssumption
<1>2. /\ e \in StateMsg /\ e \in Range(stateq[k]) /\ Tail(stateq[k]) \in Seq(StateMsg)
      /\ Range(Tail(stateq[k])) \subseteq Range(stateq[k])
    BY <1>1, Received DEF StateTake, Types, QueueTypes
<1>3. e.id \in ObjIds
    BY <1>2 DEF StateMsg
<1>4. \A c : Continuations(e, c) \subseteq {"update", "record"}
    BY DEF Continuations
<1>5. \/ /\ entityCache[k][e.id] = None
         /\ stater' = stater
         /\ lost' = IF Matters(e.src) THEN lost \union {e} ELSE lost
      \/ /\ entityCache[k][e.id] # None
         /\ \E pc \in {"update", "record"} : stater' =
               [stater EXCEPT ![k] = [pc |-> pc, ev |-> e, entry |-> entityCache[k][e.id]]]
         /\ lost' = lost
    BY <1>4 DEF StateTake
<1>6. stater[k] = Resting /\ stateq' = [stateq EXCEPT ![k] = Tail(@)]
    BY DEF StateTake
<1> HIDE DEF e
<1> QED
    BY <1>1, <1>2, <1>3, <1>5, <1>6

\* What the goroutine of the :MARKER:STATE: channel finds.
LEMMA MoveTakeEffect ==
    ASSUME Types, MoveTake
    PROVE  \E e \in Range(moveq) :
              /\ mover = Resting
              /\ e \in MoveMsg /\ e.name \in Names
              /\ moveq' = Tail(moveq)
              /\ Tail(moveq) \in Seq(MoveMsg)
              /\ Range(Tail(moveq)) \subseteq Range(moveq)
              /\ \/ /\ markerCache[e.name] = None
                    /\ mover' = mover
                    /\ lost' = IF Matters(e.src) THEN lost \union {e} ELSE lost
                 \/ /\ markerCache[e.name] # None
                    /\ mover' = [pc |-> "record", ev |-> e, id |-> markerCache[e.name]]
                    /\ lost' = lost
<1> DEFINE e == Head(moveq)
<1>1. /\ e \in MoveMsg /\ e \in Range(moveq) /\ Tail(moveq) \in Seq(MoveMsg)
      /\ Range(Tail(moveq)) \subseteq Range(moveq)
    BY Received DEF MoveTake, Types, QueueTypes
<1>2. e.name \in Names
    BY <1>1 DEF MoveMsg
<1>3. \/ /\ markerCache[e.name] = None
         /\ mover' = mover
         /\ lost' = IF Matters(e.src) THEN lost \union {e} ELSE lost
      \/ /\ markerCache[e.name] # None
         /\ mover' = [pc |-> "record", ev |-> e, id |-> markerCache[e.name]]
         /\ lost' = lost
    BY DEF MoveTake
<1>4. mover = Resting /\ moveq' = Tail(moveq)
    BY DEF MoveTake
<1> HIDE DEF e
<1> QED
    BY <1>1, <1>2, <1>3, <1>4

\* The handlers.
LEMMA HandlerTypesKept == Types /\ Handlers => Types'
<1> SUFFICES ASSUME Types, Handlers PROVE Types'
    OBVIOUS
<1> USE RecorderAssumption DEF BackendVars, caches, QueueVars, WorkerVars, GameVars,
        bvars, queues, gorout, gvars
<1>1. /\ BackendTypes /\ CacheTypes /\ QueueTypes /\ GoroutineTypes /\ GameTypes
      /\ ActiveKinds \subseteq Kinds
    BY DEF Types
<1>2. ASSUME NEW k \in ActiveKinds, StateTake(k) PROVE Types'
  <2>1. PICK e \in Range(stateq[k]) :
            /\ k \in Kinds /\ e \in StateMsg /\ e.id \in ObjIds
            /\ stateq' = [stateq EXCEPT ![k] = Tail(@)]
            /\ Tail(stateq[k]) \in Seq(StateMsg)
            /\ \/ stater' = stater
               \/ /\ entityCache[k][e.id] # None
                  /\ \E pc \in {"update", "record"} : stater' =
                        [stater EXCEPT ![k] = [pc |-> pc, ev |-> e, entry |-> entityCache[k][e.id]]]
    BY <1>2, StateTakeEffect
  <2>2. QueueTypes'
    <3>1. UNCHANGED <<deleteq, moveq, unmarkq, startq>>
      BY <1>2 DEF StateTake
    <3>2. stateq' \in [Kinds -> Seq(StateMsg)]
      BY <1>1, <2>1 DEF QueueTypes
    <3> QED
      BY <1>1, <3>1, <3>2 DEF QueueTypes
  <2>3. GoroutineTypes'
    <3>1. \A pc \in {"update", "record"} : entityCache[k][e.id] # None =>
              [pc |-> pc, ev |-> e, entry |-> entityCache[k][e.id]] \in Stater
      BY <1>1, <2>1 DEF CacheTypes, Stater
    <3> QED
      BY <1>1, <1>2, <2>1, <3>1 DEF StateTake, GoroutineTypes
  <2> QED
    BY <1>2, <2>2, <2>3, UnchangedTypes DEF StateTake, Types
<1>3. ASSUME NEW k \in ActiveKinds, StateUpdate(k) PROVE Types'
  <2>1. stater[k] \in Stater /\ stater[k].entry \in Entry /\ stater[k].ev.id \in ObjIds
    BY <1>1, <1>3, StaterIs DEF StateUpdate, Resting
  <2>2. /\ [stater[k].entry EXCEPT !.player = TRUE] \in Entry
        /\ [stater[k] EXCEPT !.pc = "record"] \in Stater
    BY <2>1 DEF Entry, Stater
  <2>3. CacheTypes' /\ GoroutineTypes'
    BY <1>1, <1>3, <2>1, <2>2 DEF StateUpdate, CacheTypes, GoroutineTypes
  <2> QED
    BY <1>3, <2>3, UnchangedTypes DEF StateUpdate, Types
<1>4. ASSUME NEW k \in ActiveKinds, StateRecord(k) PROVE Types'
  <2>1. stater[k].ev.id \in ObjIds /\ Sample(stater[k].ev.src, stater[k].ev.id) \in Samples
    BY <1>1, <1>4, StaterIs DEF StateRecord, Resting
  <2>2. BackendTypes'
    BY <1>1, <1>4, <2>1, RecordSampleEffect DEF StateRecord
  <2>3. GoroutineTypes'
    BY <1>1, <1>4 DEF StateRecord, GoroutineTypes
  <2> QED
    BY <1>4, <2>2, <2>3, UnchangedTypes DEF StateRecord, Types
<1>5. ASSUME NEW k \in ActiveKinds, DeleteTake(k) PROVE Types'
  <2>1. /\ Head(deleteq[k]) \in [id : ObjIds, frame : DeleteFrames]
        /\ Tail(deleteq[k]) \in Seq([id : ObjIds, frame : DeleteFrames])
    BY <1>1, <1>5, Received DEF DeleteTake, QueueTypes
  <2>2. BackendTypes'
    BY <1>1, <1>5, <2>1, DeleteEntityEffect DEF DeleteTake
  <2>3. QueueTypes'
    BY <1>1, <1>5, <2>1 DEF DeleteTake, QueueTypes
  <2> QED
    BY <1>5, <2>2, <2>3, UnchangedTypes DEF DeleteTake, Types
<1>6. ASSUME NEW k \in EventKinds, EventTake(k) PROVE Types'
    BY <1>6, UnchangedTypes DEF EventTake, RecordEvent, Types
<1>7. CASE MoveTake
  <2>1. PICK e \in Range(moveq) :
            /\ e \in MoveMsg /\ e.name \in Names
            /\ moveq' = Tail(moveq) /\ Tail(moveq) \in Seq(MoveMsg)
            /\ \/ mover' = mover
               \/ /\ markerCache[e.name] # None
                  /\ mover' = [pc |-> "record", ev |-> e, id |-> markerCache[e.name]]
    BY <1>7, MoveTakeEffect
  <2>2. QueueTypes'
    BY <1>1, <1>7, <2>1 DEF MoveTake, QueueTypes
  <2>3. markerCache[e.name] # None =>
            [pc |-> "record", ev |-> e, id |-> markerCache[e.name]] \in Mover
    BY <1>1, <2>1 DEF CacheTypes, Mover
  <2>4. GoroutineTypes'
    BY <1>1, <1>7, <2>1, <2>3 DEF MoveTake, GoroutineTypes
  <2> QED
    BY <1>7, <2>2, <2>4, UnchangedTypes DEF MoveTake, Types
<1>8. CASE MoveRecord
  <2>1. Sample(mover.ev.src, mover.ev.name) \in Samples
    BY <1>8, MoverIs DEF MoveRecord
  <2>2. BackendTypes'
    BY <1>1, <1>8, <2>1, RecordMarkerStateEffect DEF MoveRecord
  <2>3. GoroutineTypes'
    BY <1>1, <1>8 DEF MoveRecord, GoroutineTypes
  <2> QED
    BY <1>8, <2>2, <2>3, UnchangedTypes DEF MoveRecord, Types
<1>9. CASE UnmarkTake
  <2>1. /\ Head(unmarkq) \in [name : Names, frame : DeleteFrames]
        /\ Tail(unmarkq) \in Seq([name : Names, frame : DeleteFrames])
    BY <1>1, <1>9, Received DEF UnmarkTake, QueueTypes
  <2>2. BackendTypes'
    BY <1>1, <1>9, <2>1, DeleteMarkerEffect DEF UnmarkTake
  <2>3. QueueTypes'
    BY <1>1, <1>9, <2>1 DEF UnmarkTake, QueueTypes
  <2> QED
    BY <1>9, <2>2, <2>3, UnchangedTypes DEF UnmarkTake, Types
<1> QED
    BY <1>2, <1>3, <1>4, <1>5, <1>6, <1>7, <1>8, <1>9 DEF Handlers

\* Every step keeps the types.
LEMMA StepTypes == Types /\ [RNext]_rvars => Types'
<1>1. Types /\ UNCHANGED rvars => Types'
    BY UnchangedTypes DEF rvars, bvars, caches, queues, gorout, gvars, BackendVars,
       QueueVars, WorkerVars, GameVars, Types
<1> QED
    BY <1>1, GameTypesKept, StartTypesKept, HandlerTypesKept DEF RNext

-----------------------------------------------------------------------------
(* Where a mission's start is *)

\* The start of the current mission is under way: the game waits for its OK.
Starting == acked # current

\* It has not reached the backend.
Before == startq # <<>> \/ starter.pc \in {"markers", "entities", "backend"}

\* The mission of the backend is the current one unless its start is still to
\* come or the mission has ended; a game that waits does nothing meanwhile.
Phases ==
    /\ current \in started \union {None}
    /\ acked \in started \union {None}
    /\ mission \in started \union {None}
    /\ Starting <=> (startq # <<>> \/ starter # Resting)
    /\ startq # <<>> => startq = <<current>> /\ starter = Resting
    /\ starter # Resting => starter.mission = current
    /\ Starting => current # None /\ game = Resting /\ created = {}
    /\ current = None => created = {} /\ game = Resting
    /\ game.pc = "addEntity" => game.src = current
    /\ mission # None => (mission = current <=> ~Before)

\* A mission that the game has started, and recorded in.
Past(m) == m \in started /\ (Starting => m # current)

\* What is cached, queued or in hand is of such a mission.
Sources ==
    /\ \A k \in Kinds, i \in ObjIds :
          entityCache[k][i] # None => Past(entityCache[k][i].src)
    /\ \A k \in Kinds : \A e \in Range(stateq[k]) : Past(e.src)
    /\ \A k \in Kinds : stater[k] # Resting =>
          Past(stater[k].ev.src) /\ Past(stater[k].entry.src)
    /\ \A e \in Range(moveq) : Past(e.src)
    /\ mover # Resting => Past(mover.ev.src)

\* The goroutine of the starts is at rest or in one of the four calls of its handler.
LEMMA StarterIs ==
    ASSUME Types
    PROVE  /\ starter # Resting <=> starter.pc # "idle"
           /\ starter # Resting =>
                 /\ starter \in [pc : {"markers", "entities", "backend", "ok"}, mission : Missions]
                 /\ starter.pc \in {"markers", "entities", "backend", "ok"}
           /\ None \notin Missions
    BY MemoryAssumption DEF Types, GoroutineTypes, Resting

\* The game thread is at rest or in the second call of a CREATE command.
LEMMA GameIs ==
    ASSUME Types
    PROVE  /\ game # Resting <=> game.pc # "idle"
           /\ game.pc = "addEntity" =>
                 /\ game.kind \in Kinds /\ game.id \in ObjIds /\ game.src \in Missions
           /\ game.pc = "setMarker" => game.name \in Names /\ game.id \in Nat
           /\ game # Resting => game.pc \in {"addEntity", "setMarker"}
<1>1. game = Resting \/ game \in Command
    BY DEF Types, GameTypes
<1> QED
    BY <1>1, RecorderAssumption DEF Command, Resting

\* No mission was started, and nothing sent.
LEMMA InitPhases == RInit => Phases /\ Sources
    BY DEF RInit, BInit, Phases, Sources, Starting, Before, Resting, Range

\* A game that waits for :MISSION:OK: does nothing while a start is under way.
LEMMA StepPhases ==
    ASSUME WaitsForOk, Types, Phases, RNext
    PROVE  Phases'
<1> USE DEF Phases, Starting, Before, queues, gorout, gvars
<1>1. ASSUME NEW k \in ActiveKinds, NEW i \in ObjIds, CreateEntity(k, i) PROVE Phases'
    BY <1>1 DEF CreateEntity, Recording, Resting, bvars
<1>2. CASE CreateEntityBackend
    BY <1>2 DEF CreateEntityBackend, AddEntity, UNCHANGED_but_entities, Resting
<1>3. ASSUME NEW n \in Names, CreateMarker(n) PROVE Phases'
    BY <1>3 DEF CreateMarker, AddMarker, UNCHANGED_but_markers, Recording, Resting
<1>4. CASE CreateMarkerCache
    BY <1>4 DEF CreateMarkerCache, Resting, bvars
<1>5. CASE Send \/ SendSave
    BY <1>5 DEF Send, SendSave, bvars
<1>6. ASSUME NEW m \in Missions, SendStart(m) PROVE Phases'
  <2>1. m # None /\ m \notin started /\ acked = current /\ game = Resting
    BY <1>6, StarterIs DEF SendStart
  <2>2. startq' = <<m>> /\ startq' # <<>> /\ current' = m /\ started' = started \union {m}
        /\ created' = {} /\ UNCHANGED <<acked, mission, game, starter>> /\ startq = <<>>
    BY <1>6 DEF SendStart, bvars
  <2>3. acked # m /\ mission # m
    BY <2>1
  <2>4. starter = Resting
    BY <2>1
  <2> QED
    BY <2>1, <2>2, <2>3, <2>4 DEF Resting
<1>7. CASE StartTake
  <2>1. Head(startq) = current /\ Tail(startq) = <<>>
    <3>1. \A m : Head(<<m>>) = m /\ Tail(<<m>>) = <<>>
      OBVIOUS
    <3> QED
      BY <1>7, <3>1 DEF StartTake
  <2> QED
    BY <1>7, <2>1 DEF StartTake, Resting, bvars
<1>8. CASE ResetMarkerCache
    BY <1>8, StarterIs DEF ResetMarkerCache, Resting, bvars
<1>9. CASE ResetEntityCache
    BY <1>9, StarterIs DEF ResetEntityCache, Resting, bvars
<1>10. CASE StartBackend
    BY <1>10, StarterIs DEF StartBackend, StartMission, Resting
<1>11. CASE StartOk
    BY <1>11, StarterIs DEF StartOk, Resting, bvars
<1>12. CASE EndBackend
    BY <1>12, EndEffect DEF EndBackend, Types, Tables
<1>13. CASE Handlers
  <2>1. UNCHANGED <<mission, startq, starter, gvars>>
    BY <1>13 DEF Handlers, StateTake, StateUpdate, StateRecord, DeleteTake, EventTake,
       MoveTake, MoveRecord, UnmarkTake, RecordSample, DeleteEntity, RecordEvent,
       RecordMarkerState, DeleteMarker, UNCHANGED_but_entities, UNCHANGED_but_markers, bvars
  <2> QED
    BY <2>1
<1> QED
    BY <1>1, <1>2, <1>3, <1>4, <1>5, <1>6, <1>7, <1>8, <1>9, <1>10, <1>11, <1>12, <1>13
    DEF RNext, Game, Start

\* The mission of a record that the game writes.
LEMMA PastStays ==
    ASSUME WaitsForOk, Types, Phases, RNext
    PROVE  \A m : Past(m) => Past(m)'
<1>1. CASE UNCHANGED <<started, current, acked>>
    BY <1>1 DEF Past, Starting
<1>2. ASSUME NEW m \in Missions, SendStart(m) PROVE \A x : Past(x) => Past(x)'
    BY <1>2 DEF SendStart, Past, Starting
<1>3. CASE StartOk
    BY <1>3, StarterIs DEF StartOk, Past, Starting, Phases, Resting
<1> QED
    BY <1>1, <1>2, <1>3
    DEF RNext, Game, Start, Handlers, CreateEntity, CreateEntityBackend, CreateMarker,
        CreateMarkerCache, Send, SendSave, StartTake, ResetMarkerCache, ResetEntityCache,
        StartBackend, EndBackend, StateTake, StateUpdate, StateRecord, DeleteTake,
        EventTake, MoveTake, MoveRecord, UnmarkTake, gvars

\* What is cached, queued or in hand is of a mission that the game has recorded in.
LEMMA StepSources ==
    ASSUME WaitsForOk, Types, Phases, Sources, RNext
    PROVE  Sources'
<1> USE DEF Sources
<1>1. \A m : Past(m) => Past(m)'
    BY PastStays
<1>2. CASE UNCHANGED <<entityCache, stateq, stater, moveq, mover>>
    BY <1>1, <1>2
<1>3. ASSUME NEW k \in ActiveKinds, NEW i \in ObjIds, CreateEntity(k, i) PROVE Sources'
  <2>1. Past(current) /\ k \in Kinds
    BY <1>3, RecorderAssumption DEF CreateEntity, Recording, Past, Starting, Phases
  <2>2. \A l \in Kinds, j \in ObjIds : entityCache'[l][j] =
            IF l = k /\ j = i THEN [src |-> current, player |-> FALSE] ELSE entityCache[l][j]
    BY <1>3, <2>1 DEF CreateEntity, Types, CacheTypes
  <2> QED
    BY <1>1, <1>3, <2>1, <2>2 DEF CreateEntity, queues, gorout
<1>4. CASE Send
  <2>1. Past(current) /\ UNCHANGED <<entityCache, stater, mover>>
    BY <1>4 DEF Send, Recording, Past, Starting, Phases, caches, gorout
  <2>2. CASE UNCHANGED <<stateq, moveq>>
    BY <1>1, <2>1, <2>2
  <2>3. ASSUME NEW k \in Kinds, NEW e \in StateMsg, e.src = current,
               stateq' = [stateq EXCEPT ![k] = Append(@, e)], UNCHANGED moveq
        PROVE  Sources'
    <3>1. Range(Append(stateq[k], e)) = Range(stateq[k]) \union {e}
      BY Sent DEF Types, QueueTypes
    <3>2. \A l \in Kinds : Range(stateq'[l]) \subseteq Range(stateq[l]) \union {e}
      BY <2>3, <3>1 DEF Types, QueueTypes
    <3> QED
      BY <1>1, <2>1, <2>3, <3>2
  <2>4. ASSUME NEW e \in MoveMsg, e.src = current,
               moveq' = Append(moveq, e), UNCHANGED stateq
        PROVE  Sources'
    <3>1. Range(Append(moveq, e)) = Range(moveq) \union {e}
      BY Sent DEF Types, QueueTypes
    <3> QED
      BY <1>1, <2>1, <2>4, <3>1
  <2> QED
    BY <1>4, <2>2, <2>3, <2>4, SendEffect
<1>5. CASE ResetEntityCache
    BY <1>1, <1>5 DEF ResetEntityCache, queues
<1>6. ASSUME NEW k \in ActiveKinds, StateTake(k) PROVE Sources'
  <2>1. PICK e \in Range(stateq[k]) :
            /\ k \in Kinds /\ e.id \in ObjIds
            /\ stateq' = [stateq EXCEPT ![k] = Tail(@)]
            /\ Range(Tail(stateq[k])) \subseteq Range(stateq[k])
            /\ \/ stater' = stater
               \/ /\ entityCache[k][e.id] # None
                  /\ \E pc \in {"update", "record"} : stater' =
                        [stater EXCEPT ![k] = [pc |-> pc, ev |-> e, entry |-> entityCache[k][e.id]]]
    BY <1>6, StateTakeEffect
  <2>2. UNCHANGED <<entityCache, moveq, mover>>
    BY <1>6 DEF StateTake, caches
  <2>3. \A l \in Kinds : Range(stateq'[l]) \subseteq Range(stateq[l])
    BY <2>1 DEF Types, QueueTypes
  <2>4. \A l \in Kinds : stater'[l] # Resting =>
            \/ stater'[l] = stater[l]
            \/ l = k /\ entityCache[k][e.id] # None /\ stater'[l].ev = e
                     /\ stater'[l].entry = entityCache[k][e.id]
    BY <2>1 DEF Types, GoroutineTypes
  <2> QED
    BY <1>1, <2>1, <2>2, <2>3, <2>4
<1>7. ASSUME NEW k \in ActiveKinds, StateUpdate(k) PROVE Sources'
  <2>1. k \in Kinds /\ stater[k] # Resting /\ stater[k].ev.id \in ObjIds
        /\ stater[k] \in Stater /\ stater[k].entry \in Entry
    BY <1>7, RecorderAssumption, StaterIs DEF StateUpdate
  <2>2. \A l \in Kinds, j \in ObjIds : entityCache'[l][j] =
            IF l = k /\ j = stater[k].ev.id THEN [stater[k].entry EXCEPT !.player = TRUE]
                                            ELSE entityCache[l][j]
    BY <1>7, <2>1 DEF StateUpdate, Types, CacheTypes
  <2>3. [stater[k].entry EXCEPT !.player = TRUE].src = stater[k].entry.src
    BY <2>1 DEF Entry
  <2>4. \A l \in Kinds : stater'[l] # Resting => stater[l] # Resting
            /\ stater'[l].ev = stater[l].ev /\ stater'[l].entry = stater[l].entry
    BY <1>7, <2>1 DEF StateUpdate, Types, GoroutineTypes, Stater
  <2> QED
    BY <1>1, <1>7, <2>1, <2>2, <2>3, <2>4 DEF StateUpdate, queues
<1>8. ASSUME NEW k \in ActiveKinds, StateRecord(k) PROVE Sources'
  <2>1. \A l \in Kinds : stater'[l] # Resting => stater'[l] = stater[l]
    BY <1>8 DEF StateRecord, Types, GoroutineTypes
  <2> QED
    BY <1>1, <1>8, <2>1 DEF StateRecord, caches, queues
<1>9. CASE MoveTake
  <2>1. PICK e \in Range(moveq) :
            /\ moveq' = Tail(moveq) /\ Range(Tail(moveq)) \subseteq Range(moveq)
            /\ \/ mover' = mover
               \/ mover' = [pc |-> "record", ev |-> e, id |-> markerCache[e.name]]
    BY <1>9, MoveTakeEffect
  <2> QED
    BY <1>1, <1>9, <2>1 DEF MoveTake, caches
<1>10. CASE MoveRecord
    BY <1>1, <1>10 DEF MoveRecord, caches, queues
<1> QED
    BY <1>2, <1>3, <1>4, <1>5, <1>6, <1>7, <1>8, <1>9, <1>10
    DEF RNext, Game, Start, Handlers, CreateEntityBackend, CreateMarker,
        CreateMarkerCache, SendStart, SendSave, StartTake, ResetMarkerCache,
        StartBackend, StartOk, EndBackend, DeleteTake, EventTake, UnmarkTake,
        caches, queues, gorout

-----------------------------------------------------------------------------
(* The caches and the backend *)

\* The command between cache and backend is about this one.
Adding(k, i) == game.pc = "addEntity" /\ game.kind = k /\ game.id = i
Setting(n)   == game.pc = "setMarker" /\ game.name = n

InBackend(k, i) ==
    Adding(k, i) \/ (entities[k][i] # None /\ entities[k][i].data = mission)

\* What the cache has, and what a goroutine is about to put back, is in the
\* backend.
EntitiesCached ==
    mission # None =>
        /\ \A k \in Kinds, i \in ObjIds :
              (entityCache[k][i] # None /\ entityCache[k][i].src = mission)
                  => InBackend(k, i)
        /\ \A k \in Kinds : (stater[k] # Resting /\ stater[k].entry.src = mission)
                  => InBackend(k, stater[k].ev.id)

HasRecord(id, n) == id \in DOMAIN markersByID /\ markersByID[id].name = n

\* The marker cache is emptied before the backend starts to count again.  Each ID
\* in it is that of the newest record of the name, or of an older one while the
\* newest is on its way.
MarkersCached ==
    /\ starter.pc \in {"entities", "backend", "ok"} =>
          \A n \in Names : markerCache[n] = None
    /\ mission # None =>
          /\ \A n \in Names : markerCache[n] # None =>
                /\ Setting(n) \/ markerCache[n] = markers[n]
                /\ HasRecord(markerCache[n], n)
          /\ game.pc = "setMarker" =>
                markers[game.name] = game.id /\ HasRecord(game.id, game.name)

\* The caches are empty at the start.
LEMMA InitCached == RInit => EntitiesCached /\ MarkersCached
    BY DEF RInit, BInit, EntitiesCached, MarkersCached, Resting

\* While the game records, the mission it is in is the one that runs, if one does.
LEMMA WhileRecording ==
    ASSUME Types, Phases, game # Resting \/ Recording, WaitsForOk
    PROVE  /\ starter = Resting /\ startq = <<>> /\ acked = current /\ current # None
           /\ mission # None => mission = current
    BY DEF Recording, Phases, Starting, Before, Resting

\* A cached entity of the running mission has its record, unless its CREATE is under way.
LEMMA StepEntitiesCached ==
    ASSUME WaitsForOk, Types, Phases, Sources, EntitiesCached, RNext
    PROVE  EntitiesCached'
<1> USE DEF EntitiesCached
<1>0. BackendTypes /\ entityCache \in [Kinds -> [ObjIds -> Entry \union {None}]]
      /\ stater \in [Kinds -> {Resting} \union Stater]
    BY DEF Types, CacheTypes, GoroutineTypes
<1>1. CASE UNCHANGED <<mission, entities, entityCache, stater, game>>
    BY <1>1 DEF InBackend, Adding
<1>2. ASSUME NEW k \in ActiveKinds, NEW i \in ObjIds, CreateEntity(k, i)
      PROVE  EntitiesCached'
  <2>1. k \in Kinds /\ game = Resting /\ UNCHANGED <<mission, entities, stater>>
    BY <1>2, RecorderAssumption DEF CreateEntity, Recording, bvars, gorout
  <2>2. \A l \in Kinds, j \in ObjIds :
            entityCache'[l][j] = entityCache[l][j] \/ (l = k /\ j = i)
    BY <1>0, <1>2, <2>1 DEF CreateEntity
  <2>3. InBackend(k, i)' /\ \A l, j : InBackend(l, j) => InBackend(l, j)'
    BY <1>2, <2>1 DEF CreateEntity, InBackend, Adding, Resting
  <2> QED
    BY <2>1, <2>2, <2>3
<1>3. CASE CreateEntityBackend
  <2>1. game.kind \in Kinds /\ game.id \in ObjIds /\ game.src \in Missions
        /\ game # Resting /\ game.src = current
    BY <1>3, GameIs DEF CreateEntityBackend, Phases, Resting
  <2>2. /\ UNCHANGED <<mission, entityCache, stater>>
        /\ entities'[game.kind][game.id] = NewRecord(game.src)
        /\ \A l \in Kinds, j \in ObjIds :
              (l # game.kind \/ j # game.id) => entities'[l][j] = entities[l][j]
        /\ NewRecord(game.src) # None
    BY <1>0, <1>3, <2>1, AddEntityEffect DEF CreateEntityBackend, caches, gorout
  <2>3. mission # None => mission = game.src
    BY <2>1, WhileRecording
  <2>4. ASSUME mission # None, NEW l \in Kinds, NEW j \in ObjIds, InBackend(l, j)
        PROVE  InBackend(l, j)'
    <3>1. CASE l = game.kind /\ j = game.id
      <4>1. entities'[l][j] = NewRecord(game.src) /\ entities'[l][j] # None
        BY <2>2, <3>1
      <4>2. entities'[l][j].data = mission'
        BY <2>2, <2>3, <2>4, <4>1 DEF NewRecord
      <4> QED
        BY <4>1, <4>2 DEF InBackend
    <3>2. CASE l # game.kind \/ j # game.id
      <4>1. entities'[l][j] = entities[l][j] /\ ~Adding(l, j)
        BY <2>2, <3>2 DEF Adding
      <4> QED
        BY <2>2, <2>4, <4>1 DEF InBackend
    <3> QED
      BY <3>1, <3>2
  <2>5. \A l \in Kinds : stater[l] # Resting => stater[l].ev.id \in ObjIds
    BY StaterIs
  <2> QED
    BY <2>2, <2>4, <2>5
<1>4. ASSUME NEW n \in Names, CreateMarker(n) PROVE EntitiesCached'
  <2>1. current \in Missions /\ game = Resting
    BY <1>4 DEF CreateMarker, Recording, Types, GameTypes
  <2>2. UNCHANGED <<mission, entities, entityCache, stater>>
    BY <1>4 DEF CreateMarker, AddMarker, UNCHANGED_but_markers, caches, gorout
  <2> QED
    BY <2>1, <2>2 DEF InBackend, Adding, Resting
<1>5. CASE CreateMarkerCache
    BY <1>5 DEF CreateMarkerCache, InBackend, Adding, Resting, bvars, gorout
<1>6. CASE ResetEntityCache
    BY <1>6 DEF ResetEntityCache, InBackend, Adding, bvars, gvars
<1>7. CASE StartBackend
  <2>1. mission' = current /\ Starting /\ UNCHANGED <<entityCache, stater>>
    BY <1>7, StarterIs DEF StartBackend, StartMission, Phases, caches
  <2>2. /\ \A k \in Kinds, i \in ObjIds :
              entityCache[k][i] # None => entityCache[k][i].src # current
        /\ \A k \in Kinds : stater[k] # Resting => stater[k].entry.src # current
    BY <2>1 DEF Sources, Past
  <2> QED
    BY <2>1, <2>2
<1>8. CASE EndBackend
  <2>1. \/ UNCHANGED <<mission, entities, entityCache, stater, game>>
        \/ mission' = None
    BY <1>0, <1>8, EndEffect DEF EndBackend, Tables, caches, gvars
  <2> QED
    BY <1>1, <2>1
<1>9. ASSUME NEW k \in ActiveKinds, StateTake(k) PROVE EntitiesCached'
  <2>1. PICK e \in Range(stateq[k]) :
            /\ k \in Kinds /\ e.id \in ObjIds
            /\ \/ stater' = stater
               \/ /\ entityCache[k][e.id] # None
                  /\ \E pc \in {"update", "record"} : stater' =
                        [stater EXCEPT ![k] = [pc |-> pc, ev |-> e, entry |-> entityCache[k][e.id]]]
    BY <1>9, StateTakeEffect
  <2>2. UNCHANGED <<mission, entities, entityCache, game>>
    BY <1>9 DEF StateTake, caches, bvars, gvars
  <2>3. \A l \in Kinds : stater'[l] # Resting =>
            \/ stater'[l] = stater[l]
            \/ l = k /\ entityCache[k][e.id] # None /\ stater'[l].ev = e
                     /\ stater'[l].entry = entityCache[k][e.id]
    BY <1>0, <2>1
  <2>4. \A l, j : InBackend(l, j)' <=> InBackend(l, j)
    BY <2>2 DEF InBackend, Adding
  <2> QED
    BY <2>1, <2>2, <2>3, <2>4
<1>10. ASSUME NEW k \in ActiveKinds, StateUpdate(k) PROVE EntitiesCached'
  <2>1. k \in Kinds /\ stater[k] # Resting /\ stater[k].ev.id \in ObjIds
        /\ stater[k] \in Stater /\ stater[k].entry \in Entry
    BY <1>10, RecorderAssumption, StaterIs DEF StateUpdate
  <2>2. \A l \in Kinds, j \in ObjIds : entityCache'[l][j] =
            IF l = k /\ j = stater[k].ev.id THEN [stater[k].entry EXCEPT !.player = TRUE]
                                            ELSE entityCache[l][j]
    BY <1>0, <1>10, <2>1 DEF StateUpdate
  <2>3. [stater[k].entry EXCEPT !.player = TRUE].src = stater[k].entry.src
    BY <2>1 DEF Entry
  <2>4. \A l \in Kinds : stater'[l] # Resting => stater[l] # Resting
            /\ stater'[l].ev = stater[l].ev /\ stater'[l].entry = stater[l].entry
    BY <1>0, <1>10, <2>1 DEF StateUpdate, Stater
  <2>5. UNCHANGED mission /\ \A l, j : InBackend(l, j)' <=> InBackend(l, j)
    BY <1>10 DEF StateUpdate, InBackend, Adding, bvars, gvars
  <2>6. ASSUME mission # None, NEW l \in Kinds, NEW j \in ObjIds,
               entityCache'[l][j] # None, entityCache'[l][j].src = mission
        PROVE  InBackend(l, j)
    BY <2>1, <2>2, <2>3, <2>6
  <2>7. ASSUME mission # None, NEW l \in Kinds,
               stater'[l] # Resting, stater'[l].entry.src = mission
        PROVE  InBackend(l, stater'[l].ev.id)
    BY <2>4, <2>7
  <2>8. \A l \in Kinds : InBackend(l, stater[l].ev.id)' <=>
            Adding(l, stater'[l].ev.id) \/ (entities[l][stater'[l].ev.id] # None
                /\ entities[l][stater'[l].ev.id].data = mission)
    BY <1>10 DEF StateUpdate, InBackend, Adding, bvars, gvars
  <2> QED
    BY <2>5, <2>6, <2>7, <2>8 DEF InBackend
<1>11. ASSUME NEW S, EntitiesKept(S), UNCHANGED <<entityCache, game>>,
              \A l \in Kinds : stater'[l] # Resting => stater'[l] = stater[l]
       PROVE  EntitiesCached'
  <2>1. \A l \in Kinds, j \in ObjIds : InBackend(l, j) => InBackend(l, j)'
    BY <1>11 DEF EntitiesKept, InBackend, Adding
  <2>2. \A l \in Kinds : stater[l] # Resting => stater[l].ev.id \in ObjIds
    BY StaterIs
  <2> QED
    BY <1>11, <2>1, <2>2 DEF EntitiesKept
<1>12. ASSUME NEW k \in ActiveKinds, StateRecord(k) PROVE EntitiesCached'
  <2>1. k \in Kinds /\ stater[k].ev.id \in ObjIds
        /\ Sample(stater[k].ev.src, stater[k].ev.id) \in Samples
    BY <1>12, RecorderAssumption, StaterIs DEF StateRecord
  <2>2. EntitiesKept({Sample(stater[k].ev.src, stater[k].ev.id)})
    BY <1>0, <1>12, <2>1, RecordSampleEffect DEF StateRecord
  <2>3. \A l \in Kinds : stater'[l] # Resting => stater'[l] = stater[l]
    BY <1>0, <1>12 DEF StateRecord
  <2> QED
    BY <1>11, <1>12, <2>2, <2>3 DEF StateRecord, caches, gvars
<1>13. ASSUME NEW k \in ActiveKinds, DeleteTake(k) PROVE EntitiesCached'
  <2>1. k \in Kinds /\ Head(deleteq[k]) \in [id : ObjIds, frame : DeleteFrames]
    BY <1>13, RecorderAssumption, Received DEF DeleteTake, Types, QueueTypes
  <2>2. EntitiesKept({})
    BY <1>0, <1>13, <2>1, DeleteEntityEffect DEF DeleteTake
  <2> QED
    BY <1>11, <1>13, <2>2 DEF DeleteTake, caches, gorout, gvars
<1> QED
    BY <1>1, <1>2, <1>3, <1>4, <1>5, <1>6, <1>7, <1>8, <1>9, <1>10, <1>12, <1>13
    DEF RNext, Game, Start, Handlers, Send, SendStart, SendSave, StartTake,
        ResetMarkerCache, StartOk, EventTake, RecordEvent, MoveTake, MoveRecord,
        RecordMarkerState, UnmarkTake, DeleteMarker, UNCHANGED_but_markers,
        bvars, caches, queues, gorout, gvars

\* A cached marker ID is of a record of that name, the newest unless a CREATE is under way.
LEMMA StepMarkersCached ==
    ASSUME WaitsForOk, Types, Phases, MarkersCached, RNext
    PROVE  MarkersCached'
<1> USE DEF MarkersCached
<1>0. BackendTypes /\ markerCache \in [Names -> Nat \union {None}]
      /\ markers \in [Names -> Nat \union {None}]
    BY DEF Types, CacheTypes, BackendTypes
<1>1. CASE UNCHANGED <<mission, markers, markersByID, markerCache, starter, game>>
    BY <1>1 DEF Setting, HasRecord
<1>2. ASSUME NEW k \in ActiveKinds, NEW i \in ObjIds, CreateEntity(k, i)
      PROVE  MarkersCached'
    BY <1>2 DEF CreateEntity, Recording, bvars, gorout, Setting, HasRecord, Resting
<1>3. CASE CreateEntityBackend
    BY <1>3 DEF CreateEntityBackend, AddEntity, UNCHANGED_but_entities, caches, gorout,
                Setting, HasRecord, Resting
<1>4. ASSUME NEW n \in Names, CreateMarker(n) PROVE MarkersCached'
  <2>1. current \in Missions /\ game = Resting
    BY <1>4 DEF CreateMarker, Recording, Types, GameTypes
  <2>2. PICK x :
            /\ x = NewMarkerID /\ UNCHANGED mission
            /\ DOMAIN markersByID' = DOMAIN markersByID \union {x}
            /\ \A y \in DOMAIN markersByID : y # x /\ markersByID'[y] = markersByID[y]
            /\ markersByID'[x] = NewMarker(n, current)
            /\ markers' = [markers EXCEPT ![n] = x]
    BY <1>0, <1>4, <2>1, AddMarkerEffect DEF CreateMarker
  <2>3. UNCHANGED <<markerCache, starter>>
        /\ game' = [pc |-> "setMarker", name |-> n, id |-> x]
    BY <1>4, <2>2 DEF CreateMarker, caches, gorout
  <2>4. \A y, m : HasRecord(y, m) => HasRecord(y, m)'
    BY <2>2 DEF HasRecord
  <2>5. HasRecord(x, n)' /\ markers'[n] = x
    BY <1>0, <2>2 DEF HasRecord, NewMarker
  <2>6. \A m \in Names : Setting(m)' \/ (m # n /\ markers'[m] = markers[m] /\ ~Setting(m))
    BY <1>0, <2>1, <2>2, <2>3 DEF Setting, Resting
  <2>7. game'.pc = "setMarker" /\ game'.name = n /\ game'.id = x
    BY <2>3
  <2>8. HasRecord(game.id, game.name)'
    BY <2>5, <2>7 DEF HasRecord
  <2>9. ASSUME NEW m \in Names, mission # None, markerCache[m] # None
        PROVE  HasRecord(markerCache[m], m)'
    BY <2>2, <2>3, <2>9 DEF HasRecord
  <2> QED
    BY <2>2, <2>3, <2>5, <2>6, <2>7, <2>8, <2>9
<1>5. CASE CreateMarkerCache
  <2>1. game.name \in Names /\ starter = Resting
    BY <1>5, GameIs, WhileRecording DEF CreateMarkerCache, Resting
  <2>2. \A n \in Names : markerCache'[n] = IF n = game.name THEN game.id ELSE markerCache[n]
    BY <1>0, <1>5, <2>1 DEF CreateMarkerCache
  <2>3. UNCHANGED <<mission, markers, markersByID, starter>> /\ game' = Resting
    BY <1>5 DEF CreateMarkerCache, bvars, gorout
  <2> QED
    BY <1>5, <2>1, <2>2, <2>3 DEF CreateMarkerCache, Setting, HasRecord, Resting
<1>6. CASE StartTake
    BY <1>6 DEF StartTake, Setting, HasRecord, bvars, caches, gvars
<1>7. CASE ResetMarkerCache
  <2>1. game = Resting /\ UNCHANGED <<mission, markers, markersByID, game>>
    BY <1>7, StarterIs DEF ResetMarkerCache, Phases, bvars, gvars
  <2>2. \A n \in Names : markerCache'[n] = None
    BY <1>7 DEF ResetMarkerCache
  <2> QED
    BY <2>1, <2>2 DEF Resting
<1>8. CASE ResetEntityCache
  <2>1. starter.pc = "entities" /\ UNCHANGED <<mission, markers, markersByID, markerCache, game>>
    BY <1>8 DEF ResetEntityCache, bvars, gvars
  <2> QED
    BY <2>1 DEF Setting, HasRecord
<1>9. CASE StartBackend
  <2>1. game = Resting /\ UNCHANGED <<markerCache, game>> /\ starter.pc = "backend"
    BY <1>9, StarterIs DEF StartBackend, Phases, caches, gvars
  <2> QED
    BY <2>1 DEF Resting
<1>10. CASE StartOk
    BY <1>10 DEF StartOk, Setting, HasRecord, Resting, bvars, caches
<1>11. CASE EndBackend
  <2>1. /\ UNCHANGED <<markerCache, starter, game>>
        /\ UNCHANGED <<mission, markers, markersByID>> \/ mission' = None
    BY <1>0, <1>11, EndEffect DEF EndBackend, Tables, caches, gvars
  <2> QED
    BY <1>1, <2>1
<1>12. ASSUME NEW x, NEW S, MarkersKept(x, S), UNCHANGED <<markerCache, starter, game>>
       PROVE  MarkersCached'
  <2>1. \A y, n : HasRecord(y, n) => HasRecord(y, n)'
    BY <1>12 DEF MarkersKept, HasRecord
  <2> QED
    BY <1>12, <2>1 DEF MarkersKept, Setting
<1>13. CASE MoveRecord
  <2>1. Sample(mover.ev.src, mover.ev.name) \in Samples
    BY <1>13, MoverIs DEF MoveRecord
  <2>2. MarkersKept(mover.id, {Sample(mover.ev.src, mover.ev.name)})
    BY <1>0, <1>13, <2>1, RecordMarkerStateEffect DEF MoveRecord
  <2> QED
    BY <1>12, <1>13, <2>2 DEF MoveRecord, caches, gvars
<1>14. CASE UnmarkTake
  <2>1. Head(unmarkq) \in [name : Names, frame : DeleteFrames]
    BY <1>14, Received DEF UnmarkTake, Types, QueueTypes
  <2>2. MarkersKept(markers[Head(unmarkq).name], {})
    BY <1>0, <1>14, <2>1, DeleteMarkerEffect DEF UnmarkTake
  <2> QED
    BY <1>12, <1>14, <2>2 DEF UnmarkTake, caches, gorout, gvars
<1> QED
    BY <1>1, <1>2, <1>3, <1>4, <1>5, <1>6, <1>7, <1>8, <1>9, <1>10, <1>11, <1>13, <1>14
    DEF RNext, Game, Start, Handlers, Send, SendStart, SendSave, StateTake, StateUpdate,
        StateRecord, RecordSample, DeleteTake, DeleteEntity, UNCHANGED_but_entities,
        EventTake, RecordEvent, MoveTake, bvars, caches, queues, gorout, gvars

-----------------------------------------------------------------------------
(* No sample of the running mission is lost *)

\* What the game has created is in the cache, and what it has sent since the last
\* start finds its entity or marker there and in the backend, whenever its turn
\* comes.
Associated ==
    /\ \A k \in Kinds, i \in ObjIds : <<k, i>> \in created =>
          /\ entityCache[k][i] # None
          /\ mission = current => Adding(k, i) \/ entities[k][i] # None
    /\ \A k \in Kinds : \A e \in Range(stateq[k]) : e.src = current =>
          /\ entityCache[k][e.id] # None
          /\ mission = current => entities[k][e.id] # None
    /\ \A k \in Kinds :
          (stater[k] # Resting /\ stater[k].ev.src = current /\ mission = current)
              => entities[k][stater[k].ev.id] # None
    /\ \A n \in Names : n \in created => Setting(n) \/ markerCache[n] # None
    /\ \A e \in Range(moveq) : e.src = current => markerCache[e.name] # None
    /\ (mover # Resting /\ mover.ev.src = current /\ mission = current)
              => mover.id \in DOMAIN markersByID
    /\ lost = {}

\* No sample is on its way at the start.
LEMMA InitAssociated == RInit => Associated
    BY DEF RInit, BInit, Associated, Range

\* Nothing of the current mission is there: its start is under way.
LEMMA NothingToAssociate ==
    ASSUME created = {}, lost = {},
           \A k \in Kinds : \A e \in Range(stateq[k]) : e.src # current,
           \A k \in Kinds : stater[k] # Resting => stater[k].ev.src # current,
           \A e \in Range(moveq) : e.src # current,
           mover # Resting => mover.ev.src # current
    PROVE  Associated
    BY DEF Associated

\* What is in the queues can be looked up.
LEMMA QueuedIs ==
    ASSUME Types
    PROVE  /\ \A k \in Kinds : \A e \in Range(stateq[k]) : e.id \in ObjIds /\ e.src \in Missions
           /\ \A e \in Range(moveq) : e.name \in Names /\ e.src \in Missions
<1>1. \A S : \A q \in Seq(S) : Range(q) \subseteq S
    BY DEF Range
<1>2. (\A k \in Kinds : Range(stateq[k]) \subseteq StateMsg) /\ Range(moveq) \subseteq MoveMsg
    BY <1>1 DEF Types, QueueTypes
<1> QED
    BY <1>2 DEF StateMsg, MoveMsg

\* A sample on its way is of an entity or marker that the running mission knows.
LEMMA StepAssociated ==
    ASSUME WaitsForOk, Types, Phases, Sources, MarkersCached, Associated, RNext
    PROVE  Associated'
<1> USE DEF Associated
<1>0. /\ BackendTypes /\ entityCache \in [Kinds -> [ObjIds -> Entry \union {None}]]
      /\ markerCache \in [Names -> Nat \union {None}]
      /\ stateq \in [Kinds -> Seq(StateMsg)]
      /\ stater \in [Kinds -> {Resting} \union Stater]
      /\ ActiveKinds \subseteq Kinds /\ None \notin Entry /\ None \notin Nat
      /\ \A n \in Names, k \in Kinds, i \in ObjIds : n # <<k, i>>
  <2>1. None \notin Entry /\ None \notin Nat /\ ActiveKinds \subseteq Kinds
    BY RecorderAssumption, MemoryAssumption DEF Entry
  <2>2. \A n \in Names, k \in Kinds, i \in ObjIds : n # <<k, i>>
    BY RecorderAssumption
  <2> QED
    BY <2>1, <2>2 DEF Types, CacheTypes, QueueTypes, GoroutineTypes
<1>1. CASE UNCHANGED <<mission, entities, markersByID, caches, stateq, moveq, stater,
                       mover, game, current, created, lost>>
    BY <1>1 DEF caches, Adding, Setting
<1>2. ASSUME NEW k \in ActiveKinds, NEW i \in ObjIds, CreateEntity(k, i) PROVE Associated'
  <2>1. /\ game = Resting /\ current \in Missions
        /\ UNCHANGED <<mission, entities, markersByID, markerCache, stateq, moveq, stater,
                       mover, current, lost>>
        /\ created' = created \union {<<k, i>>}
    BY <1>2 DEF CreateEntity, Recording, bvars, queues, gorout, Types, GameTypes
  <2>2. [src |-> current, player |-> FALSE] # None
    <3>1. [src |-> current, player |-> FALSE] \in Entry
      BY <2>1 DEF Entry
    <3> QED
      BY <1>0, <3>1
  <2>3. \A l \in Kinds, j \in ObjIds : entityCache'[l][j] =
            IF l = k /\ j = i THEN [src |-> current, player |-> FALSE] ELSE entityCache[l][j]
    BY <1>0, <1>2 DEF CreateEntity
  <2>4. Adding(k, i)' /\ \A n \in Names : n \notin created' \/ n \in created
    BY <1>0, <1>2, <2>1 DEF CreateEntity, Adding
  <2>5. (\A l, j : ~Adding(l, j)) /\ \A n : ~Setting(n)
    BY <2>1 DEF Adding, Setting, Resting
  <2>6. k \in Kinds /\ \A l \in Kinds, j \in ObjIds :
            entityCache[l][j] # None => entityCache'[l][j] # None
    BY <1>0, <2>2, <2>3
  <2>7. \A l \in Kinds, j \in ObjIds : <<l, j>> \in created' =>
            /\ entityCache'[l][j] # None
            /\ mission = current => Adding(l, j)' \/ entities[l][j] # None
    <3> SUFFICES ASSUME NEW l \in Kinds, NEW j \in ObjIds, <<l, j>> \in created'
                 PROVE  /\ entityCache'[l][j] # None
                        /\ mission = current => Adding(l, j)' \/ entities[l][j] # None
      OBVIOUS
    <3>1. CASE <<l, j>> \in created
      BY <2>5, <2>6, <3>1
    <3>2. CASE l = k /\ j = i
      BY <2>2, <2>3, <2>4, <3>2 DEF Adding
    <3> QED
      BY <2>1, <3>1, <3>2
  <2>8. \A l \in Kinds : \A e \in Range(stateq[l]) : e.src = current =>
            /\ entityCache'[l][e.id] # None
            /\ mission = current => entities[l][e.id] # None
    BY <2>6, QueuedIs
  <2>9. \A n \in Names : n \in created' => Setting(n)' \/ markerCache'[n] # None
    BY <2>1, <2>4, <2>5
  <2> QED
    BY <2>1, <2>7, <2>8, <2>9
<1>3. CASE CreateEntityBackend
  <2>1. game.kind \in Kinds /\ game.id \in ObjIds /\ game.src \in Missions /\ game.pc = "addEntity"
    BY <1>3, GameIs DEF CreateEntityBackend
  <2>2. /\ UNCHANGED <<mission, markersByID, caches, stateq, moveq, stater, mover,
                       current, created, lost>>
        /\ entities'[game.kind][game.id] # None
        /\ \A l \in Kinds, j \in ObjIds :
              (l # game.kind \/ j # game.id) => entities'[l][j] = entities[l][j]
    BY <1>0, <1>3, <2>1, AddEntityEffect DEF CreateEntityBackend, caches, queues, gorout
  <2>3. \A l \in Kinds, j \in ObjIds :
            Adding(l, j) \/ entities[l][j] # None => entities'[l][j] # None
    BY <2>2 DEF Adding
  <2>4. \A n : ~Setting(n)
    BY <2>1 DEF Setting
  <2> QED
    BY <2>2, <2>3, <2>4, QueuedIs, StaterIs DEF caches
<1>4. ASSUME NEW n \in Names, CreateMarker(n) PROVE Associated'
  <2>1. /\ game = Resting /\ current \in Missions
        /\ UNCHANGED <<caches, stateq, moveq, stater, mover, current, lost>>
        /\ created' = created \union {n} /\ game'.pc = "setMarker" /\ game'.name = n
    BY <1>4 DEF CreateMarker, Recording, queues, gorout, Types, GameTypes
  <2>2. UNCHANGED <<mission, entities>> /\ DOMAIN markersByID \subseteq DOMAIN markersByID'
    BY <1>0, <1>4, <2>1, AddMarkerEffect DEF CreateMarker
  <2>3. (\A l, j : ~Adding(l, j)) /\ (\A x : ~Setting(x)) /\ Setting(n)'
    BY <2>1 DEF Adding, Setting, Resting
  <2>4. \A k \in Kinds, i \in ObjIds : <<k, i>> \in created' => <<k, i>> \in created
    BY <1>0, <2>1
  <2> QED
    BY <2>1, <2>2, <2>3, <2>4 DEF caches
<1>5. CASE CreateMarkerCache
  <2>1. game.name \in Names /\ game.id \in Nat /\ \A l, j : ~Adding(l, j)
    BY <1>5, GameIs DEF CreateMarkerCache, Adding
  <2>2. UNCHANGED <<mission, entities, markersByID, entityCache, stateq, moveq, stater,
                    mover, current, created, lost>>
    BY <1>5 DEF CreateMarkerCache, bvars, queues, gorout
  <2>3. \A n \in Names : markerCache'[n] = IF n = game.name THEN game.id ELSE markerCache[n]
    BY <1>0, <1>5, <2>1 DEF CreateMarkerCache
  <2>4. \A n \in Names : Setting(n) \/ markerCache[n] # None => markerCache'[n] # None
    BY <1>0, <2>1, <2>3 DEF Setting
  <2> QED
    BY <2>1, <2>2, <2>4, QueuedIs
<1>6. CASE Send
  <2>1. /\ game = Resting /\ UNCHANGED <<mission, entities, markersByID, caches, stater,
                                         mover, game, current, created, lost>>
        /\ current # None
    BY <1>6 DEF Send, Recording, bvars, gorout
  <2>2. (\A l, j : ~Adding(l, j)) /\ (\A x : ~Setting(x))
        /\ (\A l, j : ~Adding(l, j)') /\ (\A x : ~Setting(x)')
    BY <2>1 DEF Adding, Setting, Resting
  <2>3. CASE UNCHANGED <<stateq, moveq>>
    BY <1>1, <2>1, <2>3
  <2>4. ASSUME NEW k \in Kinds, NEW e \in StateMsg, e.id \in ObjIds,
               <<k, e.id>> \in created, e.src = current,
               stateq' = [stateq EXCEPT ![k] = Append(@, e)], UNCHANGED moveq
        PROVE  Associated'
    <3>1. Range(Append(stateq[k], e)) = Range(stateq[k]) \union {e}
      BY <1>0, Sent
    <3>2. \A l \in Kinds : \A x \in Range(stateq'[l]) :
              x \in Range(stateq[l]) \/ (l = k /\ x = e)
      BY <1>0, <2>4, <3>1
    <3> QED
      BY <2>1, <2>2, <2>4, <3>2 DEF caches
  <2>5. ASSUME NEW e \in MoveMsg, e.name \in Names, e.name \in created, e.src = current,
               moveq' = Append(moveq, e), UNCHANGED stateq
        PROVE  Associated'
    <3>1. Range(Append(moveq, e)) = Range(moveq) \union {e}
      BY Sent DEF Types, QueueTypes
    <3> QED
      BY <2>1, <2>2, <2>5, <3>1 DEF caches
  <2> QED
    BY <1>6, <2>3, <2>4, <2>5, SendEffect
<1>7. ASSUME NEW m \in Missions, SendStart(m) PROVE Associated'
  <2>1. m \notin started /\ created' = {} /\ current' = m
        /\ UNCHANGED <<stateq, moveq, stater, mover, lost>>
    BY <1>7 DEF SendStart, gorout
  <2> QED
    BY <2>1, NothingToAssociate DEF Sources, Past
<1>8. CASE ResetMarkerCache \/ ResetEntityCache \/ StartBackend
  <2>1. Starting /\ created = {}
    BY <1>8, StarterIs DEF ResetMarkerCache, ResetEntityCache, StartBackend, Phases
  <2>2. UNCHANGED <<stateq, moveq, stater, mover, current, created, lost>>
    BY <1>8 DEF ResetMarkerCache, ResetEntityCache, StartBackend, queues, gvars
  <2> QED
    BY <2>1, <2>2, NothingToAssociate DEF Sources, Past
<1>9. CASE EndBackend
  <2>1. /\ UNCHANGED <<caches, stateq, moveq, stater, mover, game, current, created, lost>>
        /\ UNCHANGED <<mission, entities, markersByID>> \/ mission' = None
    BY <1>0, <1>9, EndEffect DEF EndBackend, Tables, queues, gvars
  <2>2. CASE mission' = None /\ current = None
    <3>1. created' = {}
      BY <2>1, <2>2 DEF Phases
    <3> QED
      BY <2>1, <2>2, <3>1, QueuedIs, StaterIs, MoverIs, MemoryAssumption, NothingToAssociate
  <2>3. CASE mission' = None /\ current # None
    BY <2>1, <2>3 DEF caches, Setting
  <2> QED
    BY <1>1, <2>1, <2>2, <2>3
<1>10. ASSUME NEW k \in ActiveKinds, StateTake(k) PROVE Associated'
  <2>1. PICK e \in Range(stateq[k]) :
            /\ k \in Kinds /\ e.id \in ObjIds /\ stater[k] = Resting
            /\ stateq' = [stateq EXCEPT ![k] = Tail(@)]
            /\ Range(Tail(stateq[k])) \subseteq Range(stateq[k])
            /\ \/ /\ entityCache[k][e.id] = None
                  /\ stater' = stater
                  /\ lost' = IF Matters(e.src) THEN lost \union {e} ELSE lost
               \/ /\ entityCache[k][e.id] # None
                  /\ \E pc \in {"update", "record"} : stater' =
                        [stater EXCEPT ![k] = [pc |-> pc, ev |-> e, entry |-> entityCache[k][e.id]]]
                  /\ lost' = lost
    BY <1>10, StateTakeEffect
  <2>2. UNCHANGED <<mission, entities, markersByID, caches, moveq, mover, game, current, created>>
    BY <1>10 DEF StateTake, bvars, gvars
  <2>3. lost' = lost
    BY <2>1 DEF Matters
  <2>4. \A l \in Kinds : Range(stateq'[l]) \subseteq Range(stateq[l])
    BY <1>0, <2>1
  <2>5. \A l \in Kinds : stater'[l] # Resting =>
            stater'[l] = stater[l] \/ (l = k /\ stater'[l].ev = e)
    BY <1>0, <2>1
  <2> QED
    BY <2>1, <2>2, <2>3, <2>4, <2>5 DEF caches, Adding, Setting
<1>11. ASSUME NEW k \in ActiveKinds, StateUpdate(k) PROVE Associated'
  <2>1. k \in Kinds /\ stater[k] # Resting /\ stater[k].ev.id \in ObjIds
        /\ stater[k] \in Stater /\ stater[k].entry \in Entry
    BY <1>11, RecorderAssumption, StaterIs DEF StateUpdate
  <2>2. [stater[k].entry EXCEPT !.player = TRUE] # None
    <3>1. [stater[k].entry EXCEPT !.player = TRUE] \in Entry
      BY <2>1 DEF Entry
    <3> QED
      BY <1>0, <3>1
  <2>3. \A l \in Kinds, j \in ObjIds : entityCache[l][j] # None => entityCache'[l][j] # None
    BY <1>0, <1>11, <2>1, <2>2 DEF StateUpdate
  <2>4. \A l \in Kinds : stater'[l] # Resting => stater[l] # Resting /\ stater'[l].ev = stater[l].ev
    BY <1>0, <1>11, <2>1 DEF StateUpdate, Stater
  <2>5. UNCHANGED <<mission, entities, markersByID, markerCache, stateq, moveq, mover, game,
                    current, created, lost>>
    BY <1>11 DEF StateUpdate, bvars, queues, gvars
  <2> QED
    BY <2>3, <2>4, <2>5, QueuedIs DEF Adding, Setting
<1>12. ASSUME NEW S, EntitiesKept(S), lost' = lost,
              UNCHANGED <<caches, stateq, moveq, mover, game, current, created>>,
              \A l \in Kinds : stater'[l] # Resting => stater'[l] = stater[l]
       PROVE  Associated'
    BY <1>12, QueuedIs, StaterIs DEF EntitiesKept, caches, Adding, Setting
<1>13. ASSUME NEW k \in ActiveKinds, StateRecord(k) PROVE Associated'
  <2>1. k \in Kinds /\ stater[k] # Resting /\ stater[k].ev.id \in ObjIds
        /\ Sample(stater[k].ev.src, stater[k].ev.id) \in Samples
    BY <1>0, <1>13, StaterIs DEF StateRecord
  <2>2. EntitiesKept({Sample(stater[k].ev.src, stater[k].ev.id)})
    BY <1>0, <1>13, <2>1, RecordSampleEffect DEF StateRecord
  <2>3. \A l \in Kinds : stater'[l] # Resting => stater'[l] = stater[l]
    BY <1>0, <1>13 DEF StateRecord
  <2>4. lost' = lost
    BY <1>13, <2>1 DEF StateRecord, Matters
  <2> QED
    BY <1>12, <1>13, <2>2, <2>3, <2>4 DEF StateRecord, queues, gvars
<1>14. ASSUME NEW k \in ActiveKinds, DeleteTake(k) PROVE Associated'
  <2>1. k \in Kinds /\ Head(deleteq[k]) \in [id : ObjIds, frame : DeleteFrames]
    BY <1>14, RecorderAssumption, Received DEF DeleteTake, Types, QueueTypes
  <2>2. EntitiesKept({})
    BY <1>0, <1>14, <2>1, DeleteEntityEffect DEF DeleteTake
  <2> QED
    BY <1>12, <1>14, <2>2 DEF DeleteTake, gorout, gvars
<1>15. CASE MoveTake
  <2>1. PICK e \in Range(moveq) :
            /\ e.name \in Names /\ moveq' = Tail(moveq)
            /\ Range(Tail(moveq)) \subseteq Range(moveq)
            /\ \/ /\ markerCache[e.name] = None
                  /\ mover' = mover
                  /\ lost' = IF Matters(e.src) THEN lost \union {e} ELSE lost
               \/ /\ markerCache[e.name] # None
                  /\ mover' = [pc |-> "record", ev |-> e, id |-> markerCache[e.name]]
                  /\ lost' = lost
    BY <1>15, MoveTakeEffect
  <2>2. UNCHANGED <<mission, entities, markersByID, caches, stateq, stater, game, current, created>>
    BY <1>15 DEF MoveTake, bvars, gvars
  <2>3. lost' = lost
    BY <2>1 DEF Matters
  <2>4. e.src # None
    BY QueuedIs, MemoryAssumption
  <2>5. (mission = e.src /\ markerCache[e.name] # None) =>
            markerCache[e.name] \in DOMAIN markersByID
    BY <2>1, <2>4 DEF MarkersCached, HasRecord
  <2> QED
    BY <2>1, <2>2, <2>3, <2>5 DEF caches, Adding, Setting
<1>16. ASSUME NEW x, NEW S, MarkersKept(x, S), lost' = lost,
              UNCHANGED <<caches, stateq, moveq, stater, game, current, created>>,
              mover' # Resting => mover' = mover
       PROVE  Associated'
    BY <1>16 DEF MarkersKept, caches, Adding, Setting
<1>17. CASE MoveRecord
  <2>1. Sample(mover.ev.src, mover.ev.name) \in Samples /\ mover # Resting
    BY <1>17, MoverIs DEF MoveRecord
  <2>2. MarkersKept(mover.id, {Sample(mover.ev.src, mover.ev.name)})
    BY <1>0, <1>17, <2>1, RecordMarkerStateEffect DEF MoveRecord
  <2>3. lost' = lost
    BY <1>17, <2>1 DEF MoveRecord, Matters
  <2> QED
    BY <1>16, <1>17, <2>2, <2>3 DEF MoveRecord, queues, gvars
<1>18. CASE UnmarkTake
  <2>1. Head(unmarkq) \in [name : Names, frame : DeleteFrames]
    BY <1>18, Received DEF UnmarkTake, Types, QueueTypes
  <2>2. MarkersKept(markers[Head(unmarkq).name], {})
    BY <1>0, <1>18, <2>1, DeleteMarkerEffect DEF UnmarkTake
  <2> QED
    BY <1>16, <1>18, <2>2 DEF UnmarkTake, gorout, gvars
<1> QED
    BY <1>1, <1>2, <1>3, <1>4, <1>5, <1>6, <1>7, <1>8, <1>9, <1>10, <1>11, <1>13, <1>14,
       <1>15, <1>17, <1>18
    DEF RNext, Game, Start, Handlers, SendSave, StartTake, StartOk, EventTake, RecordEvent,
        bvars, caches, queues, gorout, gvars

-----------------------------------------------------------------------------
(* A game that drains the queues before a start *)

\* Nothing but the cached markers outlives the start of a mission, and what is
\* there belongs to the mission that runs.
Drained ==
    drains =>
        /\ Starting =>
              /\ \A k \in Kinds : Range(stateq[k]) = {} /\ stater[k] = Resting
              /\ Range(moveq) = {} /\ mover = Resting
        /\ starter.pc \in {"backend", "ok"} =>
              \A k \in Kinds, i \in ObjIds : entityCache[k][i] = None
        /\ mission # None =>
              /\ \A k \in Kinds, i \in ObjIds :
                    entityCache[k][i] # None => entityCache[k][i].src = mission
              /\ \A k \in Kinds : \A e \in Range(stateq[k]) : e.src = mission
              /\ \A k \in Kinds : stater[k] # Resting =>
                    stater[k].ev.src = mission /\ stater[k].entry.src = mission
              /\ \A e \in Range(moveq) : e.src = mission
              /\ mover # Resting =>
                    mover.ev.src = mission /\ HasRecord(mover.id, mover.ev.name)

\* Nothing is pending at the start.
LEMMA InitDrained == RInit => Drained
    BY DEF RInit, BInit, Drained, Starting, Resting

\* An empty channel holds nothing.
LEMMA EmptyRange == Range(<<>>) = {}
    BY DEF Range

\* While no start is under way, the mission of the backend is the current one.
LEMMA NotStarting ==
    ASSUME Types, Phases, ~Starting
    PROVE  starter = Resting /\ (mission # None => mission = current)
    BY DEF Phases, Before, Resting

\* If the game drains, nothing but cached markers outlives a start.
LEMMA StepDrained ==
    ASSUME WaitsForOk, Types, Phases, MarkersCached, Drained, RNext
    PROVE  Drained'
<1> SUFFICES ASSUME drains PROVE Drained'
  <2>1. drains' = drains
    BY DEF RNext, Game, Start, Handlers, CreateEntity, CreateEntityBackend, CreateMarker,
        CreateMarkerCache, Send, SendStart, SendSave, StartTake, ResetMarkerCache,
        ResetEntityCache, StartBackend, StartOk, EndBackend, StateTake, StateUpdate,
        StateRecord, DeleteTake, EventTake, MoveTake, MoveRecord, UnmarkTake, gvars
  <2> QED
    BY <2>1 DEF Drained
<1> USE DEF Drained
<1>0. /\ BackendTypes /\ entityCache \in [Kinds -> [ObjIds -> Entry \union {None}]]
      /\ stateq \in [Kinds -> Seq(StateMsg)] /\ moveq \in Seq(MoveMsg)
      /\ stater \in [Kinds -> {Resting} \union Stater]
      /\ ActiveKinds \subseteq Kinds
    BY RecorderAssumption DEF Types, CacheTypes, QueueTypes, GoroutineTypes
<1>1. CASE UNCHANGED <<mission, markersByID, entityCache, stateq, moveq, stater, mover,
                       starter, current, acked>>
    BY <1>1 DEF Starting, HasRecord
<1>2. ASSUME NEW k \in ActiveKinds, NEW i \in ObjIds, CreateEntity(k, i) PROVE Drained'
  <2>1. /\ k \in Kinds /\ ~Starting
        /\ UNCHANGED <<mission, markersByID, stateq, moveq, stater, mover, starter,
                       current, acked>>
    BY <1>2, RecorderAssumption
    DEF CreateEntity, Recording, Starting, bvars, queues, gorout
  <2>2. \A l \in Kinds, j \in ObjIds : entityCache'[l][j] =
            IF l = k /\ j = i THEN [src |-> current, player |-> FALSE] ELSE entityCache[l][j]
    BY <1>0, <1>2, <2>1 DEF CreateEntity
  <2>3. starter = Resting /\ (mission # None => mission = current)
    BY <2>1, NotStarting
  <2> QED
    BY <2>1, <2>2, <2>3 DEF Starting, HasRecord, Resting
<1>3. CASE CreateEntityBackend
    BY <1>1, <1>3 DEF CreateEntityBackend, AddEntity, UNCHANGED_but_entities, caches,
                      queues, gorout
<1>4. ASSUME
             UNCHANGED <<mission, entityCache, stateq, moveq, stater, starter, current, acked>>,
             mover' = mover \/ mover' = Resting,
             \A id, n : HasRecord(id, n) => HasRecord(id, n)'
      PROVE  Drained'
    BY <1>4 DEF Starting, HasRecord
<1>5. ASSUME NEW n \in Names, CreateMarker(n) PROVE Drained'
  <2>1. current \in Missions
    BY <1>5 DEF CreateMarker, Recording, Types, GameTypes
  <2>2. \A id, m : HasRecord(id, m) => HasRecord(id, m)'
    BY <1>0, <1>5, <2>1, AddMarkerEffect DEF CreateMarker, HasRecord
  <2> QED
    BY <1>4, <1>5, <2>2
    DEF CreateMarker, AddMarker, UNCHANGED_but_markers, caches, queues, gorout
<1>6. CASE Send
  <2>1. /\ ~Starting
        /\ UNCHANGED <<mission, markersByID, entityCache, stater, mover, starter,
                       current, acked>>
    BY <1>6 DEF Send, Recording, Starting, bvars, caches, gorout
  <2>2. starter = Resting /\ (mission # None => mission = current)
    BY <2>1, NotStarting
  <2>3. CASE UNCHANGED <<stateq, moveq>>
    BY <1>1, <2>1, <2>3
  <2>4. ASSUME NEW k \in Kinds, NEW e \in StateMsg, e.src = current,
               stateq' = [stateq EXCEPT ![k] = Append(@, e)], UNCHANGED moveq
        PROVE  Drained'
    <3>1. Range(Append(stateq[k], e)) = Range(stateq[k]) \union {e}
      BY <1>0, Sent
    <3>2. \A l \in Kinds : Range(stateq'[l]) \subseteq Range(stateq[l]) \union {e}
      BY <1>0, <2>4, <3>1
    <3> QED
      BY <2>1, <2>2, <2>4, <3>2 DEF Starting, HasRecord, Resting
  <2>5. ASSUME NEW e \in MoveMsg, e.src = current,
               moveq' = Append(moveq, e), UNCHANGED stateq
        PROVE  Drained'
    <3>1. Range(Append(moveq, e)) = Range(moveq) \union {e}
      BY <1>0, Sent
    <3> QED
      BY <2>1, <2>2, <2>5, <3>1 DEF Starting, HasRecord, Resting
  <2> QED
    BY <1>6, <2>3, <2>4, <2>5, SendEffect
<1>7. ASSUME NEW m \in Missions, SendStart(m) PROVE Drained'
  <2>1. /\ \A k \in Kinds : stateq[k] = <<>> /\ stater[k] = Resting
        /\ moveq = <<>> /\ mover = Resting /\ starter = Resting
        /\ UNCHANGED <<mission, markersByID, entityCache, stateq, moveq, stater, mover, starter>>
    BY <1>7 DEF SendStart, NothingPending, bvars, caches, gorout
  <2> QED
    BY <2>1, EmptyRange DEF Starting, HasRecord, Resting
<1>8. CASE StartTake
  <2>1. /\ UNCHANGED <<mission, markersByID, entityCache, stateq, moveq, stater, mover,
                       current, acked>>
        /\ starter'.pc = "markers"
    BY <1>8 DEF StartTake, bvars, caches, gvars
  <2> QED
    BY <2>1 DEF Starting, HasRecord
<1>9. CASE ResetMarkerCache
  <2>1. /\ UNCHANGED <<mission, markersByID, entityCache, stateq, moveq, stater, mover,
                       current, acked>>
        /\ starter'.pc = "entities"
    BY <1>9, StarterIs DEF ResetMarkerCache, bvars, queues, gvars
  <2> QED
    BY <2>1 DEF Starting, HasRecord
<1>10. CASE ResetEntityCache
  <2>1. /\ UNCHANGED <<mission, markersByID, stateq, moveq, stater, mover, current, acked>>
        /\ \A k \in Kinds, i \in ObjIds : entityCache'[k][i] = None
    BY <1>10 DEF ResetEntityCache, bvars, queues, gvars
  <2> QED
    BY <2>1 DEF Starting, HasRecord
<1>11. CASE StartBackend
  <2>1. /\ Starting /\ starter.pc = "backend"
        /\ UNCHANGED <<entityCache, stateq, moveq, stater, mover, current, acked>>
    BY <1>11, StarterIs DEF StartBackend, Phases, caches, queues, gvars
  <2> QED
    BY <2>1 DEF Starting
<1>12. CASE StartOk
  <2>1. /\ UNCHANGED <<mission, markersByID, entityCache, stateq, moveq, stater, mover>>
        /\ acked' = current' /\ starter' = Resting
    BY <1>12, StarterIs DEF StartOk, Phases, bvars, caches, queues
  <2> QED
    BY <2>1 DEF Starting, HasRecord, Resting
<1>13. CASE EndBackend
  <2>1. /\ UNCHANGED <<entityCache, stateq, moveq, stater, mover, starter, current, acked>>
        /\ UNCHANGED <<mission, markersByID>> \/ mission' = None
    BY <1>0, <1>13, EndEffect DEF EndBackend, Tables, caches, queues, gvars
  <2> QED
    BY <1>1, <2>1 DEF Starting
<1>14. ASSUME NEW k \in ActiveKinds, StateTake(k) PROVE Drained'
  <2>1. PICK e \in Range(stateq[k]) :
            /\ k \in Kinds /\ e.id \in ObjIds /\ stater[k] = Resting
            /\ stateq' = [stateq EXCEPT ![k] = Tail(@)]
            /\ Range(Tail(stateq[k])) \subseteq Range(stateq[k])
            /\ \/ stater' = stater
               \/ /\ entityCache[k][e.id] # None
                  /\ \E pc \in {"update", "record"} : stater' =
                        [stater EXCEPT ![k] = [pc |-> pc, ev |-> e, entry |-> entityCache[k][e.id]]]
    BY <1>14, StateTakeEffect
  <2>2. UNCHANGED <<mission, markersByID, entityCache, moveq, mover, starter, current, acked>>
    BY <1>14 DEF StateTake, bvars, caches, gvars
  <2>3. ~Starting
    BY <2>1
  <2>4. \A l \in Kinds : Range(stateq'[l]) \subseteq Range(stateq[l])
    BY <1>0, <2>1
  <2>5. \A l \in Kinds : stater'[l] # Resting =>
            \/ stater'[l] = stater[l]
            \/ l = k /\ entityCache[k][e.id] # None /\ stater'[l].ev = e
                     /\ stater'[l].entry = entityCache[k][e.id]
    BY <1>0, <2>1
  <2> QED
    BY <2>1, <2>2, <2>3, <2>4, <2>5 DEF Starting, HasRecord
<1>15. ASSUME NEW k \in ActiveKinds, StateUpdate(k) PROVE Drained'
  <2>1. k \in Kinds /\ stater[k] # Resting /\ stater[k].ev.id \in ObjIds
        /\ stater[k] \in Stater /\ stater[k].entry \in Entry
    BY <1>15, RecorderAssumption, StaterIs DEF StateUpdate
  <2>2. \A l \in Kinds, j \in ObjIds : entityCache'[l][j] =
            IF l = k /\ j = stater[k].ev.id THEN [stater[k].entry EXCEPT !.player = TRUE]
                                            ELSE entityCache[l][j]
    BY <1>0, <1>15, <2>1 DEF StateUpdate
  <2>3. [stater[k].entry EXCEPT !.player = TRUE].src = stater[k].entry.src
    BY <2>1 DEF Entry
  <2>4. \A l \in Kinds : stater'[l] # Resting => stater[l] # Resting
            /\ stater'[l].ev = stater[l].ev /\ stater'[l].entry = stater[l].entry
    BY <1>0, <1>15, <2>1 DEF StateUpdate, Stater
  <2>5. UNCHANGED <<mission, markersByID, stateq, moveq, mover, starter, current, acked>>
    BY <1>15 DEF StateUpdate, bvars, queues, gvars
  <2>6. ~Starting /\ starter = Resting
    BY <2>1, NotStarting
  <2>7. ASSUME mission # None, NEW l \in Kinds, NEW j \in ObjIds, entityCache'[l][j] # None
        PROVE  entityCache'[l][j].src = mission
    <3>1. CASE l = k /\ j = stater[k].ev.id
      <4>1. entityCache'[l][j] = [stater[k].entry EXCEPT !.player = TRUE]
        BY <2>2, <3>1
      <4>2. stater[k].entry.src = mission
        BY <2>1, <2>7
      <4> QED
        BY <2>3, <4>1, <4>2
    <3>2. CASE ~(l = k /\ j = stater[k].ev.id)
      <4>1. entityCache'[l][j] = entityCache[l][j]
        BY <2>2, <3>2
      <4> QED
        BY <2>7, <4>1
    <3> QED
      BY <3>1, <3>2
  <2>8. ASSUME mission # None, NEW l \in Kinds, stater'[l] # Resting
        PROVE  stater'[l].ev.src = mission /\ stater'[l].entry.src = mission
    BY <2>4, <2>8
  <2>9. ~Starting' /\ starter'.pc = "idle"
    BY <2>5, <2>6 DEF Starting, Resting
  <2> QED
    BY <2>5, <2>7, <2>8, <2>9 DEF HasRecord
<1>16. ASSUME NEW k \in ActiveKinds, StateRecord(k) PROVE Drained'
  <2>1. \A l \in Kinds : stater'[l] = stater[l] \/ stater'[l] = Resting
    BY <1>0, <1>16 DEF StateRecord
  <2>2. UNCHANGED <<mission, markersByID, entityCache, stateq, moveq, mover, starter,
                    current, acked>>
    BY <1>16 DEF StateRecord, RecordSample, UNCHANGED_but_entities, caches, queues, gvars
  <2> QED
    BY <2>1, <2>2 DEF Starting, HasRecord
<1>17. ASSUME NEW k \in ActiveKinds, DeleteTake(k) PROVE Drained'
    BY <1>1, <1>17
    DEF DeleteTake, DeleteEntity, UNCHANGED_but_entities, caches, gorout, gvars
<1>18. CASE MoveTake
  <2>1. PICK e \in Range(moveq) :
            /\ e.name \in Names /\ moveq' = Tail(moveq)
            /\ Range(Tail(moveq)) \subseteq Range(moveq)
            /\ \/ mover' = mover
               \/ /\ markerCache[e.name] # None
                  /\ mover' = [pc |-> "record", ev |-> e, id |-> markerCache[e.name]]
    BY <1>18, MoveTakeEffect
  <2>2. UNCHANGED <<mission, markersByID, entityCache, stateq, stater, starter, current, acked>>
    BY <1>18 DEF MoveTake, bvars, caches, gvars
  <2>3. ~Starting
    BY <2>1
  <2>4. ASSUME mission # None, markerCache[e.name] # None
        PROVE  HasRecord(markerCache[e.name], e.name)
    BY <2>1, <2>4 DEF MarkersCached
  <2> QED
    BY <2>1, <2>2, <2>3, <2>4 DEF Starting, HasRecord
<1>19. ASSUME NEW x, NEW S, MarkersKept(x, S)
       PROVE  \A id, n : HasRecord(id, n) => HasRecord(id, n)'
    BY <1>19 DEF MarkersKept, HasRecord
<1>20. CASE MoveRecord
  <2>1. Sample(mover.ev.src, mover.ev.name) \in Samples
    BY <1>20, MoverIs DEF MoveRecord
  <2>2. MarkersKept(mover.id, {Sample(mover.ev.src, mover.ev.name)})
    BY <1>0, <1>20, <2>1, RecordMarkerStateEffect DEF MoveRecord
  <2>3. \A id, n : HasRecord(id, n) => HasRecord(id, n)'
    BY <1>19, <2>2
  <2> QED
    BY <1>4, <1>20, <2>2, <2>3 DEF MoveRecord, MarkersKept, caches, queues, gvars
<1>21. CASE UnmarkTake
  <2>1. Head(unmarkq) \in [name : Names, frame : DeleteFrames]
    BY <1>21, Received DEF UnmarkTake, Types, QueueTypes
  <2>2. MarkersKept(markers[Head(unmarkq).name], {})
    BY <1>0, <1>21, <2>1, DeleteMarkerEffect DEF UnmarkTake
  <2>3. \A id, n : HasRecord(id, n) => HasRecord(id, n)'
    BY <1>19, <2>2
  <2> QED
    BY <1>4, <1>21, <2>2, <2>3 DEF UnmarkTake, MarkersKept, caches, gorout, gvars
<1>22. CASE CreateMarkerCache \/ SendSave \/ \E k \in EventKinds : EventTake(k)
    BY <1>1, <1>22
    DEF CreateMarkerCache, SendSave, EventTake, RecordEvent, bvars, caches, queues, gorout, gvars
<1> QED
    BY <1>2, <1>3, <1>5, <1>6, <1>7, <1>8, <1>9, <1>10, <1>11, <1>12, <1>13, <1>14, <1>15,
       <1>16, <1>17, <1>18, <1>20, <1>21, <1>22
    DEF RNext, Game, Start, Handlers

-----------------------------------------------------------------------------
(* What the backend holds of a mission *)

\* MissionIsolation and MarkerStatesAreItsOwn, without the positions.
Isolated ==
    (drains /\ mission # None) =>
        /\ \A k \in Kinds, i \in ObjIds : entities[k][i] # None =>
              /\ entities[k][i].data = mission
              /\ \A s \in Range(entities[k][i].states) : s.src = mission
        /\ \A id \in DOMAIN markersByID :
              /\ markersByID[id].data = mission
              /\ \A s \in Range(markersByID[id].states) :
                    s.src = mission /\ s.of = markersByID[id].name

\* The backend is empty at the start.
LEMMA InitIsolated == RInit => Isolated
    BY DEF RInit, BInit, Isolated

\* If the game drains, what is recorded was sent in the mission that runs.
LEMMA StepIsolated ==
    ASSUME WaitsForOk, Types, Phases, Drained, Isolated, RNext
    PROVE  Isolated'
<1> SUFFICES ASSUME drains PROVE Isolated'
  <2>1. drains' = drains
    BY DEF RNext, Game, Start, Handlers, CreateEntity, CreateEntityBackend, CreateMarker,
        CreateMarkerCache, Send, SendStart, SendSave, StartTake, ResetMarkerCache,
        ResetEntityCache, StartBackend, StartOk, EndBackend, StateTake, StateUpdate,
        StateRecord, DeleteTake, EventTake, MoveTake, MoveRecord, UnmarkTake, gvars
  <2> QED
    BY <2>1 DEF Isolated
<1> USE DEF Isolated
<1>0. BackendTypes /\ ActiveKinds \subseteq Kinds
    BY RecorderAssumption DEF Types
<1>1. CASE UNCHANGED <<mission, entities, markersByID>>
    BY <1>1
<1>2. CASE CreateEntityBackend
  <2>1. game.kind \in Kinds /\ game.id \in ObjIds /\ game.src \in Missions
        /\ game # Resting /\ game.src = current
    BY <1>2, GameIs DEF CreateEntityBackend, Phases, Resting
  <2>2. /\ UNCHANGED <<mission, markersByID>>
        /\ entities'[game.kind][game.id] = NewRecord(game.src)
        /\ \A l \in Kinds, j \in ObjIds :
              (l # game.kind \/ j # game.id) => entities'[l][j] = entities[l][j]
    BY <1>0, <1>2, <2>1, AddEntityEffect DEF CreateEntityBackend
  <2>3. mission # None => mission = game.src
    BY <2>1, WhileRecording
  <2>4. NewRecord(game.src).data = game.src /\ Range(NewRecord(game.src).states) = {}
    BY EmptyRange DEF NewRecord
  <2> QED
    BY <2>2, <2>3, <2>4
<1>3. ASSUME NEW n \in Names, CreateMarker(n) PROVE Isolated'
  <2>1. current \in Missions /\ game = Resting
    BY <1>3 DEF CreateMarker, Recording, Types, GameTypes
  <2>2. PICK x :
            /\ UNCHANGED <<mission, entities>>
            /\ DOMAIN markersByID' = DOMAIN markersByID \union {x}
            /\ \A y \in DOMAIN markersByID : y # x /\ markersByID'[y] = markersByID[y]
            /\ markersByID'[x] = NewMarker(n, current)
    BY <1>0, <1>3, <2>1, AddMarkerEffect DEF CreateMarker
  <2>3. mission # None => mission = current
    BY <1>3, WhileRecording DEF CreateMarker
  <2>4. NewMarker(n, current).data = current /\ Range(NewMarker(n, current).states) = {}
    BY EmptyRange DEF NewMarker
  <2> QED
    BY <2>2, <2>3, <2>4
<1>4. CASE StartBackend
  <2>1. Emptied
    BY <1>4 DEF StartBackend, StartMission, resetCollections, Emptied
  <2>2. \A k \in Kinds, i \in ObjIds : entities'[k][i] = None
    BY <2>1 DEF Emptied, NoEntities
  <2> QED
    BY <2>1, <2>2 DEF Emptied
<1>5. CASE EndBackend
    BY <1>0, <1>1, <1>5, EndEffect DEF EndBackend, Tables
<1>6. ASSUME NEW k \in ActiveKinds, StateRecord(k) PROVE Isolated'
  <2>1. k \in Kinds /\ stater[k] # Resting /\ stater[k].ev.id \in ObjIds
        /\ Sample(stater[k].ev.src, stater[k].ev.id) \in Samples
    BY <1>0, <1>6, StaterIs DEF StateRecord
  <2>2. EntitiesKept({Sample(stater[k].ev.src, stater[k].ev.id)})
    BY <1>0, <1>6, <2>1, RecordSampleEffect DEF StateRecord
  <2>3. mission # None => Sample(stater[k].ev.src, stater[k].ev.id).src = mission
    BY <2>1 DEF Sample, Drained
  <2> QED
    BY <2>2, <2>3 DEF EntitiesKept
<1>7. ASSUME NEW k \in ActiveKinds, DeleteTake(k) PROVE Isolated'
  <2>1. k \in Kinds /\ Head(deleteq[k]) \in [id : ObjIds, frame : DeleteFrames]
    BY <1>7, RecorderAssumption, Received DEF DeleteTake, Types, QueueTypes
  <2>2. EntitiesKept({})
    BY <1>0, <1>7, <2>1, DeleteEntityEffect DEF DeleteTake
  <2> QED
    BY <2>2 DEF EntitiesKept
<1>8. CASE MoveRecord
  <2>1. Sample(mover.ev.src, mover.ev.name) \in Samples /\ mover # Resting
    BY <1>8, MoverIs DEF MoveRecord
  <2>2. MarkersKept(mover.id, {Sample(mover.ev.src, mover.ev.name)})
    BY <1>0, <1>8, <2>1, RecordMarkerStateEffect DEF MoveRecord
  <2>3. mission # None =>
            /\ Sample(mover.ev.src, mover.ev.name).src = mission
            /\ Sample(mover.ev.src, mover.ev.name).of = markersByID[mover.id].name
    BY <2>1 DEF Sample, Drained, HasRecord
  <2> QED
    BY <2>2, <2>3 DEF MarkersKept
<1>9. CASE UnmarkTake
  <2>1. Head(unmarkq) \in [name : Names, frame : DeleteFrames]
    BY <1>9, Received DEF UnmarkTake, Types, QueueTypes
  <2>2. MarkersKept(markers[Head(unmarkq).name], {})
    BY <1>0, <1>9, <2>1, DeleteMarkerEffect DEF UnmarkTake
  <2> QED
    BY <2>2 DEF MarkersKept
<1> QED
    BY <1>1, <1>2, <1>3, <1>4, <1>5, <1>6, <1>7, <1>8, <1>9
    DEF RNext, Game, Start, Handlers, CreateEntity, CreateMarkerCache, Send, SendStart,
        SendSave, StartTake, ResetMarkerCache, ResetEntityCache, StartOk, StateTake,
        StateUpdate, EventTake, RecordEvent, MoveTake, bvars

-----------------------------------------------------------------------------
(* The theorems *)

IInv == /\ Types /\ Phases /\ Sources
        /\ EntitiesCached /\ MarkersCached /\ Associated
        /\ Drained /\ Isolated

\* The parts of the invariant together.
LEMMA InitIInv == RInit => IInv
    BY InitTypes, InitPhases, InitCached, InitAssociated, InitDrained, InitIsolated DEF IInv

\* A stuttering step keeps it ...
LEMMA StutterIInv == IInv /\ UNCHANGED rvars => IInv'
<1> SUFFICES ASSUME IInv, UNCHANGED rvars PROVE IInv'
    OBVIOUS
<1>1. Types'
    BY StepTypes DEF IInv
<1>2. UNCHANGED <<mission, entities, markers, markersByID, entityCache, markerCache, stateq,
                  moveq, startq, stater, mover, starter, drains, game, current, started,
                  acked, created, lost>>
    BY DEF rvars, bvars, caches, queues, gorout, gvars
<1>3. (Phases /\ Sources)'
    BY <1>2 DEF IInv, Phases, Sources, Starting, Before, Past
<1>4. (EntitiesCached /\ MarkersCached)'
    BY <1>2 DEF IInv, EntitiesCached, MarkersCached, InBackend, Adding, Setting, HasRecord
<1>5. Associated'
    BY <1>2 DEF IInv, Associated, Adding, Setting
<1>6. Drained' /\ Isolated'
    BY <1>2 DEF IInv, Drained, Isolated, Starting, HasRecord
<1> QED
    BY <1>1, <1>3, <1>4, <1>5, <1>6 DEF IInv

\* ... and so does every other.
LEMMA StepIInv == WaitsForOk /\ IInv /\ [RNext]_rvars => IInv'
<1> SUFFICES ASSUME WaitsForOk, IInv, RNext PROVE IInv'
    BY StutterIInv
<1>1. Types /\ Phases /\ Sources /\ EntitiesCached /\ MarkersCached /\ Associated
      /\ Drained /\ Isolated
    BY DEF IInv
<1> QED
    BY <1>1, StepTypes, StepPhases, StepSources, StepEntitiesCached, StepMarkersCached,
       StepAssociated, StepDrained, StepIsolated DEF IInv

\* The invariant holds in every reachable state of a game that waits.
LEMMA Invariance == WaitsForOk => (RSpec => []IInv)
<1>1. SUFFICES ASSUME WaitsForOk PROVE RSpec => []IInv
    OBVIOUS
<1>2. IInv /\ [RNext]_rvars => IInv'
    BY <1>1, StepIInv
<1> QED
    BY <1>2, InitIInv, PTL DEF RSpec

\* "Entity creation - sync (need to cache before states arrive)"
\* (RegisterHandlers): whatever the game creates and sends, and however the
\* goroutines of the handlers interleave, no sample of the running mission is
\* refused for want of its entity or marker, or discarded by the backend.
THEOREM SamplesAreAssociated == WaitsForOk => (RSpec => []NoSampleLost)
<1>1. IInv => NoSampleLost
    BY DEF IInv, Associated, NoSampleLost
<1> QED
    BY <1>1, Invariance, PTL

\* Between two commands of a mission everything in the caches of handleNewSoldier,
\* handleMarkerCreate, ... can be used in the backend: an entity has its
\* record, and a marker ID is the one its name has.
THEOREM CachesAreUsable == WaitsForOk => (RSpec => []CachesMatchBackend)
<1>1. IInv => CachesMatchBackend
    BY DEF IInv, CachesMatchBackend, Steady, EntitiesCached, InBackend, Adding,
           MarkersCached, Setting, Resting
<1> QED
    BY <1>1, Invariance, PTL

\* EntityCache is reset by handleNewMission: for a game that drains the queues
\* before a start it holds the running mission only ("all entities in the
\* current mission", main.go).
THEOREM CacheIsOfItsMission == WaitsForOk => (RSpec => []DrainedCacheIsCurrent)
<1>1. IInv => DrainedCacheIsCurrent
    BY DEF IInv, Drained, DrainedCacheIsCurrent, CacheHoldsCurrentMission, Steady
<1> QED
    BY <1>1, Invariance, PTL

\* An item of a channel is one of the things it holds.
LEMMA InRange == \A q : \A j \in DOMAIN q : q[j] \in Range(q)
    BY DEF Range

\* Nothing that an earlier mission recorded is exported with a later one, if the
\* game drains the queues before it starts the next (StartMission of the
\* memory backend forgets the records, the queues and caches outlive them).
THEOREM MissionsAreIsolated == WaitsForOk => (RSpec => []MissionIsolation)
<1>1. IInv => MissionIsolation
    BY InRange DEF IInv, Isolated, MissionIsolation
<1> QED
    BY <1>1, Invariance, PTL

\* A marker state is recorded by an ID that was looked up earlier
\* (handleMarkerMove): during a mission that is the ID of a record of the same
\* name, however often the name is created again.
THEOREM MarkersGetTheirStates == WaitsForOk => (RSpec => []MarkerStatesAreItsOwn)
<1>1. IInv => MarkerStatesAreItsOwn
    BY InRange DEF IInv, Isolated, MarkerStatesAreItsOwn
<1> QED
    BY <1>1, Invariance, PTL

-----------------------------------------------------------------------------
(* Recording: what is pending *)

\* Append and Tail as functions of their places.
LEMMA AppendIs ==
    ASSUME NEW A, NEW r \in Seq(A), NEW x \in A, NEW n \in Nat, Len(r) = n
    PROVE  Append(r, x) = [i \in 1..(n + 1) |-> IF i = n + 1 THEN x ELSE r[i]]
<1> DEFINE a == Append(r, x)
<1>1. a \in Seq(A) /\ Len(a) = n + 1
    OBVIOUS
<1>2. \A i \in 1..(n + 1) : a[i] = IF i = n + 1 THEN x ELSE r[i]
    OBVIOUS
<1> HIDE DEF a
<1>3. a = [i \in 1..(n + 1) |-> a[i]]
    BY <1>1
<1> QED
    BY <1>2, <1>3, Zenon DEF a

\* (The same of a message taken away.)
LEMMA TailIs ==
    ASSUME NEW A, NEW r \in Seq(A), NEW n \in Nat, Len(r) = n, n > 0
    PROVE  /\ r # <<>> /\ Head(r) = r[1]
           /\ Tail(r) = [i \in 1..(n - 1) |-> r[i + 1]]
<1> DEFINE a == Tail(r)
<1>1. r # <<>> /\ Head(r) = r[1]
    OBVIOUS
<1>2. a \in Seq(A) /\ Len(a) = n - 1 /\ n - 1 \in Nat
    BY <1>1
<1>3. \A i \in 1..(n - 1) : a[i] = r[i + 1]
    BY <1>1
<1> HIDE DEF a
<1>4. a = [i \in 1..(n - 1) |-> a[i]]
    BY <1>2
<1> QED
    BY <1>1, <1>3, <1>4, Zenon DEF a

\* Nothing is pending when nothing waits.
LEMMA EmptyItems == ASSUME NEW s PROVE Items(s, <<>>) = <<>>
    BY DEF Items

\* The items of a channel follow its messages: one more is put at its end ...
LEMMA ItemsAppended ==
    ASSUME NEW S, NEW w \in Seq(S), NEW e \in S, NEW s
    PROVE  Items(s, Append(w, e)) = Append(Items(s, w), Sample(e.src, Thing(s, e)))
<1> DEFINE f(m) == Sample(m.src, Thing(s, m))
<1>1. PICK n \in Nat : Len(w) = n /\ DOMAIN w = 1..n
    OBVIOUS
<1>2. /\ DOMAIN Append(w, e) = 1..(n + 1)
      /\ Append(w, e)[n + 1] = e
      /\ \A i \in 1..n : Append(w, e)[i] = w[i]
    BY <1>1
<1>3. /\ Items(s, w) = [i \in 1..n |-> f(w[i])]
      /\ Items(s, Append(w, e)) = [i \in 1..(n + 1) |-> f(Append(w, e)[i])]
    BY <1>1, <1>2 DEF Items
<1> HIDE DEF f
<1> DEFINE r == [i \in 1..n |-> f(w[i])]
<1>4. /\ r \in Seq({f(w[i]) : i \in 1..n} \union {f(e)}) /\ Len(r) = n
      /\ f(e) \in {f(w[i]) : i \in 1..n} \union {f(e)}
    OBVIOUS
<1>5. Append(r, f(e)) = [i \in 1..(n + 1) |-> IF i = n + 1 THEN f(e) ELSE r[i]]
  <2> HIDE DEF r
  <2>1. PICK A : r \in Seq(A) /\ f(e) \in A
    BY <1>4
  <2> QED
    BY <1>4, <2>1, AppendIs
<1>6. [i \in 1..(n + 1) |-> f(Append(w, e)[i])]
         = [i \in 1..(n + 1) |-> IF i = n + 1 THEN f(e) ELSE r[i]]
  <2>1. ASSUME NEW i \in 1..(n + 1)
        PROVE  f(Append(w, e)[i]) = IF i = n + 1 THEN f(e) ELSE r[i]
    <3>1. CASE i = n + 1
      BY <1>2, <3>1
    <3>2. CASE i # n + 1
      <4>1. i \in 1..n
        BY <3>2
      <4> QED
        BY <1>2, <3>2, <4>1
    <3> QED
      BY <3>1, <3>2
  <2> HIDE DEF r
  <2> QED
    BY <2>1, Zenon
<1>7. Append(Items(s, w), f(e)) = Append(r, f(e))
    BY <1>3
<1> HIDE DEF r
<1> QED
    BY <1>3, <1>5, <1>6, <1>7, Zenon DEF f

\* ... and the oldest is taken away.
LEMMA ItemsTaken ==
    ASSUME NEW S, NEW w \in Seq(S), w # <<>>, NEW s
    PROVE  /\ Items(s, w) # <<>>
           /\ Head(Items(s, w)) = Sample(Head(w).src, Thing(s, Head(w)))
           /\ Items(s, Tail(w)) = Tail(Items(s, w))
<1> DEFINE f(m) == Sample(m.src, Thing(s, m))
<1>1. PICK n \in Nat : Len(w) = n /\ DOMAIN w = 1..n /\ n > 0
    OBVIOUS
<1>2. /\ DOMAIN Tail(w) = 1..(n - 1) /\ Head(w) = w[1]
      /\ \A i \in 1..(n - 1) : Tail(w)[i] = w[i + 1]
    BY <1>1
<1>3. /\ Items(s, w) = [i \in 1..n |-> f(w[i])]
      /\ Items(s, Tail(w)) = [i \in 1..(n - 1) |-> f(Tail(w)[i])]
    BY <1>1, <1>2 DEF Items
<1> HIDE DEF f
<1> DEFINE r == [i \in 1..n |-> f(w[i])]
<1>4. r \in Seq({f(w[i]) : i \in 1..n}) /\ Len(r) = n
    BY <1>1
<1>5. r[1] = f(Head(w)) /\ \A i \in 1..(n - 1) : r[i + 1] = f(Tail(w)[i])
    BY <1>1, <1>2
<1> HIDE DEF r
<1>6. r # <<>> /\ Head(r) = r[1] /\ Tail(r) = [i \in 1..(n - 1) |-> r[i + 1]]
    BY <1>1, <1>4, TailIs
<1>7. [i \in 1..(n - 1) |-> r[i + 1]] = [i \in 1..(n - 1) |-> f(Tail(w)[i])]
    BY <1>5, Zenon
<1>8. Items(s, w) = r
    BY <1>3 DEF r
<1> QED
    BY <1>3, <1>5, <1>6, <1>7, <1>8, Zenon DEF f

\* A message in hand comes before those in the channel.
LEMMA HandAndChannel ==
    ASSUME NEW S, NEW q \in Seq(S), NEW e \in S
    PROVE  /\ <<>> \o q = q
           /\ <<e>> \o q \in Seq(S) /\ <<e>> \o q # <<>>
           /\ Head(<<e>> \o q) = e /\ Tail(<<e>> \o q) = q
<1>1. <<>> \o q = q
    OBVIOUS
<1>2. <<e>> \o q \in Seq(S) /\ <<e>> \o q # <<>>
    OBVIOUS
<1>3. Head(<<e>> \o q) = e /\ Tail(<<e>> \o q) = q
    OBVIOUS
<1> QED
    BY <1>1, <1>2, <1>3

\* The message in hand, put back before the rest, gives the channel as it was.
LEMMA TakenInHand ==
    ASSUME NEW S, NEW q \in Seq(S), q # <<>>
    PROVE  <<Head(q)>> \o Tail(q) = q
    OBVIOUS

\* A message sent comes behind the one in hand.
LEMMA SentBehind ==
    ASSUME NEW S, NEW q \in Seq(S), NEW e \in S, NEW d \in S
    PROVE  <<e>> \o Append(q, d) = Append(<<e>> \o q, d)
    OBVIOUS

-----------------------------------------------------------------------------
(* Recording: its steps, one at a time, in terms of the pipeline *)

\* The markers have a stream of their own.
LEMMA MarkerIsNoKind == "marker" \notin Kinds
    BY DEF Kinds

PendingKept == \A t \in Streams : Pending(t)' = Pending(t)
RecordsKept == \A t \in Streams : Records(t)' = Records(t)
OthersPending(s) == \A t \in Streams : t # s => Pending(t)' = Pending(t)
OtherRecords(s) == \A t \in Streams : t # s => Records(t)' = Records(t)

\* A step that keeps streams, records and missions is nothing to Recording.
LEMMA NothingHappens ==
    ASSUME PendingKept, RecordsKept, UNCHANGED <<drains, current, mission>>
    PROVE  UNCHANGED Recordings!cvars
    BY Zenon DEF PendingKept, RecordsKept, Recordings!cvars

\* The game goes to a mission; if it is orderly, nothing is pending.
LEMMA AnnounceHappens ==
    ASSUME NEW m \in Missions, current' = m, PendingKept, RecordsKept,
           UNCHANGED <<drains, mission>>, drains => \A t \in Streams : Pending(t) = <<>>
    PROVE  Recordings!CNext
<1>1. Recordings!Announce(m)
    BY DEF PendingKept, RecordsKept, Recordings!Announce
<1> QED
    BY <1>1 DEF Recordings!CNext

\* The mission the game is in is recorded from now on.
LEMMA BeginHappens ==
    ASSUME current # None, mission' = current, PendingKept, UNCHANGED <<drains, current>>,
           \A t \in Streams : Records(t)' = [key \in {} |-> None]
    PROVE  Recordings!CNext
<1>1. Recordings!Begin
    BY DEF PendingKept, Recordings!Begin, Recordings!NoRecords
<1> QED
    BY <1>1 DEF Recordings!CNext

\* No mission is recorded any more.
LEMMA EndHappens ==
    ASSUME mission' = None, PendingKept, UNCHANGED <<drains, current>>,
           \A t \in Streams : Records(t)' = [key \in {} |-> None]
    PROVE  Recordings!CNext
<1>1. Recordings!End
    BY DEF PendingKept, Recordings!End, Recordings!NoRecords
<1> QED
    BY <1>1 DEF Recordings!CNext

\* A stream gets a sample of the current mission.
LEMMA SendHappens ==
    ASSUME NEW s \in Streams, NEW x \in ObjIds \union Names, current # None,
           Pending(s) \in Seq(Samples), Pending(s)' = Append(Pending(s), Sample(current, x)),
           OthersPending(s), RecordsKept, UNCHANGED <<drains, current, mission>>
    PROVE  Recordings!CNext
<1> DEFINE P == [t \in Streams |-> Pending(t)]
<1>1. P' = [P EXCEPT ![s] = Append(@, [src |-> current, of |-> x])]
    BY DEF OthersPending, Sample
<1>2. Recordings!Send(s, x)
    BY <1>1 DEF RecordsKept, Recordings!Send
<1> QED
    BY <1>2 DEF Recordings!CNext

\* The oldest sample of a stream goes, around a change of missions.
LEMMA DiscardHappens ==
    ASSUME NEW s \in Streams, NEW x, NEW m, Pending(s) # <<>>,
           Head(Pending(s)) = Sample(m, x), ~Matters(m),
           Pending(s)' = Tail(Pending(s)),
           OthersPending(s), RecordsKept, UNCHANGED <<drains, current, mission>>
    PROVE  Recordings!CNext
<1> DEFINE P == [t \in Streams |-> Pending(t)]
<1>1. P' = [P EXCEPT ![s] = Tail(@)]
    BY DEF OthersPending
<1>2. Head(Pending(s)).src = m
    BY DEF Sample
<1>3. Recordings!Discard(s)
    BY <1>1, <1>2 DEF RecordsKept, Recordings!Discard, Matters
<1> QED
    BY <1>3 DEF Recordings!CNext

\* The oldest sample of a stream goes to the end of a record.
LEMMA RecordHappens ==
    ASSUME NEW s \in Streams, NEW key \in DOMAIN Records(s), NEW x, NEW m, Pending(s) # <<>>,
           Head(Pending(s)) = Sample(m, x),
           drains => Records(s)[key].of = x /\ mission = m,
           Records(s)' = [Records(s) EXCEPT ![key].samples = Append(@, Sample(m, x))],
           Pending(s)' = Tail(Pending(s)),
           OthersPending(s), OtherRecords(s), UNCHANGED <<drains, current, mission>>
    PROVE  Recordings!CNext
<1> DEFINE P == [t \in Streams |-> Pending(t)]
           R == [t \in Streams |-> Records(t)]
<1>1. P' = [P EXCEPT ![s] = Tail(@)]
    BY DEF OthersPending
<1>2. Head(Pending(s)).src = m /\ Head(Pending(s)).of = x
    BY DEF Sample
<1>3. R' = [R EXCEPT ![s] = [Records(s) EXCEPT ![key].samples =
                                Append(@, Head(Pending(s)))]]
    BY DEF OtherRecords
<1>4. R' = [R EXCEPT ![s][key].samples = Append(@, Head(Pending(s)))]
    BY <1>3
<1>5. Recordings!Record(s, key)
    BY <1>1, <1>2, <1>4 DEF Recordings!Record
<1> QED
    BY <1>5 DEF Recordings!CNext

\* Records with one more, or with one that replaces that of the same key.
WithRecord(rs, key, x, m) ==
    [k \in DOMAIN rs \union {key} |->
        IF k = key THEN [of |-> x, src |-> m, samples |-> <<>>] ELSE rs[k]]

\* A record is made, of a new thing or of the thing it was of.
LEMMA MakeRecordHappens ==
    ASSUME NEW s \in Streams, NEW key, NEW x \in ObjIds \union Names, mission = current,
           key \in DOMAIN Records(s) => Records(s)[key].of = x,
           Records(s)' = WithRecord(Records(s), key, x, current),
           PendingKept, OtherRecords(s), UNCHANGED <<drains, current, mission>>
    PROVE  Recordings!CNext
<1> DEFINE R == [t \in Streams |-> Records(t)]
<1>1. R' = [R EXCEPT ![s] = WithRecord(@, key, x, current)]
    BY DEF OtherRecords
<1>2. key \in DOMAIN R'[s]
    BY DEF WithRecord
<1>3. Recordings!MakeRecord(s, key, x)
    BY <1>1 DEF WithRecord, PendingKept, Recordings!MakeRecord
<1> QED
    BY <1>2, <1>3 DEF Recordings!CNext

-----------------------------------------------------------------------------
(* Recording: what a goroutine and its channel hold *)

Queue(w, q) == InHand(w) \o q

\* A message is sent to the end of a channel, taken into hand, refused or dealt with.
LEMMA QueueSteps ==
    ASSUME NEW S, NEW q \in Seq(S), NEW w, w # Resting => w.ev \in S
    PROVE  /\ Queue(w, q) \in Seq(S)
           /\ \A e \in S : Queue(w, Append(q, e)) = Append(Queue(w, q), e)
           /\ (w = Resting /\ q # <<>>) =>
                 /\ Queue(w, q) # <<>> /\ Head(Queue(w, q)) = Head(q)
                 /\ Queue(w, Tail(q)) = Tail(Queue(w, q))
                 /\ \A v : (v # Resting /\ v.ev = Head(q)) =>
                       Queue(v, Tail(q)) = Queue(w, q)
           /\ w # Resting =>
                 /\ Queue(w, q) # <<>> /\ Head(Queue(w, q)) = w.ev
                 /\ Queue(Resting, q) = Tail(Queue(w, q))
<1>1. \A r \in Seq(S) : Queue(Resting, r) = r
    BY DEF Queue, InHand
<1>2. CASE w = Resting
  <2>1. Queue(w, q) = q
    BY <1>1, <1>2
  <2>2. \A e \in S : Append(q, e) \in Seq(S)
    OBVIOUS
  <2>3. \A e \in S : Queue(w, Append(q, e)) = Append(Queue(w, q), e)
    BY <1>1, <1>2, <2>1, <2>2
  <2>4. ASSUME q # <<>>
        PROVE  /\ Tail(q) \in Seq(S)
               /\ \A v : (v # Resting /\ v.ev = Head(q)) => Queue(v, Tail(q)) = q
    BY <2>4, TakenInHand DEF Queue, InHand
  <2>5. q # <<>> => Queue(w, Tail(q)) = Tail(Queue(w, q))
    BY <1>1, <1>2, <2>1, <2>4
  <2> QED
    BY <1>2, <2>1, <2>3, <2>4, <2>5
<1>3. CASE w # Resting
  <2>1. Queue(w, q) = <<w.ev>> \o q
    BY <1>3 DEF Queue, InHand
  <2>2. \A e \in S : Queue(w, Append(q, e)) = Append(Queue(w, q), e)
    BY <1>3, SentBehind DEF Queue, InHand
  <2> QED
    BY <1>1, <1>3, <2>1, <2>2, HandAndChannel
<1> QED
    BY <1>2, <1>3

Messages(s) == IF s = "marker" THEN MoveMsg ELSE StateMsg

\* A stream is a channel with its goroutine.
LEMMA WaitingIs ==
    /\ Waiting("marker") = Queue(mover, moveq)
    /\ \A k \in Kinds : Waiting(k) = Queue(stater[k], stateq[k])
    BY MarkerIsNoKind DEF Waiting, Queue

\* (The same in the next state.)
LEMMA WaitingWillBe ==
    /\ Waiting("marker")' = Queue(mover', moveq')
    /\ \A k \in Kinds : Waiting(k)' = Queue(stater'[k], stateq'[k])
    BY MarkerIsNoKind DEF Waiting, Queue, InHand

\* The messages of a stream are of its type, its items are samples.
LEMMA StreamTypes ==
    ASSUME Types, NEW s \in Streams
    PROVE  Waiting(s) \in Seq(Messages(s)) /\ Pending(s) \in Seq(Samples)
<1>1. Waiting(s) \in Seq(Messages(s))
  <2>1. CASE s = "marker"
    <3>1. moveq \in Seq(MoveMsg) /\ (mover # Resting => mover.ev \in MoveMsg)
      BY MoverIs DEF Types, QueueTypes
    <3>2. Queue(mover, moveq) \in Seq(MoveMsg)
      BY <3>1, QueueSteps
    <3> QED
      BY <2>1, <3>2, WaitingIs DEF Messages
  <2>2. CASE s \in Kinds
    <3>1. stateq[s] \in Seq(StateMsg) /\ (stater[s] # Resting => stater[s].ev \in StateMsg)
      BY <2>2, StaterIs DEF Types, QueueTypes
    <3>2. Queue(stater[s], stateq[s]) \in Seq(StateMsg)
      BY <3>1, QueueSteps
    <3> QED
      BY <2>2, <3>2, WaitingIs, MarkerIsNoKind DEF Messages
  <2> QED
    BY <2>1, <2>2 DEF Streams
<1>2. \A e \in Messages(s) : Sample(e.src, Thing(s, e)) \in Samples
    BY RecorderAssumption DEF Messages, Thing, Sample, MoveMsg, StateMsg
<1>3. \A w \in Seq(Messages(s)) : Items(s, w) \in Seq(Samples)
  <2> TAKE w \in Seq(Messages(s))
  <2>1. \A n \in DOMAIN w : w[n] \in Messages(s)
    OBVIOUS
  <2>2. PICK n \in Nat : DOMAIN w = 1..n
    OBVIOUS
  <2>3. Items(s, w) \in [1..n -> Samples]
    BY <1>2, <2>1, <2>2 DEF Items
  <2> QED
    BY <2>3
<1> QED
    BY <1>1, <1>3 DEF Pending

-----------------------------------------------------------------------------
(* Recording: what the steps do to the streams *)

\* What waits as it did is pending as it was.
LEMMA WaitingStays ==
    ASSUME NEW s, Waiting(s)' = Waiting(s)
    PROVE  Pending(s)' = Pending(s)
    BY Zenon DEF Pending, Items

\* (The definition, to be cited.)
LEMMA PendingIs == \A s : Pending(s) = Items(s, Waiting(s))
    BY DEF Pending

\* (The same in the next state.)
LEMMA PendingWillBe ==
    ASSUME NEW s, NEW w, Waiting(s)' = w
    PROVE  Pending(s)' = Items(s, w)
    BY Zenon DEF Pending, Items

\* One message more is one sample more.
LEMMA WaitingGrows ==
    ASSUME Types, NEW s \in Streams, NEW e \in Messages(s),
           Waiting(s)' = Append(Waiting(s), e)
    PROVE  Pending(s)' = Append(Pending(s), Sample(e.src, Thing(s, e)))
<1>1. Waiting(s) \in Seq(Messages(s))
    BY StreamTypes
<1>2. Items(s, Append(Waiting(s), e))
         = Append(Items(s, Waiting(s)), Sample(e.src, Thing(s, e)))
    BY <1>1, ItemsAppended
<1> QED
    BY <1>2, PendingIs, PendingWillBe

\* The oldest message is the oldest sample.
LEMMA WaitingShrinks ==
    ASSUME Types, NEW s \in Streams, Waiting(s) # <<>>,
           Waiting(s)' = Tail(Waiting(s))
    PROVE  /\ Pending(s) # <<>>
           /\ Head(Pending(s)) = Sample(Head(Waiting(s)).src, Thing(s, Head(Waiting(s))))
           /\ Pending(s)' = Tail(Pending(s))
<1>1. Waiting(s) \in Seq(Messages(s))
    BY StreamTypes
<1>2. /\ Items(s, Waiting(s)) # <<>>
      /\ Head(Items(s, Waiting(s))) = Sample(Head(Waiting(s)).src, Thing(s, Head(Waiting(s))))
      /\ Items(s, Tail(Waiting(s))) = Tail(Items(s, Waiting(s)))
    BY <1>1, ItemsTaken
<1> QED
    BY <1>2, PendingIs, PendingWillBe

\* A channel that nobody touches keeps its samples.
LEMMA NobodyTouches ==
    ASSUME UNCHANGED <<stater, stateq, mover, moveq>>
    PROVE  PendingKept
<1>1. \A t \in Streams : Waiting(t)' = Waiting(t)
    BY WaitingIs, WaitingWillBe DEF Streams
<1> QED
    BY <1>1, WaitingStays DEF PendingKept

\* The streams of the other kinds, when one kind's goroutine or channel changes ...
LEMMA OtherKinds ==
    ASSUME NEW k \in Kinds, UNCHANGED <<mover, moveq>>,
           \A l \in Kinds : l # k => stater'[l] = stater[l] /\ stateq'[l] = stateq[l]
    PROVE  OthersPending(k)
<1>1. \A t \in Streams : t # k => Waiting(t)' = Waiting(t)
    BY WaitingIs, WaitingWillBe DEF Streams
<1> QED
    BY <1>1, WaitingStays DEF OthersPending

\* ... and those of all kinds, when that of the markers does.
LEMMA OtherThanMarkers ==
    ASSUME UNCHANGED <<stater, stateq>>
    PROVE  OthersPending("marker")
<1>1. \A t \in Streams : t # "marker" => Waiting(t)' = Waiting(t)
    BY WaitingIs, WaitingWillBe DEF Streams
<1> QED
    BY <1>1, WaitingStays DEF OthersPending

\* All streams are as they were if one is and the others are.
LEMMA OneAndOthers ==
    ASSUME NEW s \in Streams, OthersPending(s), Waiting(s)' = Waiting(s)
    PROVE  PendingKept
    BY WaitingStays DEF OthersPending, PendingKept

\* The marker stream and those of the kinds.
LEMMA StreamsAre == "marker" \in Streams /\ Kinds \subseteq Streams
    BY DEF Streams

-----------------------------------------------------------------------------
(* Recording: what the steps do to the records *)

\* Records as functions of their keys, told apart by nothing else.
LEMMA SameEntityRecords ==
    ASSUME NEW e, NEW f,
           \A i \in ObjIds : f[i] = None <=> e[i] = None,
           \A i \in ObjIds : e[i] # None => f[i].data = e[i].data /\ f[i].states = e[i].states
    PROVE  EntityRecords(f) = EntityRecords(e)
<1>1. {j \in ObjIds : f[j] # None} = {j \in ObjIds : e[j] # None}
    OBVIOUS
<1> QED
    BY <1>1, Zenon DEF EntityRecords

\* (The same of markers.)
LEMMA SameMarkerRecords ==
    ASSUME NEW e, NEW f, DOMAIN f = DOMAIN e,
           \A x \in DOMAIN e : /\ f[x].name = e[x].name /\ f[x].data = e[x].data
                               /\ f[x].states = e[x].states
    PROVE  MarkerRecords(f) = MarkerRecords(e)
    BY Zenon DEF MarkerRecords

\* A record is made.
LEMMA EntityRecordAdded ==
    ASSUME NEW e, NEW f, NEW i \in ObjIds, NEW m, f[i] # None,
           f[i].data = m, f[i].states = <<>>,
           \A j \in ObjIds : j # i => f[j] = e[j]
    PROVE  EntityRecords(f) = WithRecord(EntityRecords(e), i, i, m)
<1> DEFINE D == {j \in ObjIds : e[j] # None}
           r == EntityRecords(e)
           h(k) == IF k = i THEN [of |-> i, src |-> m, samples |-> <<>>] ELSE r[k]
<1>1. {j \in ObjIds : f[j] # None} = D \union {i}
    OBVIOUS
<1>2. DOMAIN r = D
    BY DEF EntityRecords
<1>3. \A k \in D \union {i} :
          [of |-> k, src |-> f[k].data, samples |-> f[k].states] = h(k)
  <2> TAKE k \in D \union {i}
  <2>1. CASE k = i
    BY <2>1
  <2>2. CASE k # i
    <3>1. r[k] = [of |-> k, src |-> e[k].data, samples |-> e[k].states]
      BY <2>2 DEF EntityRecords
    <3> QED
      BY <2>2, <3>1
  <2> QED
    BY <2>1, <2>2
<1>4. EntityRecords(f) = [k \in D \union {i} |->
                             [of |-> k, src |-> f[k].data, samples |-> f[k].states]]
    BY <1>1, Zenon DEF EntityRecords
<1>5. WithRecord(r, i, i, m) = [k \in D \union {i} |-> h(k)]
    BY <1>2, Zenon DEF WithRecord
<1> HIDE DEF D, h
<1> QED
    BY <1>3, <1>4, <1>5, Zenon

MarkerAdded(e, f, i, n, m) ==
    /\ DOMAIN f = DOMAIN e \union {i}
    /\ f[i].name = n /\ f[i].data = m /\ f[i].states = <<>>
    /\ \A x \in DOMAIN e : x # i /\ f[x] = e[x]

\* (The same of a marker, which gets a key that was not there.)
LEMMA MarkerRecordAdded ==
    ASSUME NEW e, NEW f, NEW i, NEW n, NEW m, MarkerAdded(e, f, i, n, m)
    PROVE  /\ MarkerRecords(f) = WithRecord(MarkerRecords(e), i, n, m)
           /\ i \notin DOMAIN MarkerRecords(e)
<1> DEFINE D == DOMAIN e
           r == MarkerRecords(e)
           h(k) == IF k = i THEN [of |-> n, src |-> m, samples |-> <<>>] ELSE r[k]
<1>1. /\ DOMAIN f = D \union {i}
      /\ f[i].name = n /\ f[i].data = m /\ f[i].states = <<>>
      /\ \A x \in D : x # i /\ f[x] = e[x]
    BY DEF MarkerAdded
<1>2. DOMAIN r = D
    BY DEF MarkerRecords
<1>3. \A k \in D \union {i} :
          [of |-> f[k].name, src |-> f[k].data, samples |-> f[k].states] = h(k)
  <2> TAKE k \in D \union {i}
  <2>1. CASE k = i
    BY <1>1, <2>1
  <2>2. CASE k # i
    <3>1. r[k] = [of |-> e[k].name, src |-> e[k].data, samples |-> e[k].states]
      BY <2>2 DEF MarkerRecords
    <3> QED
      BY <1>1, <2>2, <3>1
  <2> QED
    BY <2>1, <2>2
<1>4. MarkerRecords(f) = [k \in D \union {i} |->
                             [of |-> f[k].name, src |-> f[k].data, samples |-> f[k].states]]
    BY <1>1, Zenon DEF MarkerRecords
<1>5. WithRecord(r, i, n, m) = [k \in D \union {i} |-> h(k)]
    BY <1>2, Zenon DEF WithRecord
<1>6. i \notin DOMAIN r
    BY <1>1, <1>2
<1> HIDE DEF D, h
<1> QED
    BY <1>3, <1>4, <1>5, <1>6, Zenon

\* A record gets a sample.
WithSample(rs, key, x) == [rs EXCEPT ![key].samples = Append(@, x)]

\* (As a function of the keys.)
LEMMA WithSampleIs ==
    ASSUME NEW rs, NEW key, NEW x, NEW o, NEW m, NEW q, rs = [k \in DOMAIN rs |-> rs[k]],
           rs[key] = [of |-> o, src |-> m, samples |-> q]
    PROVE  WithSample(rs, key, x) =
              [k \in DOMAIN rs |->
                  IF k = key THEN [of |-> o, src |-> m, samples |-> Append(q, x)] ELSE rs[k]]
<1> DEFINE v == [of |-> o, src |-> m, samples |-> Append(q, x)]
<1>1. [rs[key] EXCEPT !.samples = Append(@, x)] = v
    OBVIOUS
<1>2. WithSample(rs, key, x) = [rs EXCEPT ![key] = v]
    BY <1>1 DEF WithSample
<1>3. [rs EXCEPT ![key] = v] = [k \in DOMAIN rs |-> IF k = key THEN v ELSE rs[k]]
  <2> HIDE DEF v
  <2> QED
    BY Zenon
<1> QED
    BY <1>2, <1>3

EntityGets(e, f, i, x) ==
    /\ e[i] # None /\ f[i] # None
    /\ f[i].data = e[i].data /\ f[i].states = Append(e[i].states, x)
    /\ \A j \in ObjIds : j # i => f[j] = e[j]

MarkerGets(e, f, i, x) ==
    /\ i \in DOMAIN e /\ DOMAIN f = DOMAIN e
    /\ f[i].name = e[i].name /\ f[i].data = e[i].data
    /\ f[i].states = Append(e[i].states, x)
    /\ \A j \in DOMAIN e : j # i => f[j] = e[j]

\* An entity that gets a state gets it in its record.
LEMMA EntitySampled ==
    ASSUME NEW e, NEW f, NEW i \in ObjIds, NEW x, EntityGets(e, f, i, x)
    PROVE  /\ i \in DOMAIN EntityRecords(e) /\ EntityRecords(e)[i].of = i
           /\ EntityRecords(f) = WithSample(EntityRecords(e), i, x)
<1> DEFINE D == {j \in ObjIds : e[j] # None}
           r == EntityRecords(e)
           g(k) == [of |-> k, src |-> f[k].data, samples |-> f[k].states]
<1>0. /\ e[i] # None /\ f[i] # None
      /\ f[i].data = e[i].data /\ f[i].states = Append(e[i].states, x)
      /\ \A j \in ObjIds : j # i => f[j] = e[j]
    BY DEF EntityGets
<1>1. {j \in ObjIds : f[j] # None} = D
    BY <1>0
<1>2. i \in D /\ DOMAIN r = D
    BY <1>0 DEF EntityRecords
<1>3. \A k \in D : r[k] = [of |-> k, src |-> e[k].data, samples |-> e[k].states]
    BY DEF EntityRecords
<1>4. r[i] = [of |-> i, src |-> e[i].data, samples |-> e[i].states]
    BY <1>2, <1>3
<1>5. r = [k \in DOMAIN r |-> r[k]]
    BY <1>2 DEF EntityRecords
<1>6. WithSample(r, i, x) =
          [k \in D |-> IF k = i
                       THEN [of |-> i, src |-> e[i].data, samples |-> Append(e[i].states, x)]
                       ELSE r[k]]
  <2> HIDE DEF r, D
  <2> QED
    BY <1>2, <1>4, <1>5, WithSampleIs
<1>7. \A k \in D : g(k) =
          IF k = i THEN [of |-> i, src |-> e[i].data, samples |-> Append(e[i].states, x)]
          ELSE r[k]
  <2> TAKE k \in D
  <2>1. CASE k = i
    BY <1>0, <2>1
  <2>2. CASE k # i
    BY <1>0, <1>3, <2>2
  <2> QED
    BY <2>1, <2>2
<1>8. EntityRecords(f) = [k \in D |-> g(k)]
    BY <1>1, Zenon DEF EntityRecords
<1>9. i \in DOMAIN r /\ r[i].of = i
    BY <1>2, <1>4
<1> HIDE DEF g, D
<1> QED
    BY <1>6, <1>7, <1>8, <1>9, Zenon

\* (The same of a marker.)
LEMMA MarkerSampled ==
    ASSUME NEW e, NEW f, NEW i, NEW x, MarkerGets(e, f, i, x)
    PROVE  /\ i \in DOMAIN MarkerRecords(e) /\ MarkerRecords(e)[i].of = e[i].name
           /\ MarkerRecords(f) = WithSample(MarkerRecords(e), i, x)
<1> DEFINE D == DOMAIN e
           r == MarkerRecords(e)
           g(k) == [of |-> f[k].name, src |-> f[k].data, samples |-> f[k].states]
<1>1. /\ i \in DOMAIN e /\ DOMAIN f = DOMAIN e
      /\ f[i].name = e[i].name /\ f[i].data = e[i].data
      /\ f[i].states = Append(e[i].states, x)
      /\ \A j \in DOMAIN e : j # i => f[j] = e[j]
    BY DEF MarkerGets
<1>2. i \in D /\ DOMAIN r = D
    BY <1>1 DEF MarkerRecords
<1>3. \A k \in D : r[k] = [of |-> e[k].name, src |-> e[k].data, samples |-> e[k].states]
    BY DEF MarkerRecords
<1>4. r[i] = [of |-> e[i].name, src |-> e[i].data, samples |-> e[i].states]
    BY <1>2, <1>3
<1>5. r = [k \in DOMAIN r |-> r[k]]
    BY <1>2 DEF MarkerRecords
<1>6. WithSample(r, i, x) =
          [k \in D |-> IF k = i
                       THEN [of |-> e[i].name, src |-> e[i].data,
                             samples |-> Append(e[i].states, x)]
                       ELSE r[k]]
  <2> HIDE DEF r, D
  <2> QED
    BY <1>2, <1>4, <1>5, WithSampleIs
<1>7. \A k \in D : g(k) =
          IF k = i THEN [of |-> e[i].name, src |-> e[i].data,
                         samples |-> Append(e[i].states, x)]
          ELSE r[k]
  <2> TAKE k \in D
  <2>1. CASE k = i
    BY <1>1, <2>1
  <2>2. CASE k # i
    BY <1>1, <1>3, <2>2
  <2> QED
    BY <2>1, <2>2
<1>8. MarkerRecords(f) = [k \in D |-> g(k)]
    BY <1>1, Zenon DEF MarkerRecords
<1>9. i \in DOMAIN r /\ r[i].of = e[i].name
    BY <1>2, <1>4
<1> HIDE DEF g, D
<1> QED
    BY <1>6, <1>7, <1>8, <1>9, Zenon

-----------------------------------------------------------------------------
\* The records while a mission runs, and none otherwise.
NoneYet == [key \in {} |-> None]

\* (Records, case by case.)
LEMMA RecordsAre ==
    /\ mission = None => \A s : Records(s) = NoneYet
    /\ mission # None => /\ Records("marker") = MarkerRecords(markersByID)
                         /\ \A k \in Kinds : Records(k) = EntityRecords(entities[k])
    BY MarkerIsNoKind DEF Records, NoneYet

\* (The same in the next state.)
LEMMA RecordsWillBe ==
    /\ mission' = None => \A s : Records(s)' = NoneYet
    /\ mission' # None => /\ Records("marker")' = MarkerRecords(markersByID')
                          /\ \A k \in Kinds : Records(k)' = EntityRecords(entities'[k])
<1>1. /\ mission' = None => \A s : Records(s)' = NoneYet
      /\ mission' # None => /\ Records("marker")' = MarkerRecords(markersByID)'
                            /\ \A k \in Kinds : Records(k)' = EntityRecords(entities[k])'
    BY MarkerIsNoKind DEF Records, NoneYet
<1>2. MarkerRecords(markersByID)' = MarkerRecords(markersByID')
    BY DEF MarkerRecords
<1>3. \A k \in Kinds : EntityRecords(entities[k])' = EntityRecords(entities'[k])
    BY DEF EntityRecords
<1> QED
    BY <1>1, <1>2, <1>3

\* No record outlives a start or an end.
LEMMA EmptiedRecords ==
    ASSUME mission' = None \/ Emptied, NEW s \in Streams
    PROVE  Records(s)' = [key \in {} |-> None]
<1>1. CASE mission' = None
    BY <1>1, RecordsWillBe DEF NoneYet
<1>2. CASE mission' # None
  <2>1. Emptied
    BY <1>2
  <2>2. MarkerRecords(<<>>) = NoneYet
    BY DEF MarkerRecords, NoneYet
  <2>3. \A k \in Kinds : EntityRecords(entities'[k]) = NoneYet
    <3> TAKE k \in Kinds
    <3>1. entities'[k] = [i \in ObjIds |-> None]
      BY <2>1 DEF Emptied, NoEntities
    <3>2. {j \in ObjIds : entities'[k][j] # None} = {}
      BY <3>1
    <3> QED
      BY <3>2 DEF EntityRecords, NoneYet
  <2> QED
    BY <1>2, <2>1, <2>2, <2>3, RecordsWillBe DEF Streams, Emptied, NoneYet
<1> QED
    BY <1>1, <1>2

\* Nobody touches the records ...
LEMMA TablesStay ==
    ASSUME UNCHANGED <<mission, entities, markersByID>>
    PROVE  RecordsKept
    BY RecordsAre, RecordsWillBe DEF RecordsKept, Streams

\* ... or only those of a kind, or the markers, or none that count.
LEMMA OtherTables ==
    ASSUME NEW k \in Kinds, UNCHANGED <<mission, markersByID>>,
           \A l \in Kinds : l # k => entities'[l] = entities[l]
    PROVE  OtherRecords(k)
    BY RecordsAre, RecordsWillBe DEF OtherRecords, Streams

\* (The same when only the markers change.)
LEMMA OtherThanMarkerTable ==
    ASSUME UNCHANGED <<mission, entities>>
    PROVE  OtherRecords("marker")
    BY RecordsAre, RecordsWillBe DEF OtherRecords, Streams

\* Without a mission it does not matter what happens to the tables.
LEMMA NoTablesCount ==
    ASSUME UNCHANGED mission, mission = None
    PROVE  RecordsKept
    BY RecordsAre, RecordsWillBe DEF RecordsKept

-----------------------------------------------------------------------------
(* Recording: the steps of the pipeline *)

RecordingStep == Recordings!CNext \/ UNCHANGED Recordings!cvars

\* A step that leaves streams and records alone.
LEMMA NothingTouched ==
    ASSUME UNCHANGED <<stater, stateq, mover, moveq, mission, entities, markersByID, drains,
                       current>>
    PROVE  RecordingStep
    BY NobodyTouches, TablesStay, NothingHappens DEF RecordingStep

\* A record that the backend makes for a CREATE command counts while a mission runs.
LEMMA EntityMade ==
    ASSUME Types, NEW k \in Kinds, NEW i \in ObjIds, NEW m \in Missions, AddEntity(k, i, m),
           m = current, mission # None => mission = current,
           PendingKept, UNCHANGED <<drains, current>>
    PROVE  RecordingStep
<1>1. /\ UNCHANGED <<mission, markersByID>>
      /\ entities'[k][i] = NewRecord(m) /\ NewRecord(m) # None
      /\ \A l \in Kinds, j \in ObjIds :
            (l # k \/ j # i) => entities'[l][j] = entities[l][j]
    BY AddEntityEffect DEF Types
<1>2. \A l \in Kinds : l # k => entities'[l] = entities[l]
    BY DEF AddEntity, Types, BackendTypes
<1>3. CASE mission = None
    BY <1>1, <1>3, NoTablesCount, NothingHappens DEF RecordingStep
<1>4. CASE mission # None
  <2>1. EntityRecords(entities'[k]) = WithRecord(EntityRecords(entities[k]), i, i, m)
    <3>1. NewRecord(m).data = m /\ NewRecord(m).states = <<>>
      BY DEF NewRecord
    <3>2. PICK e, f : e = entities[k] /\ f = entities'[k]
      OBVIOUS
    <3>3. /\ f[i] # None /\ f[i].data = m /\ f[i].states = <<>>
          /\ \A j \in ObjIds : j # i => f[j] = e[j]
      BY <1>1, <3>1, <3>2
    <3>4. EntityRecords(f) = WithRecord(EntityRecords(e), i, i, m)
      BY <3>3, EntityRecordAdded
    <3> QED
      BY <3>2, <3>4
  <2>2. Records(k) = EntityRecords(entities[k]) /\ Records(k)' = EntityRecords(entities'[k])
    BY <1>1, <1>4, RecordsAre, RecordsWillBe
  <2>3. i \in DOMAIN Records(k) => Records(k)[i].of = i
    BY <2>2 DEF EntityRecords
  <2>4. OtherRecords(k)
    BY <1>1, <1>2, OtherTables
  <2>5. k \in Streams /\ i \in ObjIds \union Names
    BY StreamsAre
  <2>6. Records(k)' = WithRecord(Records(k), i, i, current)
    BY <2>1, <2>2
  <2>7. Recordings!CNext
    BY <1>1, <1>4, <2>3, <2>4, <2>5, <2>6, MakeRecordHappens
  <2> QED
    BY <2>7 DEF RecordingStep
<1> QED
    BY <1>3, <1>4

\* (The same of AddMarker.)
LEMMA MarkerMade ==
    ASSUME Types, NEW n \in Names, NEW m \in Missions, AddMarker(n, m),
           m = current, mission # None => mission = current,
           PendingKept, UNCHANGED <<drains, current>>
    PROVE  RecordingStep
<1>1. /\ UNCHANGED <<mission, entities>>
      /\ DOMAIN markersByID' = DOMAIN markersByID \union {NewMarkerID}
      /\ \A y \in DOMAIN markersByID : y # NewMarkerID /\ markersByID'[y] = markersByID[y]
      /\ markersByID'[NewMarkerID] = NewMarker(n, m)
    BY AddMarkerEffect DEF Types
<1>2. CASE mission = None
    BY <1>1, <1>2, NoTablesCount, NothingHappens DEF RecordingStep
<1>3. CASE mission # None
  <2>1. PICK x : x = NewMarkerID
    OBVIOUS
  <2>2. /\ MarkerRecords(markersByID') = WithRecord(MarkerRecords(markersByID), x, n, m)
        /\ x \notin DOMAIN MarkerRecords(markersByID)
    <3>1. /\ NewMarker(n, m).name = n /\ NewMarker(n, m).data = m
          /\ NewMarker(n, m).states = <<>>
      BY DEF NewMarker
    <3>2. PICK e, f : e = markersByID /\ f = markersByID'
      OBVIOUS
    <3>3. MarkerAdded(e, f, x, n, m)
      BY <1>1, <2>1, <3>1, <3>2 DEF MarkerAdded
    <3>4. /\ MarkerRecords(f) = WithRecord(MarkerRecords(e), x, n, m)
          /\ x \notin DOMAIN MarkerRecords(e)
      BY <3>3, MarkerRecordAdded
    <3> QED
      BY <3>2, <3>4
  <2>3. /\ Records("marker") = MarkerRecords(markersByID)
        /\ Records("marker")' = MarkerRecords(markersByID')
    BY <1>1, <1>3, RecordsAre, RecordsWillBe
  <2>4. OtherRecords("marker")
    BY <1>1, OtherThanMarkerTable
  <2>5. "marker" \in Streams /\ n \in ObjIds \union Names
    BY StreamsAre
  <2>6. x \in DOMAIN Records("marker") => Records("marker")[x].of = n
    BY <2>2, <2>3
  <2>7. Records("marker")' = WithRecord(Records("marker"), x, n, current)
    BY <2>2, <2>3
  <2>8. Recordings!CNext
    BY <1>1, <1>3, <2>4, <2>5, <2>6, <2>7, MakeRecordHappens
  <2> QED
    BY <2>8 DEF RecordingStep
<1> QED
    BY <1>2, <1>3

\* A CREATE command reaches the backend.
LEMMA EntityArrives ==
    ASSUME WaitsForOk, Types, Phases, CreateEntityBackend
    PROVE  RecordingStep
<1>1. /\ AddEntity(game.kind, game.id, game.src) /\ game.src = current
      /\ game.kind \in Kinds /\ game.id \in ObjIds /\ game.src \in Missions
      /\ game # Resting
    BY GameIs DEF CreateEntityBackend, Phases
<1>2. mission # None => mission = current
    BY <1>1, WhileRecording
<1>3. PendingKept /\ UNCHANGED <<drains, current>>
    BY NobodyTouches DEF CreateEntityBackend, queues, gorout
<1>4. ASSUME NEW k \in Kinds, NEW i \in ObjIds, NEW m \in Missions,
             k = game.kind, i = game.id, m = game.src
      PROVE  RecordingStep
    BY <1>1, <1>2, <1>3, <1>4, EntityMade
<1> QED
    BY <1>1, <1>4

\* handleMarkerCreate reaches the backend.
LEMMA MarkerArrives ==
    ASSUME WaitsForOk, Types, Phases, NEW n \in Names, CreateMarker(n)
    PROVE  RecordingStep
<1>1. Recording /\ AddMarker(n, current) /\ current \in Missions
    BY DEF CreateMarker, Recording, Types, GameTypes
<1>2. mission # None => mission = current
    BY <1>1, WhileRecording
<1>3. PendingKept /\ UNCHANGED <<drains, current>>
    BY NobodyTouches DEF CreateMarker, queues, gorout
<1>4. ASSUME NEW m \in Missions, m = current PROVE RecordingStep
    BY <1>1, <1>2, <1>3, <1>4, MarkerMade
<1> QED
    BY <1>1, <1>4

\* A state joins its stream; deletions and events have none.
LEMMA SampleSent ==
    ASSUME Types, Send
    PROVE  RecordingStep
<1>1. /\ UNCHANGED <<stater, mover, mission, entities, markersByID, drains, current>>
      /\ current \in Missions /\ current # None
    BY SendEffect, MemoryAssumption DEF Send, bvars, gorout
<1>2. RecordsKept
    BY <1>1, TablesStay
<1>3. CASE UNCHANGED <<stateq, moveq>>
    BY <1>1, <1>3, NothingTouched
<1>4. ASSUME NEW k \in Kinds, NEW e \in StateMsg, UNCHANGED moveq, e.src = current,
             stateq' = [stateq EXCEPT ![k] = Append(@, e)]
      PROVE  RecordingStep
  <2>1. stateq[k] \in Seq(StateMsg) /\ (stater[k] # Resting => stater[k].ev \in StateMsg)
    BY StaterIs DEF Types, QueueTypes
  <2>2. stateq'[k] = Append(stateq[k], e) /\ \A l \in Kinds : l # k => stateq'[l] = stateq[l]
    BY <1>4 DEF Types, QueueTypes
  <2>3. Queue(stater[k], Append(stateq[k], e)) = Append(Queue(stater[k], stateq[k]), e)
    BY <2>1, QueueSteps
  <2>4. Waiting(k)' = Append(Waiting(k), e)
    BY <1>1, <2>2, <2>3, WaitingIs, WaitingWillBe
  <2>5. k \in Streams /\ e \in Messages(k) /\ Thing(k, e) = e.id /\ e.id \in ObjIds
    BY StreamsAre, MarkerIsNoKind DEF Messages, Thing, StateMsg
  <2>6. Pending(k) \in Seq(Samples) /\ Pending(k)' = Append(Pending(k), Sample(current, e.id))
    BY <1>4, <2>4, <2>5, StreamTypes, WaitingGrows
  <2>7. OthersPending(k)
    BY <1>1, <1>4, <2>2, OtherKinds
  <2>8. PICK x \in ObjIds \union Names : x = e.id
    BY <2>5
  <2> QED
    BY <1>1, <1>2, <2>5, <2>6, <2>7, <2>8, SendHappens DEF RecordingStep
<1>5. ASSUME NEW e \in MoveMsg, UNCHANGED stateq, e.src = current,
             moveq' = Append(moveq, e)
      PROVE  RecordingStep
  <2>1. moveq \in Seq(MoveMsg) /\ (mover # Resting => mover.ev \in MoveMsg)
    BY MoverIs DEF Types, QueueTypes
  <2>3. Queue(mover, Append(moveq, e)) = Append(Queue(mover, moveq), e)
    BY <2>1, QueueSteps
  <2>4. Waiting("marker")' = Append(Waiting("marker"), e)
    BY <1>1, <1>5, <2>3, WaitingIs, WaitingWillBe
  <2>5. /\ "marker" \in Streams /\ e \in Messages("marker")
        /\ Thing("marker", e) = e.name /\ e.name \in Names
    BY StreamsAre DEF Messages, Thing, MoveMsg
  <2>6. /\ Pending("marker") \in Seq(Samples)
        /\ Pending("marker")' = Append(Pending("marker"), Sample(current, e.name))
    BY <1>5, <2>4, <2>5, StreamTypes, WaitingGrows
  <2>7. OthersPending("marker")
    BY <1>1, <1>5, OtherThanMarkers
  <2>8. PICK x \in ObjIds \union Names : x = e.name
    BY <2>5
  <2> QED
    BY <1>1, <1>2, <2>5, <2>6, <2>7, <2>8, SendHappens DEF RecordingStep
<1> QED
    BY <1>3, <1>4, <1>5, SendEffect

\* A start is announced, and begins or ends a recording when it reaches the backend.
LEMMA StartAnnounced ==
    ASSUME Types, NEW m \in Missions, SendStart(m)
    PROVE  RecordingStep
<1>1. /\ UNCHANGED <<stater, stateq, mover, moveq, mission, entities, markersByID, drains>>
      /\ current' = m
    BY DEF SendStart, bvars, gorout
<1>2. PendingKept /\ RecordsKept
    BY <1>1, NobodyTouches, TablesStay
<1>3. ASSUME drains PROVE \A t \in Streams : Pending(t) = <<>>
  <2>1. NothingPending
    BY <1>3 DEF SendStart
  <2>2. Queue(Resting, <<>>) = <<>>
    BY DEF Queue, InHand
  <2>3. /\ mover = Resting /\ moveq = <<>>
        /\ \A k \in Kinds : stater[k] = Resting /\ stateq[k] = <<>>
    BY <2>1 DEF NothingPending
  <2>4. \A t \in Streams : Waiting(t) = <<>>
    BY <2>2, <2>3, WaitingIs DEF Streams
  <2> QED
    BY <2>4, PendingIs, EmptyItems
<1> QED
    BY <1>1, <1>2, <1>3, AnnounceHappens DEF RecordingStep

\* StartMission is called for the mission that was announced.
LEMMA RecordingBegins ==
    ASSUME Types, Phases, StartBackend
    PROVE  RecordingStep
<1>1. starter # Resting /\ starter.mission = current /\ starter.mission \in Missions
    BY StarterIs DEF StartBackend, Resting, Phases
<1>2. /\ UNCHANGED <<stater, stateq, mover, moveq, drains, current>>
      /\ mission' = current /\ current # None /\ Emptied
    BY <1>1, MemoryAssumption
    DEF StartBackend, StartMission, resetCollections, Emptied, queues, gvars
<1>3. PendingKept /\ \A t \in Streams : Records(t)' = [key \in {} |-> None]
    BY <1>2, NobodyTouches, EmptiedRecords
<1> QED
    BY <1>2, <1>3, BeginHappens DEF RecordingStep

\* EndMission ends the recording, if one runs.
LEMMA RecordingEnds ==
    ASSUME Types, EndBackend
    PROVE  RecordingStep
<1>1. /\ UNCHANGED <<stater, stateq, mover, moveq, drains, current>>
      /\ UNCHANGED Tables \/ mission' = None
    BY EndEffect DEF EndBackend, queues, gvars, Types
<1>2. CASE UNCHANGED Tables
    BY <1>1, <1>2, NothingTouched DEF Tables
<1>3. CASE mission' = None
  <2>1. PendingKept /\ \A t \in Streams : Records(t)' = [key \in {} |-> None]
    BY <1>1, <1>3, NobodyTouches, EmptiedRecords
  <2> QED
    BY <1>1, <1>3, <2>1, EndHappens DEF RecordingStep
<1> QED
    BY <1>1, <1>2, <1>3

\* What a step of a goroutine leaves alone.
LEMMA HandlerLeaves ==
    ASSUME NEW k \in Kinds, StateTake(k) \/ StateUpdate(k) \/ StateRecord(k)
    PROVE  UNCHANGED <<mover, moveq, drains, current, mission, markersByID>>
    BY DEF StateTake, StateUpdate, StateRecord, RecordSample, UNCHANGED_but_entities, bvars,
           queues, gvars

\* A stream whose oldest sample is dealt with, as Recording sees it.
LEMMA OldestDealtWith ==
    ASSUME Types, NEW s \in Streams, NEW e \in Messages(s), Waiting(s) # <<>>,
           Head(Waiting(s)) = e, Waiting(s)' = Tail(Waiting(s))
    PROVE  /\ Pending(s) # <<>> /\ Head(Pending(s)) = Sample(e.src, Thing(s, e))
           /\ Pending(s)' = Tail(Pending(s))
    BY WaitingShrinks

\* It does not matter if no mission runs.
LEMMA WithoutMission ==
    ASSUME NEW m \in Missions, mission = None
    PROVE  ~Matters(m)
    BY MemoryAssumption DEF Matters

\* A state is taken in hand, or refused because it does not matter.
LEMMA StateTaken ==
    ASSUME Types, lost = {}, lost' = {}, NEW k \in Kinds, StateTake(k)
    PROVE  RecordingStep
<1>1. /\ UNCHANGED <<mover, moveq, drains, current, mission, entities, markersByID>>
      /\ stater[k] = Resting /\ stateq[k] # <<>>
    BY HandlerLeaves DEF StateTake, bvars
<1>2. /\ stateq[k] \in Seq(StateMsg) /\ stateq'[k] = Tail(stateq[k])
      /\ \A l \in Kinds : l # k => stateq'[l] = stateq[l]
    BY DEF StateTake, Types, QueueTypes
<1>3. PICK e : e = Head(stateq[k])
    OBVIOUS
<1>4. e \in StateMsg /\ k \in Streams /\ Messages(k) = StateMsg
    BY <1>1, <1>2, <1>3, Received, StreamsAre, MarkerIsNoKind DEF Messages
<1>5. PICK w, q : w = stater[k] /\ q = stateq[k]
    OBVIOUS
<1>6. /\ Queue(w, q) # <<>> /\ Head(Queue(w, q)) = e
      /\ Queue(w, Tail(q)) = Tail(Queue(w, q))
      /\ \A v : (v # Resting /\ v.ev = e) => Queue(v, Tail(q)) = Queue(w, q)
  <2>1. w = Resting /\ q \in Seq(StateMsg) /\ q # <<>> /\ Head(q) = e
    BY <1>1, <1>2, <1>3, <1>5
  <2> QED
    BY <2>1, QueueSteps
<1>7. Waiting(k) = Queue(w, q) /\ Waiting(k)' = Queue(stater'[k], Tail(q))
    BY <1>2, <1>5, WaitingIs, WaitingWillBe
<1>8. RecordsKept
    BY <1>1, TablesStay
<1>9. CASE entityCache[k][e.id] = None
  <2>1. stater' = stater /\ lost' = IF Matters(e.src) THEN lost \union {e} ELSE lost
    BY <1>3, <1>9 DEF StateTake
  <2>2. ~Matters(e.src)
    BY <2>1
  <2>3. Waiting(k)' = Tail(Waiting(k)) /\ Waiting(k) # <<>> /\ Head(Waiting(k)) = e
    BY <1>5, <1>6, <1>7, <2>1
  <2>4. /\ Pending(k) # <<>> /\ Head(Pending(k)) = Sample(e.src, Thing(k, e))
        /\ Pending(k)' = Tail(Pending(k))
    BY <1>4, <2>3, OldestDealtWith
  <2>5. OthersPending(k)
    BY <1>1, <1>2, <2>1, OtherKinds
  <2>6. Recordings!CNext
    BY <1>1, <1>4, <1>8, <2>2, <2>4, <2>5, DiscardHappens
  <2> QED
    BY <2>6 DEF RecordingStep
<1>10. CASE entityCache[k][e.id] # None
  <2>1. PICK v : /\ v # Resting /\ v.ev = e /\ stater' = [stater EXCEPT ![k] = v]
    <3>1. PICK pc \in {"update", "record"} : stater' =
              [stater EXCEPT ![k] = [pc |-> pc, ev |-> e, entry |-> entityCache[k][e.id]]]
      BY <1>3, <1>10 DEF StateTake, Continuations
    <3>2. PICK v : v = [pc |-> pc, ev |-> e, entry |-> entityCache[k][e.id]]
      OBVIOUS
    <3>3. v # Resting /\ v.ev = e
      BY <3>2 DEF Resting
    <3> QED
      BY <3>1, <3>2, <3>3
  <2>2. stater'[k] = v /\ \A l \in Kinds : l # k => stater'[l] = stater[l]
    BY <2>1 DEF Types, GoroutineTypes
  <2>3. Waiting(k)' = Waiting(k)
    BY <1>6, <1>7, <2>1, <2>2
  <2>4. OthersPending(k)
    BY <1>1, <1>2, <2>2, OtherKinds
  <2>5. PendingKept
    BY <1>4, <2>3, <2>4, OneAndOthers
  <2> QED
    BY <1>1, <1>8, <2>5, NothingHappens DEF RecordingStep
<1> QED
    BY <1>9, <1>10

\* (The same of a marker state and its name.)
LEMMA MoveTaken ==
    ASSUME Types, lost = {}, lost' = {}, MoveTake
    PROVE  RecordingStep
<1>1. /\ UNCHANGED <<stater, stateq, drains, current, mission, entities, markersByID>>
      /\ mover = Resting /\ moveq # <<>> /\ moveq' = Tail(moveq)
    BY DEF MoveTake, bvars, gvars
<1>2. moveq \in Seq(MoveMsg)
    BY DEF Types, QueueTypes
<1>3. PICK e : e = Head(moveq)
    OBVIOUS
<1>4. e \in MoveMsg /\ "marker" \in Streams /\ Messages("marker") = MoveMsg
    BY <1>1, <1>2, <1>3, Received, StreamsAre DEF Messages
<1>5. PICK w, q : w = mover /\ q = moveq
    OBVIOUS
<1>6. /\ Queue(w, q) # <<>> /\ Head(Queue(w, q)) = e
      /\ Queue(w, Tail(q)) = Tail(Queue(w, q))
      /\ \A v : (v # Resting /\ v.ev = e) => Queue(v, Tail(q)) = Queue(w, q)
  <2>1. w = Resting /\ q \in Seq(MoveMsg) /\ q # <<>> /\ Head(q) = e
    BY <1>1, <1>2, <1>3, <1>5
  <2> QED
    BY <2>1, QueueSteps
<1>7. Waiting("marker") = Queue(w, q) /\ Waiting("marker")' = Queue(mover', Tail(q))
    BY <1>1, <1>5, WaitingIs, WaitingWillBe
<1>8. RecordsKept /\ OthersPending("marker")
    BY <1>1, TablesStay, OtherThanMarkers
<1>9. CASE markerCache[e.name] = None
  <2>1. mover' = mover /\ lost' = IF Matters(e.src) THEN lost \union {e} ELSE lost
    BY <1>3, <1>9 DEF MoveTake
  <2>2. ~Matters(e.src)
    BY <2>1
  <2>3. /\ Waiting("marker")' = Tail(Waiting("marker")) /\ Waiting("marker") # <<>>
        /\ Head(Waiting("marker")) = e
    BY <1>5, <1>6, <1>7, <2>1
  <2>4. /\ Pending("marker") # <<>>
        /\ Head(Pending("marker")) = Sample(e.src, Thing("marker", e))
        /\ Pending("marker")' = Tail(Pending("marker"))
    BY <1>4, <2>3, OldestDealtWith
  <2>5. Recordings!CNext
    BY <1>1, <1>4, <1>8, <2>2, <2>4, DiscardHappens
  <2> QED
    BY <2>5 DEF RecordingStep
<1>10. CASE markerCache[e.name] # None
  <2>1. mover' # Resting /\ mover'.ev = e
    BY <1>3, <1>10 DEF MoveTake, Resting
  <2>2. Waiting("marker")' = Waiting("marker")
    BY <1>6, <1>7, <2>1
  <2>3. PendingKept
    BY <1>4, <1>8, <2>2, OneAndOthers
  <2> QED
    BY <1>1, <1>8, <2>3, NothingHappens DEF RecordingStep
<1> QED
    BY <1>9, <1>10

\* A takeover changes the cache only: the state is still in hand.
LEMMA StateUpdated ==
    ASSUME Types, NEW k \in Kinds, StateUpdate(k)
    PROVE  RecordingStep
<1>1. UNCHANGED <<mover, moveq, stateq, drains, current, mission, entities, markersByID>>
    BY HandlerLeaves DEF StateUpdate, bvars, queues
<1>2. stater[k] \in Stater /\ stater[k] # Resting
    BY StaterIs DEF StateUpdate
<1>3. /\ stater'[k] = [stater[k] EXCEPT !.pc = "record"]
      /\ \A l \in Kinds : l # k => stater'[l] = stater[l]
    BY DEF StateUpdate, Types, GoroutineTypes
<1>4. stater'[k] # Resting /\ stater'[k].ev = stater[k].ev
    BY <1>2, <1>3 DEF Stater, Resting
<1>5. Waiting(k)' = Waiting(k)
    BY <1>1, <1>2, <1>4, WaitingIs, WaitingWillBe DEF Queue, InHand
<1>6. OthersPending(k) /\ k \in Streams
    BY <1>1, <1>3, OtherKinds, StreamsAre
<1>7. PendingKept /\ RecordsKept
    BY <1>1, <1>5, <1>6, OneAndOthers, TablesStay
<1> QED
    BY <1>1, <1>7, NothingHappens DEF RecordingStep

\* What is in hand is dealt with.
LEMMA HandEmptied ==
    ASSUME Types, NEW k \in Kinds, stater[k] # Resting, stater'[k] = Resting,
           stateq'[k] = stateq[k]
    PROVE  Waiting(k) # <<>> /\ Head(Waiting(k)) = stater[k].ev /\ Waiting(k)' = Tail(Waiting(k))
<1>1. PICK w, q : w = stater[k] /\ q = stateq[k]
    OBVIOUS
<1>2. w # Resting /\ w.ev \in StateMsg /\ q \in Seq(StateMsg)
    BY <1>1, StaterIs DEF Types, QueueTypes
<1>3. /\ Queue(w, q) # <<>> /\ Head(Queue(w, q)) = w.ev
      /\ Queue(Resting, q) = Tail(Queue(w, q))
    BY <1>2, QueueSteps
<1> QED
    BY <1>1, <1>3, WaitingIs, WaitingWillBe

\* (The same of the goroutine of the marker states.)
LEMMA MoverEmptied ==
    ASSUME Types, mover # Resting, mover' = Resting, moveq' = moveq
    PROVE  /\ Waiting("marker") # <<>> /\ Head(Waiting("marker")) = mover.ev
           /\ Waiting("marker")' = Tail(Waiting("marker"))
<1>1. PICK w, q : w = mover /\ q = moveq
    OBVIOUS
<1>2. w # Resting /\ w.ev \in MoveMsg /\ q \in Seq(MoveMsg)
    BY <1>1, MoverIs DEF Types, QueueTypes
<1>3. /\ Queue(w, q) # <<>> /\ Head(Queue(w, q)) = w.ev
      /\ Queue(Resting, q) = Tail(Queue(w, q))
    BY <1>2, QueueSteps
<1> QED
    BY <1>1, <1>3, WaitingIs, WaitingWillBe

\* A state in hand reaches the record of its entity, or there is none and it does
\* not matter.
LEMMA StateRecorded ==
    ASSUME Types, Drained, lost = {}, lost' = {}, NEW k \in Kinds, StateRecord(k)
    PROVE  RecordingStep
<1>1. /\ UNCHANGED <<mover, moveq, stateq, drains, current, mission, markersByID>>
      /\ stater[k] # Resting /\ stater'[k] = Resting
      /\ \A l \in Kinds : l # k => stater'[l] = stater[l]
    BY HandlerLeaves, StaterIs DEF StateRecord, queues, Types, GoroutineTypes
<1>2. PICK e : e = stater[k].ev
    OBVIOUS
<1>3. PICK i, m : i = e.id /\ m = e.src
    OBVIOUS
<1>4. /\ i \in ObjIds /\ m \in Missions /\ e \in Messages(k) /\ k \in Streams
      /\ Thing(k, e) = i
    BY <1>1, <1>2, <1>3, StaterIs, StreamsAre, MarkerIsNoKind DEF Messages, Thing
<1>5. /\ Pending(k) # <<>> /\ Head(Pending(k)) = Sample(m, i)
      /\ Pending(k)' = Tail(Pending(k))
    BY <1>1, <1>2, <1>3, <1>4, HandEmptied, OldestDealtWith
<1>6. OthersPending(k)
    BY <1>1, OtherKinds
<1>7. /\ RecordSample(k, i, Sample(m, i))
      /\ lost' = IF entities[k][i] = None /\ Matters(m) THEN lost \union {e} ELSE lost
    BY <1>2, <1>3 DEF StateRecord
<1>8. CASE mission = None \/ entities[k][i] = None
  <2>1. ~Matters(m)
    BY <1>4, <1>7, <1>8, WithoutMission
  <2>2. RecordsKept
    <3>1. CASE mission = None
      BY <1>1, <3>1, NoTablesCount
    <3>2. CASE entities[k][i] = None
      BY <1>1, <1>7, <3>2, TablesStay DEF RecordSample
    <3> QED
      BY <1>8, <3>1, <3>2
  <2>3. Recordings!CNext
    BY <1>1, <1>4, <1>5, <1>6, <2>1, <2>2, DiscardHappens
  <2> QED
    BY <2>3 DEF RecordingStep
<1>9. CASE mission # None /\ entities[k][i] # None
  <2>1. PICK a, b : a = entities[k] /\ b = entities'[k]
    OBVIOUS
  <2>2. entities[k][i] \in Record
    BY <1>4, <1>9 DEF Types, BackendTypes
  <2>3. entities' = [entities EXCEPT ![k][i].states = Append(@, Sample(m, i))]
    BY <1>7, <1>9 DEF RecordSample
  <2>4. /\ b[i] = [a[i] EXCEPT !.states = Append(@, Sample(m, i))]
        /\ \A j \in ObjIds : j # i => b[j] = a[j]
        /\ \A l \in Kinds : l # k => entities'[l] = entities[l]
    BY <1>4, <2>1, <2>3 DEF Types, BackendTypes
  <2>5. /\ a[i] # None /\ b[i] # None /\ b[i].data = a[i].data
        /\ b[i].states = Append(a[i].states, Sample(m, i))
    <3>1. a[i] \in Record /\ Sample(m, i) \in Samples
      BY <1>4, <2>1, <2>2, RecorderAssumption DEF Sample
    <3>2. Append(a[i].states, Sample(m, i)) \in Seq(Samples)
      BY <3>1, Sent DEF Record
    <3>3. /\ b[i] \in Record /\ b[i].data = a[i].data
          /\ b[i].states = Append(a[i].states, Sample(m, i))
      BY <2>4, <3>1, <3>2 DEF Record
    <3>4. b[i] # None
      BY <3>3, RecorderAssumption DEF Record
    <3> QED
      BY <1>9, <2>1, <3>3, <3>4
  <2>6. /\ i \in DOMAIN EntityRecords(a) /\ EntityRecords(a)[i].of = i
        /\ EntityRecords(b) = WithSample(EntityRecords(a), i, Sample(m, i))
    <3>1. EntityGets(a, b, i, Sample(m, i))
      BY <2>4, <2>5 DEF EntityGets
    <3> QED
      BY <1>4, <3>1, EntitySampled
  <2>7. Records(k) = EntityRecords(a) /\ Records(k)' = EntityRecords(b)
    BY <1>1, <1>9, <2>1, RecordsAre, RecordsWillBe
  <2>8. OtherRecords(k)
    BY <1>1, <2>4, OtherTables
  <2>9. drains => mission = m
    BY <1>1, <1>2, <1>3, <1>9 DEF Drained
  <2>10. i \in DOMAIN Records(k) /\ (drains => Records(k)[i].of = i /\ mission = m)
    BY <2>6, <2>7, <2>9
  <2>11. Records(k)' = [Records(k) EXCEPT ![i].samples = Append(@, Sample(m, i))]
    BY <2>6, <2>7 DEF WithSample
  <2>12. Recordings!CNext
    BY <1>1, <1>4, <1>5, <1>6, <2>8, <2>10, <2>11, RecordHappens
  <2> QED
    BY <2>12 DEF RecordingStep
<1> QED
    BY <1>8, <1>9

\* A marker state in hand reaches the record of its ID, which is one of its name.
LEMMA MoveRecorded ==
    ASSUME Types, Drained, lost = {}, lost' = {}, MoveRecord
    PROVE  RecordingStep
<1>1. /\ UNCHANGED <<stater, stateq, moveq, drains, current, mission, entities>>
      /\ mover # Resting /\ mover' = Resting
    BY MoverIs DEF MoveRecord, RecordMarkerState, UNCHANGED_but_markers, queues, gvars
<1>2. PICK e, x : e = mover.ev /\ x = mover.id
    OBVIOUS
<1>3. PICK n, m : n = e.name /\ m = e.src
    OBVIOUS
<1>4. /\ n \in Names /\ m \in Missions /\ e \in Messages("marker") /\ "marker" \in Streams
      /\ Thing("marker", e) = n
    BY <1>1, <1>2, <1>3, MoverIs, StreamsAre DEF Messages, Thing
<1>5. /\ Pending("marker") # <<>> /\ Head(Pending("marker")) = Sample(m, n)
      /\ Pending("marker")' = Tail(Pending("marker"))
    BY <1>1, <1>2, <1>3, <1>4, MoverEmptied, OldestDealtWith
<1>6. OthersPending("marker") /\ OtherRecords("marker")
    BY <1>1, OtherThanMarkers, OtherThanMarkerTable
<1>7. /\ RecordMarkerState(x, Sample(m, n))
      /\ lost' = IF x \notin DOMAIN markersByID /\ Matters(m) THEN lost \union {e} ELSE lost
    BY <1>2, <1>3 DEF MoveRecord
<1>8. CASE mission = None \/ x \notin DOMAIN markersByID
  <2>1. ~Matters(m)
    BY <1>4, <1>7, <1>8, WithoutMission
  <2>2. RecordsKept
    <3>1. CASE mission = None
      BY <1>1, <3>1, NoTablesCount
    <3>2. CASE x \notin DOMAIN markersByID
      BY <1>1, <1>7, <3>2, TablesStay DEF RecordMarkerState
    <3> QED
      BY <1>8, <3>1, <3>2
  <2>3. Recordings!CNext
    BY <1>1, <1>4, <1>5, <1>6, <2>1, <2>2, DiscardHappens
  <2> QED
    BY <2>3 DEF RecordingStep
<1>9. CASE mission # None /\ x \in DOMAIN markersByID
  <2>1. PICK a, b : a = markersByID /\ b = markersByID'
    OBVIOUS
  <2>2. a \in Seq(Marker) /\ x \in DOMAIN a
    BY <1>9, <2>1 DEF Types, BackendTypes
  <2>3. a[x] \in Marker
    BY <2>2
  <2>4. b = [a EXCEPT ![x].states = Append(@, Sample(m, n))]
    BY <1>7, <1>9, <2>1 DEF RecordMarkerState
  <2>5. /\ DOMAIN b = DOMAIN a /\ b[x] = [a[x] EXCEPT !.states = Append(@, Sample(m, n))]
        /\ \A y \in DOMAIN a : y # x => b[y] = a[y]
    BY <2>2, <2>4
  <2>6. /\ b[x].name = a[x].name /\ b[x].data = a[x].data
        /\ b[x].states = Append(a[x].states, Sample(m, n))
    BY <2>3, <2>5 DEF Marker
  <2>7. /\ x \in DOMAIN MarkerRecords(a) /\ MarkerRecords(a)[x].of = a[x].name
        /\ MarkerRecords(b) = WithSample(MarkerRecords(a), x, Sample(m, n))
    <3>1. MarkerGets(a, b, x, Sample(m, n))
      BY <2>2, <2>5, <2>6 DEF MarkerGets
    <3> QED
      BY <3>1, MarkerSampled
  <2>8. Records("marker") = MarkerRecords(a) /\ Records("marker")' = MarkerRecords(b)
    BY <1>1, <1>9, <2>1, RecordsAre, RecordsWillBe
  <2>9. drains => mission = m /\ a[x].name = n
    BY <1>1, <1>2, <1>3, <1>9, <2>1 DEF Drained, HasRecord
  <2>10. /\ x \in DOMAIN Records("marker")
         /\ drains => Records("marker")[x].of = n /\ mission = m
    BY <2>7, <2>8, <2>9
  <2>11. Records("marker")' = [Records("marker") EXCEPT ![x].samples = Append(@, Sample(m, n))]
    BY <2>7, <2>8 DEF WithSample
  <2>12. Recordings!CNext
    BY <1>1, <1>4, <1>5, <1>6, <2>10, <2>11, RecordHappens
  <2> QED
    BY <2>12 DEF RecordingStep
<1> QED
    BY <1>8, <1>9

\* A deletion changes no more of a record than its frame.
LEMMA EntityDeleted ==
    ASSUME Types, NEW k \in Kinds, DeleteTake(k)
    PROVE  RecordingStep
<1>1. /\ UNCHANGED <<stater, stateq, mover, moveq, drains, current, mission, markersByID>>
      /\ DeleteEntity(k, Head(deleteq[k]).id, Head(deleteq[k]).frame) /\ deleteq[k] # <<>>
    BY DEF DeleteTake, DeleteEntity, UNCHANGED_but_entities, gorout, gvars
<1>2. PICK i, f : i = Head(deleteq[k]).id /\ f = Head(deleteq[k]).frame
    OBVIOUS
<1>3. i \in ObjIds /\ f \in Frames
  <2>1. Head(deleteq[k]) \in [id : ObjIds, frame : DeleteFrames]
    BY <1>1, Received DEF Types, QueueTypes
  <2> QED
    BY <1>2, <2>1, FramesInclude
<1>4. PendingKept
    BY <1>1, NobodyTouches
<1>5. CASE entities[k][i] = None
  <2>1. UNCHANGED entities
    BY <1>1, <1>2, <1>5 DEF DeleteEntity
  <2> QED
    BY <1>1, <1>4, <2>1, TablesStay, NothingHappens DEF RecordingStep
<1>6. CASE entities[k][i] # None
  <2>1. entities' = [entities EXCEPT ![k][i].deleteFrame = f]
    BY <1>1, <1>2, <1>6 DEF DeleteEntity
  <2>2. entities[k][i] \in Record
    BY <1>3, <1>6 DEF Types, BackendTypes
  <2>3. PICK a, b : a = entities[k] /\ b = entities'[k]
    OBVIOUS
  <2>4. /\ b[i] = [a[i] EXCEPT !.deleteFrame = f]
        /\ \A j \in ObjIds : j # i => b[j] = a[j]
        /\ \A l \in Kinds : l # k => entities'[l] = entities[l]
    BY <1>3, <2>1, <2>3 DEF Types, BackendTypes
  <2>5. a[i] # None /\ b[i] # None /\ b[i].data = a[i].data /\ b[i].states = a[i].states
    <3>1. b[i] \in Record
      BY <1>3, <2>2, <2>3, <2>4 DEF Record
    <3> QED
      BY <1>6, <2>2, <2>3, <2>4, <3>1, RecorderAssumption DEF Record
  <2>6. EntityRecords(b) = EntityRecords(a)
    <3>1. /\ \A j \in ObjIds : b[j] = None <=> a[j] = None
          /\ \A j \in ObjIds : a[j] # None => b[j].data = a[j].data /\ b[j].states = a[j].states
      BY <1>3, <2>4, <2>5
    <3> QED
      BY <3>1, SameEntityRecords
  <2>7. Records(k)' = Records(k) /\ OtherRecords(k) /\ k \in Streams
    BY <1>1, <2>3, <2>4, <2>6, RecordsAre, RecordsWillBe, OtherTables, StreamsAre
  <2>8. RecordsKept
    BY <2>7 DEF OtherRecords, RecordsKept
  <2> QED
    BY <1>1, <1>4, <2>8, NothingHappens DEF RecordingStep
<1> QED
    BY <1>5, <1>6

\* (The same of a marker.)
LEMMA MarkerDeleted ==
    ASSUME Types, UnmarkTake
    PROVE  RecordingStep
<1>1. /\ UNCHANGED <<stater, stateq, mover, moveq, drains, current, mission, entities>>
      /\ DeleteMarker(Head(unmarkq).name, Head(unmarkq).frame)
    BY DEF UnmarkTake, DeleteMarker, UNCHANGED_but_markers, gorout, gvars
<1>2. PICK a, b : a = markersByID /\ b = markersByID'
    OBVIOUS
<1>3. a \in Seq(Marker)
    BY <1>2 DEF Types, BackendTypes
<1>4. PICK x, f : b = IF x = None THEN a ELSE [a EXCEPT ![x].endFrame = f]
  <2>1. PICK x, f : x = markers[Head(unmarkq).name] /\ f = Head(unmarkq).frame
    OBVIOUS
  <2>2. b = IF x = None THEN a ELSE [a EXCEPT ![x].endFrame = f]
    BY <1>1, <1>2, <2>1 DEF DeleteMarker
  <2> QED
    BY <2>2
<1>5. /\ DOMAIN b = DOMAIN a
      /\ \A y \in DOMAIN a : /\ b[y].name = a[y].name /\ b[y].data = a[y].data
                             /\ b[y].states = a[y].states
  <2>1. CASE x = None \/ x \notin DOMAIN a
    <3>1. b = a
      BY <1>3, <1>4, <2>1
    <3> QED
      BY <3>1
  <2>2. CASE x # None /\ x \in DOMAIN a
    <3>1. /\ DOMAIN b = DOMAIN a /\ b[x] = [a[x] EXCEPT !.endFrame = f]
          /\ \A y \in DOMAIN a : y # x => b[y] = a[y]
      BY <1>3, <1>4, <2>2
    <3>2. a[x] \in Marker
      BY <1>3, <2>2
    <3> QED
      BY <3>1, <3>2 DEF Marker
  <2> QED
    BY <2>1, <2>2
<1>6. MarkerRecords(b) = MarkerRecords(a)
    BY <1>5, SameMarkerRecords
<1>7. Records("marker")' = Records("marker") /\ OtherRecords("marker")
    BY <1>1, <1>2, <1>6, RecordsAre, RecordsWillBe, OtherThanMarkerTable
<1>8. RecordsKept /\ PendingKept
    BY <1>1, <1>7, NobodyTouches DEF OtherRecords, RecordsKept
<1> QED
    BY <1>1, <1>8, NothingHappens DEF RecordingStep

\* Each step of the pipeline is one of Recording, or nothing to it.
LEMMA EveryStepRecords ==
    ASSUME WaitsForOk, IInv, IInv', RNext
    PROVE  RecordingStep
<1>1. Types /\ Phases /\ Drained /\ lost = {} /\ lost' = {} /\ ActiveKinds \subseteq Kinds
    BY RecorderAssumption DEF IInv, Associated
<1>2. ASSUME NEW k \in ActiveKinds, NEW i \in ObjIds, CreateEntity(k, i)
      PROVE  RecordingStep
    BY <1>2, NothingTouched DEF CreateEntity, bvars, queues, gorout
<1>3. CASE CreateMarkerCache \/ SendSave
    BY <1>3, NothingTouched DEF CreateMarkerCache, SendSave, bvars, queues, gorout
<1>4. CASE StartTake \/ ResetMarkerCache \/ ResetEntityCache \/ StartOk
    BY <1>4, NothingTouched
    DEF StartTake, ResetMarkerCache, ResetEntityCache, StartOk, bvars, queues, gvars
<1>5. ASSUME NEW k \in EventKinds, EventTake(k)
      PROVE  RecordingStep
    BY <1>5, NothingTouched DEF EventTake, RecordEvent, bvars, gorout, gvars
<1>6. CASE Game
    BY <1>1, <1>2, <1>3, <1>6, EntityArrives, MarkerArrives, SampleSent, StartAnnounced DEF Game
<1>7. CASE Start \/ EndBackend
    BY <1>1, <1>4, <1>7, RecordingBegins, RecordingEnds DEF Start
<1>8. CASE Handlers
    BY <1>1, <1>5, <1>8, StateTaken, StateUpdated, StateRecorded, EntityDeleted, MoveTaken,
       MoveRecorded, MarkerDeleted DEF Handlers
<1> QED
    BY <1>6, <1>7, <1>8 DEF RNext

\* Nothing is recorded or pending at the start.
LEMMA InitRecording == RInit => Recordings!CInit
<1> SUFFICES ASSUME RInit PROVE Recordings!CInit
    OBVIOUS
<1>1. \A t \in Streams : Pending(t) = <<>>
  <2>1. Queue(Resting, <<>>) = <<>>
    BY DEF Queue, InHand
  <2>2. \A t \in Streams : Waiting(t) = <<>>
    BY <2>1, WaitingIs DEF RInit, Streams
  <2> QED
    BY <2>2, PendingIs, EmptyItems
<1>2. mission = None /\ current = None /\ drains \in BOOLEAN
    BY DEF RInit, BInit
<1>3. \A t \in Streams : Records(t) = [key \in {} |-> None]
    BY <1>2, RecordsAre DEF NoneYet
<1> QED
    BY <1>1, <1>2, <1>3, Zenon DEF Recordings!CInit, Recordings!NoRecords

\* A sample that the game sends waits in a channel, is looked up in a cache and goes
\* to the backend (RegisterHandlers of internal/worker), while :MISSION:START: and
\* :MISSION:SAVE: replace the tables: it is recorded at most once, after those sent
\* before it on its channel, and discarded only around a change of missions.  If the
\* game drains the queues before a start, it gets into a record of its own entity
\* or marker, in the recording of its own mission.
THEOREM RecordsAsPromised == WaitsForOk => (RSpec => ImplementsRecording)
<1>1. SUFFICES ASSUME WaitsForOk PROVE RSpec => ImplementsRecording
    OBVIOUS
<1>2. IInv /\ IInv' /\ [RNext]_rvars => [Recordings!CNext]_(Recordings!cvars)
  <2> SUFFICES ASSUME IInv, IInv', [RNext]_rvars
               PROVE  [Recordings!CNext]_(Recordings!cvars)
    OBVIOUS
  <2>1. RecordingStep
    <3>1. CASE RNext
      BY <1>1, <3>1, EveryStepRecords
    <3>2. CASE UNCHANGED rvars
      BY <3>2, NothingTouched DEF rvars, bvars, queues, gorout, gvars
    <3> QED
      BY <3>1, <3>2
  <2> QED
    BY <2>1 DEF RecordingStep
<1>3. RSpec => []IInv
    BY <1>1, Invariance
<1> QED
    BY <1>2, <1>3, InitRecording, PTL DEF RSpec, ImplementsRecording, Recordings!CSpec
=============================================================================
