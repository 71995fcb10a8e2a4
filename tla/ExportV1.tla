------------------------------ MODULE ExportV1 ------------------------------
(***************************************************************************)
(* The v1 export (internal/storage/memory/export/v1): what one mission     *)
(* recorded (MissionData), Stream, which writes the file one entity at a   *)
(* time and is what EndMission calls, and Build, which makes the same      *)
(* export in memory and is Stream's reference.                             *)
(*                                                                         *)
(* Payloads (places, names, texts, crews, who is a player) are left out: a *)
(* state, shot or event is named by its place in the recording.  Events    *)
(* and markers are collected twice, by builder.go and by a copy of its     *)
(* code in stream.go: buildEvents and buildMarkers, aggregateEvents and    *)
(* aggregateMarkers say in which order each of them appends which rows,    *)
(* and the columns of one row, which neither computes differently, are     *)
(* stated once.  The scalar fields and the time states are copied and left *)
(* out.                                                                    *)
(***************************************************************************)
EXTENDS Integers, SequencesExt, FiniteSetsExt

CONSTANTS
    IdMax,          \* the largest value of the uint16 of an entity ID
    Names,          \* marker names, numbered in the order of the strings
    PlacedIds,      \* IDs of placed objects
    EventSlices,    \* the event slices of MissionData, in Build's order
    Shots,          \* the shapes of projectile events
    MaxFrame,       \* bound: the game's capture frame
    MaxCalls        \* bound: recorded calls

Ids   == 0..IdMax
Kinds == {"soldier", "vehicle"}
PlacedEventTypes == {"end", "hit"}    \* "end": detonated or deleted
FrameForever == 0
None == [none |-> TRUE]

ASSUME ExportAssumption ==
    /\ IdMax \in Nat /\ MaxFrame \in Nat \ {0} /\ MaxCalls \in Nat
    /\ Names \subseteq Nat /\ PlacedIds \subseteq Ids
    /\ EventSlices \in Seq(Range(EventSlices)) /\ IsInjective(EventSlices)
    /\ {"placed", "projectile"} \intersect Range(EventSlices) = {}
    /\ Shots \subseteq [bullet : BOOLEAN, points : 0..2, hits : 0..1]

VARIABLES
    frame,      \* the game's capture frame
    calls,      \* recorded calls
    units,      \* MissionData.Soldiers and Vehicles: [kind][id] -> record
    events,     \* the event slices: frames
    markers,    \* MissionData.Markers
    placed,     \* MissionData.PlacedObjects
    projectiles,\* MissionData.ProjectileEvents
    phase,      \* "record", then what Stream does next
    out         \* what Stream has written

recording == <<frame, calls, units, events, markers, placed, projectiles>>
vars == <<recording, phase, out>>

\* MissionData: what Build and Stream are given.
MissionData == [units |-> units, events |-> events, markers |-> markers,
                placed |-> placed, projectiles |-> projectiles]

NewUnit == [join |-> frame', delete |-> FrameForever, states |-> <<>>,
            fired |-> <<>>]
NewMarker(poly) == [start |-> frame', end |-> FrameForever, polyline |-> poly,
                    states |-> <<>>]
Unwritten == [endFrame |-> 0, entities |-> <<>>, events |-> <<>>,
              markers |-> <<>>]

Init ==
    /\ frame = 1 /\ calls = 0
    /\ units = [k \in Kinds |-> [i \in Ids |-> None]]
    /\ events = [s \in Range(EventSlices) |-> <<>>]
    /\ markers = [n \in Names |-> None]
    /\ placed = [p \in PlacedIds |-> None]
    /\ projectiles = <<>>
    /\ phase = "record"
    /\ out = Unwritten

-----------------------------------------------------------------------------
(* The recording.  Frames are the game's, which never go back.  An entity,   *)
(* marker or object that is created again gets a new record in place of the  *)
(* old one, and one ID may be a soldier's and a vehicle's.                   *)

\* A call at the same or a later frame.
Call ==
    /\ phase = "record"
    /\ calls < MaxCalls
    /\ calls' = calls + 1
    /\ frame' \in frame..MaxFrame
    /\ UNCHANGED <<phase, out>>

\* AddSoldier, AddVehicle
AddUnit(k, i) ==
    /\ Call
    /\ units' = [units EXCEPT ![k][i] = NewUnit]
    /\ UNCHANGED <<events, markers, placed, projectiles>>

\* RecordSoldierState, RecordVehicleState
RecordState(k, i) ==
    /\ Call
    /\ units[k][i] # None
    /\ units' = [units EXCEPT ![k][i].states = Append(@, frame')]
    /\ UNCHANGED <<events, markers, placed, projectiles>>

\* DeleteSoldier, DeleteVehicle
DeleteUnit(k, i) ==
    /\ Call
    /\ units[k][i] # None
    /\ units' = [units EXCEPT ![k][i].delete = frame']
    /\ UNCHANGED <<events, markers, placed, projectiles>>

\* RecordFiredEvent
RecordFired(i) ==
    /\ Call
    /\ units["soldier"][i] # None
    /\ units' = [units EXCEPT !["soldier"][i].fired =
                    Append(@, [by |-> i, frame |-> frame'])]
    /\ UNCHANGED <<events, markers, placed, projectiles>>

\* RecordGeneralEvent and the other methods that append to a slice.
RecordEvent(s) ==
    /\ Call
    /\ events' = [events EXCEPT ![s] = Append(@, frame')]
    /\ UNCHANGED <<units, markers, placed, projectiles>>

\* AddMarker, RecordMarkerState, DeleteMarker
RecordMarker(n) ==
    /\ Call
    /\ \/ \E poly \in BOOLEAN :
                markers' = [markers EXCEPT ![n] = NewMarker(poly)]
       \/ /\ markers[n] # None
          /\ \/ markers' = [markers EXCEPT ![n].states = Append(@, frame')]
             \/ markers' = [markers EXCEPT ![n].end = frame']
    /\ UNCHANGED <<units, events, placed, projectiles>>

\* AddPlacedObject, RecordPlacedObjectEvent
RecordPlaced(p) ==
    /\ Call
    /\ \/ placed' = [placed EXCEPT ![p] = [join |-> frame', events |-> <<>>]]
       \/ /\ placed[p] # None
          /\ \E t \in PlacedEventTypes :
                placed' = [placed EXCEPT ![p].events =
                              Append(@, [frame |-> frame', type |-> t])]
    /\ UNCHANGED <<units, events, markers, projectiles>>

\* RecordProjectileEvent.  The firer is whatever ID the game sends; a flight
\* takes no longer than a frame.
RecordProjectile(i, s) ==
    /\ Call
    /\ projectiles' = Append(projectiles,
          [firer |-> i, frame |-> frame', bullet |-> s.bullet,
           path |-> [n \in 1..s.points |-> frame'],
           hits |-> [h \in 1..s.hits |-> frame']])
    /\ UNCHANGED <<units, events, markers, placed>>

-----------------------------------------------------------------------------
(* One entity *)

\* 1-based frames become 0-based; FrameForever becomes -1.
frameToV1(f) == f - 1

\* (As it would be if a state also covered the frame of the next one.)
endOverlapping(u, i, maxFrame) ==
    IF i < Len(u.states) THEN frameToV1(u.states[i + 1])
    ELSE IF u.delete > 0 THEN frameToV1(u.delete) ELSE frameToV1(maxFrame)

\* endF: the last frame the i-th state of record u is shown in.
endF(u, i, maxFrame) ==
    IF i < Len(u.states) THEN frameToV1(u.states[i + 1]) - 1
    ELSE IF u.delete > 0 THEN frameToV1(u.delete) ELSE frameToV1(maxFrame)

startF(u, i) == frameToV1(u.states[i])

Shot(f, source) == [frame |-> frameToV1(f), of |-> source]

\* One position per frame, then the soldier's own shots and the bullets'.
buildSoldierEntity(i, u, maxFrame, extraFirelines) ==
    [type |-> "unit", id |-> i, start |-> frameToV1(u.join),
     positions |-> FlattenSeq([s \in DOMAIN u.states |->
         [n \in 1..(endF(u, s, maxFrame) - startF(u, s) + 1) |-> s]]),
     framesFired |-> [s \in DOMAIN u.fired |->
                         Shot(u.fired[s].frame, <<"fired", u.fired[s].by, s>>)]
                        \o extraFirelines]

\* One position per state, with its range of frames.
buildVehicleEntity(i, u, maxFrame) ==
    [type |-> "vehicle", id |-> i, start |-> frameToV1(u.join),
     positions |-> [s \in DOMAIN u.states |->
                      <<s, startF(u, s), endF(u, s, maxFrame)>>],
     framesFired |-> <<>>]

\* The zero value of Entity, where no entity has the ID.
Placeholder == [type |-> "", id |-> 0, start |-> 0, positions |-> <<>>,
                framesFired |-> <<>>]

-----------------------------------------------------------------------------
(* What both walk over, in the data d of a mission *)

Present(d, k) == {i \in Ids : d.units[k][i] # None}
hasEntities(d) == Present(d, "soldier") \union Present(d, "vehicle") # {}

FramesOf(d, k) == UNION {Range(d.units[k][i].states) : i \in Present(d, k)}

\* (As it would be if only the soldiers were looked at.)
maxFrameOfSoldiers(d) == Max({0} \union FramesOf(d, "soldier"))
maxIDOfSoldiers(d) == Max({0} \union Present(d, "soldier"))

\* computeMetadata
computedMaxFrame(d) ==
    Max({0} \union FramesOf(d, "soldier") \union FramesOf(d, "vehicle"))
computedMaxID(d) ==
    Max({0} \union Present(d, "soldier") \union Present(d, "vehicle"))

\* The numbers of S in ascending order.
InOrder(S) ==
    LET ks == 1..Cardinality(S)
    IN  CHOOSE s \in [ks -> S] : /\ Range(s) = S
                                 /\ \A m, n \in ks : m < n => s[m] < s[n]

\* The bullets of one firer, if their path has two points.
isFireline(d, n, i) == /\ d.projectiles[n].bullet
                       /\ Len(d.projectiles[n].path) >= 2
                       /\ d.projectiles[n].firer = i

firelines(d, i) ==
    LET ns == InOrder({n \in DOMAIN d.projectiles : isFireline(d, n, i)})
    IN  [n \in DOMAIN ns |-> Shot(d.projectiles[ns[n]].frame, <<"bullet", ns[n]>>)]

PlacedInOrder(d) == InOrder({p \in PlacedIds : d.placed[p] # None})

Event(f, source) == [frame |-> frameToV1(f), of |-> source]

SliceEvents(d, s) ==
    [n \in DOMAIN d.events[s] |-> Event(d.events[s][n], <<s, n>>)]

PlacedHits(d, p) ==
    LET es   == d.placed[p].events
        hits == InOrder({n \in DOMAIN es : es[n].type = "hit"})
    IN  [n \in DOMAIN hits |->
            Event(es[hits[n]].frame, <<"placed", p, hits[n]>>)]

ProjectileHits(d, n) ==
    [h \in DOMAIN d.projectiles[n].hits |->
        Event(d.projectiles[n].hits[h], <<"projectile", n, h>>)]

\* (As it would be if they were written as they were collected.)
AsCollected(rows) == rows

\* sort.SliceStable by frame
SortStable(rows) ==
    FlattenSeq([f \in 1..MaxFrame |->
        LET ns == InOrder({n \in DOMAIN rows : rows[n].frame = frameToV1(f)})
        IN  [n \in DOMAIN ns |-> rows[ns[n]]]])

MarkerRow(source, start, end, positions) ==
    [of |-> source, start |-> frameToV1(start), end |-> frameToV1(end),
     positions |-> [n \in DOMAIN positions |-> frameToV1(positions[n])]]

\* A polyline shows only how it was created.
markerRows(d) ==
    LET names == InOrder({n \in Names : d.markers[n] # None})
        Row(m, n) == MarkerRow(<<"marker", n>>, m.start, m.end,
                        <<m.start>> \o (IF m.polyline THEN <<>> ELSE m.states))
    IN  [i \in DOMAIN names |-> Row(d.markers[names[i]], names[i])]

\* A placed object ends with the first event that says so.
placedEndFrame(d, p) ==
    LET es   == d.placed[p].events
        ends == {n \in DOMAIN es : es[n].type = "end"}
    IN  IF ends = {} THEN FrameForever ELSE es[Min(ends)].frame

placedRows(d) ==
    LET ps == PlacedInOrder(d)
        Row(p) == MarkerRow(<<"placed", p>>, d.placed[p].join,
                            placedEndFrame(d, p), <<d.placed[p].join>>)
    IN  [i \in DOMAIN ps |-> Row(ps[i])]

\* What flies and is no bullet is a marker along its path.
isProjectileMarker(d, n) == ~d.projectiles[n].bullet
projectileRows(d) ==
    LET ns == InOrder({n \in DOMAIN d.projectiles : isProjectileMarker(d, n)})
        Row(n, pe) == MarkerRow(<<"projectile", n>>, pe.frame,
            IF pe.path = <<>> THEN FrameForever ELSE Last(pe.path), pe.path)
    IN  [i \in DOMAIN ns |-> Row(ns[i], d.projectiles[ns[i]])]

-----------------------------------------------------------------------------
(* Build *)

buildMaxFrame(d) == Max({0} \union UNION {FramesOf(d, k) : k \in Kinds})
buildMaxID(d)    == Max({0} \union UNION {Present(d, k) : k \in Kinds})

\* The length of the entities array: maxEntityID+1 in the arithmetic of uint16.
buildLength(d) == IF hasEntities(d) THEN (buildMaxID(d) + 1) % (IdMax + 1) ELSE 0

\* An index out of range.
BuildPanics(d) == hasEntities(d) /\ buildLength(d) <= buildMaxID(d)

\* The bullets go to whatever entity has the ID of the firer.
buildEntity(d, i) ==
    LET soldier == d.units["soldier"][i]
        vehicle == d.units["vehicle"][i]
        base == IF vehicle # None
                THEN buildVehicleEntity(i, vehicle, buildMaxFrame(d))
                ELSE IF soldier # None
                THEN buildSoldierEntity(i, soldier, buildMaxFrame(d), <<>>)
                ELSE Placeholder
    IN  [base EXCEPT !.framesFired = @ \o firelines(d, i)]

\* The event rows before they are sorted, and the markers.
buildEvents(d) ==
    LET ps == PlacedInOrder(d)
    IN  FlattenSeq([s \in DOMAIN EventSlices |-> SliceEvents(d, EventSlices[s])])
        \o FlattenSeq([p \in DOMAIN ps |-> PlacedHits(d, ps[p])])
        \o FlattenSeq([n \in DOMAIN d.projectiles |-> ProjectileHits(d, n)])
buildMarkers(d) == markerRows(d) \o placedRows(d) \o projectileRows(d)

Build(d) == [endFrame |-> frameToV1(buildMaxFrame(d)),
             entities |-> [n \in 1..buildLength(d) |-> buildEntity(d, n - 1)],
             events   |-> SortStable(buildEvents(d)),
             markers  |-> buildMarkers(d)]

-----------------------------------------------------------------------------
(* Stream *)

\* writeEntityForID; the bullets go to soldiers only.
EntityForID(d, i) ==
    LET soldier == d.units["soldier"][i]
        vehicle == d.units["vehicle"][i]
    IN  IF soldier # None
        THEN buildSoldierEntity(i, soldier, computedMaxFrame(d), firelines(d, i))
        ELSE IF vehicle # None
        THEN buildVehicleEntity(i, vehicle, computedMaxFrame(d))
        ELSE Placeholder

\* buildAggregates
aggregateEvents(d) ==
    LET ps == PlacedInOrder(d)
    IN  FlattenSeq([s \in DOMAIN EventSlices |-> SliceEvents(d, EventSlices[s])])
        \o FlattenSeq([p \in DOMAIN ps |-> PlacedHits(d, ps[p])])
        \o FlattenSeq([n \in DOMAIN d.projectiles |-> ProjectileHits(d, n)])
aggregateMarkers(d) == markerRows(d) \o placedRows(d) \o projectileRows(d)

\* The scalar fields; EndMission calls Stream when the recording is over.
StreamHead ==
    /\ phase = "record"
    /\ out' = [out EXCEPT !.endFrame = frameToV1(computedMaxFrame(MissionData))]
    /\ phase' = IF hasEntities(MissionData) THEN "entities" ELSE "tail"
    /\ UNCHANGED recording

\* One entity.  The loop ends at maxEntityID, before the ID would overflow.
StreamEntity ==
    /\ phase = "entities"
    /\ LET i == Len(out.entities)
       IN  /\ out' = [out EXCEPT !.entities = Append(@, EntityForID(MissionData, i))]
           /\ phase' = IF i = computedMaxID(MissionData) THEN "tail" ELSE "entities"
    /\ UNCHANGED recording

\* The sorted events, the markers and the flush.
StreamTail ==
    /\ phase = "tail"
    /\ out' = [out EXCEPT !.events = SortStable(aggregateEvents(MissionData)),
                          !.markers = aggregateMarkers(MissionData)]
    /\ phase' = "done"
    /\ UNCHANGED recording

\* Any write may fail: Stream returns and leaves what it has written.
StreamFails ==
    /\ phase \in {"entities", "tail"}
    /\ phase' = "failed"
    /\ UNCHANGED <<recording, out>>

-----------------------------------------------------------------------------
Record ==
    \/ \E k \in Kinds, i \in Ids :
          AddUnit(k, i) \/ RecordState(k, i) \/ DeleteUnit(k, i)
    \/ \E i \in Ids : RecordFired(i)
    \/ \E s \in Range(EventSlices) : RecordEvent(s)
    \/ \E n \in Names : RecordMarker(n)
    \/ \E p \in PlacedIds : RecordPlaced(p)
    \/ \E i \in Ids, s \in Shots : RecordProjectile(i, s)

Stream == StreamHead \/ StreamEntity \/ StreamTail \/ StreamFails

Next == Record \/ Stream

Spec == Init /\ [][Next]_vars

-----------------------------------------------------------------------------
\* What has been written is the beginning of file f.
Begins(f) ==
    /\ phase # "record" => out.endFrame = f.endFrame
    /\ IsPrefix(out.entities, f.entities)
    /\ phase \in {"tail", "done"} => Len(out.entities) = Len(f.entities)
    /\ phase = "done" => out.events = f.events /\ out.markers = f.markers

\* "Output is JSON-equivalent to json.NewEncoder(w).Encode(Build(data))"
\* (stream.go:22), as far as it goes: while Build returns, no ID is a soldier's
\* and a vehicle's (Build keeps the vehicle, Stream the soldier) and every bullet
\* that is drawn as a line was fired by a recorded soldier, Stream writes what
\* Build returns, and at any moment, also when a write fails, the beginning of it.
StreamMatchesBuild ==
    LET d == MissionData
    IN  (/\ ~BuildPanics(d)
         /\ Present(d, "soldier") \intersect Present(d, "vehicle") = {}
         /\ \A i \in Ids \ Present(d, "soldier") : firelines(d, i) = <<>>) =>
            Begins(Build(d))

\* The last frame in which a unit is shown: its end, or the frame before its
\* last state if that came after the end.
lastShown(u) ==
    Max({IF u.delete > 0 THEN u.delete ELSE computedMaxFrame(MissionData),
         Last(u.states) - 1})

\* The state of a unit at frame f: the last one recorded until then.
stateAt(u, f) == Max({s \in DOMAIN u.states : u.states[s] <= f})

\* In every frame from its first state on until its end, a soldier has one
\* position and a vehicle one range, that of its last state until then: gaps
\* are filled, and of two states in one frame the later one counts
\* (buildSoldierEntity, buildVehicleEntity).
PositionsFollowStates ==
    \A n \in DOMAIN out.entities :
        LET e == out.entities[n]
            u == units[IF e.type = "unit" THEN "soldier" ELSE "vehicle"][n - 1]
        IN  (e.type # "" /\ u.states # <<>>) =>
                LET first  == u.states[1]
                    frames == first..lastShown(u)
                IN  IF e.type = "unit"
                    THEN e.positions = [k \in 1..Cardinality(frames) |->
                                           stateAt(u, first + k - 1)]
                    ELSE \A f \in 1..MaxFrame :
                            {p[1] : p \in {q \in Range(e.positions) :
                                q[2] <= frameToV1(f) /\ frameToV1(f) <= q[3]}}
                            = IF f \in frames THEN {stateAt(u, f)} ELSE {}

\* The shots of soldier i: the fired events of its record, and every bullet.
shotsOf(i) ==
    {<<"fired", i, s>> : s \in DOMAIN units["soldier"][i].fired}
    \union {<<"bullet", j>> : j \in {k \in DOMAIN projectiles :
                                        isFireline(MissionData, k, i)}}

\* The place of an entity in the file is its ID ("array index must equal entity
\* ID", builder.go:132), IDs that were not recorded included, and a soldier's
\* shots, the fired events of its record and its bullets, are with the soldier:
\* none is missing, is there twice or is another soldier's.
EntitiesAtTheirIndex ==
    /\ phase \in {"tail", "done"} =>
          \A k \in Kinds : \A i \in Present(MissionData, k) : i < Len(out.entities)
    /\ \A n \in DOMAIN out.entities :
        LET e == out.entities[n]
            i == n - 1
        IN  /\ e.type = IF i \in Present(MissionData, "soldier") THEN "unit"
                        ELSE IF i \in Present(MissionData, "vehicle") THEN "vehicle"
                        ELSE ""
            /\ e.type # "" => e.id = i
            /\ e.type = "unit" =>
                  LET ff == e.framesFired
                  IN  /\ {ff[s].of : s \in DOMAIN ff} = shotsOf(i)
                      /\ \A s, t \in DOMAIN ff : ff[s].of = ff[t].of => s = t

\* What every event row of the file comes from.
recordedEvents ==
    (UNION {{<<s, n>> : n \in DOMAIN events[s]} : s \in Range(EventSlices)})
    \union (UNION {{<<"placed", p, n>> :
                      n \in {m \in DOMAIN placed[p].events :
                                placed[p].events[m].type = "hit"}} :
                   p \in {q \in PlacedIds : placed[q] # None}})
    \union (UNION {{<<"projectile", n, h>> : h \in DOMAIN projectiles[n].hits} :
                   n \in DOMAIN projectiles})

\* The events of the file are in chronological order, those of one slice in the
\* order of their recording, and none is missing or twice ("Sort events by frame
\* so consumers can rely on chronological order", stream.go:32).
EventsInOrder ==
    phase = "done" =>
        /\ {row.of : row \in Range(out.events)} = recordedEvents
        /\ \A m, n \in DOMAIN out.events : m < n =>
              LET a == out.events[m]
                  b == out.events[n]
              IN  /\ a.frame <= b.frame
                  /\ a.of # b.of
                  /\ (a.of[1] = b.of[1] /\ a.of[1] \in Range(EventSlices)) =>
                        a.of[2] < b.of[2]
=============================================================================
