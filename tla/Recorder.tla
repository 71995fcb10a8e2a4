------------------------------ MODULE Recorder ------------------------------
(***************************************************************************)
(* The recording pipeline: the worker's handlers (internal/worker), the    *)
(* entity and marker caches (internal/cache), :MISSION:START: and the      *)
(* mission end of :MISSION:SAVE: (cmd/ocap_recorder), over MemoryBackend.  *)
(*                                                                         *)
(* The game thread sends one command at a time.  CREATE commands run in it *)
(* and touch a cache and the backend one after the other.  STATE, DELETE   *)
(* and EVENT commands and :MISSION:START: are queued, each command in a    *)
(* channel with a goroutine of its own, so nothing orders two commands.    *)
(* Every call of a cache or of the backend is a step.  Arguments parse.    *)
(*                                                                         *)
(* Entities, markers and samples carry the mission the game was in when it *)
(* sent them (Data = Missions, Samples = the items below): the code keeps  *)
(* no such mark, the properties are about it.                              *)
(***************************************************************************)
EXTENDS MemoryBackend

CONSTANTS
    ActiveKinds,   \* the entity kinds of the instance
    SoldierEvents, \* event kinds that need a cached soldier (ACE3)
    WaitsForOk,    \* does the game wait for :MISSION:OK: before it records?
    MaxSent,       \* bound: commands other than START and SAVE
    MaxSaves       \* bound: :MISSION:SAVE: commands

Sample(m, x) == [src |-> m, of |-> x]

ASSUME RecorderAssumption ==
    /\ Data = Missions
    /\ Samples = [src : Missions, of : ObjIds \union Names]
    /\ ActiveKinds \subseteq Kinds
    /\ SoldierEvents \subseteq EventKinds
    /\ WaitsForOk \in BOOLEAN
    /\ MaxSent \in Nat /\ MaxSaves \in Nat
    \* None is told from entries and records, a marker from an entity.
    /\ None \notin [src : Missions, player : BOOLEAN]
    /\ None \notin [data : Missions, states : Seq(Samples), deleteFrame : Frames]
    /\ Names \intersect (Kinds \X ObjIds) = {}

VARIABLES
    entityCache,  \* EntityCache: [kind][id] -> entry
    markerCache,  \* MarkerCache: name -> ID
    stateq,       \* per kind: the STATE (EVENT for placed objects) channel
    deleteq,      \* per kind: the DELETE channel
    eventq,       \* per event kind: the EVENT channel
    moveq,        \* the :MARKER:STATE: channel
    unmarkq,      \* the :MARKER:DELETE: channel
    startq,       \* the :MISSION:START: channel (capacity 1)
    stater,       \* per kind: the goroutine of the STATE channel
    mover,        \* the goroutine of the :MARKER:STATE: channel
    starter,      \* the goroutine of the :MISSION:START: channel
    saving,       \* a save goroutine has not called EndMission yet
    drains,       \* does the game start a mission only when nothing is pending?
    game,         \* the CREATE command the game thread is in
    current,      \* the mission of the game's last :MISSION:START:
    started,      \* the missions it has started
    acked,        \* the mission of the last :MISSION:OK:
    created,      \* history: what it created since its last :MISSION:START:
    sent, savesLeft,  \* commands left
    lost          \* history: samples refused or discarded while they mattered

caches == <<entityCache, markerCache>>
queues == <<stateq, deleteq, eventq, moveq, unmarkq, startq>>
gorout == <<stater, mover, starter, saving>>
gvars  == <<drains, game, current, started, acked, created, sent, savesLeft>>
rvars  == <<bvars, caches, queues, gorout, gvars, lost>>

Resting == [pc |-> "idle"]

RInit ==
    /\ BInit
    /\ entityCache = [k \in Kinds |-> [i \in ObjIds |-> None]]
    /\ markerCache = [n \in Names |-> None]
    /\ stateq  = [k \in Kinds |-> <<>>]
    /\ deleteq = [k \in Kinds |-> <<>>]
    /\ eventq  = [k \in EventKinds |-> <<>>]
    /\ moveq = <<>> /\ unmarkq = <<>> /\ startq = <<>>
    /\ stater = [k \in Kinds |-> Resting]
    /\ mover = Resting /\ starter = Resting /\ saving = FALSE
    /\ drains \in BOOLEAN
    /\ game = Resting
    /\ current = None /\ started = {} /\ acked = None /\ created = {}
    /\ sent = 0 /\ savesLeft = MaxSaves
    /\ lost = {}

-----------------------------------------------------------------------------
(* The game thread *)

\* It is free for the next recording command.
Recording ==
    /\ game = Resting
    /\ current # None
    /\ WaitsForOk => acked = current
    /\ sent < MaxSent

NothingPending ==
    /\ \A k \in Kinds :
          stateq[k] = <<>> /\ deleteq[k] = <<>> /\ stater[k] = Resting
    /\ \A k \in EventKinds : eventq[k] = <<>>
    /\ moveq = <<>> /\ unmarkq = <<>> /\ mover = Resting
    /\ startq = <<>> /\ starter = Resting /\ ~saving

\* (As it would be if the soldier reached the backend only.)
CreateEntityUncached(k, i) ==
    /\ Recording
    /\ game' = [pc |-> "addEntity", kind |-> k, id |-> i, src |-> current]
    /\ created' = created \union {<<k, i>>}
    /\ sent' = sent + 1
    /\ UNCHANGED <<bvars, caches, queues, gorout, drains, current, started,
                   acked, savesLeft, lost>>

\* handleNewSoldier, handleNewVehicle, handleNewPlaced: first the cache ...
CreateEntity(k, i) ==
    /\ Recording
    /\ entityCache' = [entityCache EXCEPT ![k][i] =
                          [src |-> current, player |-> FALSE]]
    /\ game' = [pc |-> "addEntity", kind |-> k, id |-> i, src |-> current]
    /\ created' = created \union {<<k, i>>}
    /\ sent' = sent + 1
    /\ UNCHANGED <<bvars, markerCache, queues, gorout, drains, current, started,
                   acked, savesLeft, lost>>

\* ... then the backend; the command returns.
CreateEntityBackend ==
    /\ game.pc = "addEntity"
    /\ AddEntity(game.kind, game.id, game.src)
    /\ game' = Resting
    /\ UNCHANGED <<caches, queues, gorout, drains, current, started, acked,
                   created, sent, savesLeft, lost>>

\* handleMarkerCreate: first the backend, which assigns the ID ...
CreateMarker(n) ==
    /\ Recording
    /\ AddMarker(n, current)
    /\ game' = [pc |-> "setMarker", name |-> n, id |-> NewMarkerID]
    /\ created' = created \union {n}
    /\ sent' = sent + 1
    /\ UNCHANGED <<caches, queues, gorout, drains, current, started, acked,
                   savesLeft, lost>>

\* (As it would be if a cached name kept its ID.)
KeepCachedMarker ==
    /\ game.pc = "setMarker"
    /\ markerCache' = [markerCache EXCEPT ![game.name] =
                          IF @ = None THEN game.id ELSE @]
    /\ game' = Resting
    /\ UNCHANGED <<bvars, entityCache, queues, gorout, drains, current, started,
                   acked, created, sent, savesLeft, lost>>

\* ... then the cache.
CreateMarkerCache ==
    /\ game.pc = "setMarker"
    /\ markerCache' = [markerCache EXCEPT ![game.name] = game.id]
    /\ game' = Resting
    /\ UNCHANGED <<bvars, entityCache, queues, gorout, drains, current, started,
                   acked, created, sent, savesLeft, lost>>

\* The queued commands; the game sends them for what it has created.
Send ==
    /\ Recording
    /\ sent' = sent + 1
    /\ \/ \E k \in ActiveKinds, i \in ObjIds, p \in BOOLEAN :
             /\ <<k, i>> \in created
             /\ p => k = "soldier"
             /\ stateq' = [stateq EXCEPT ![k] =
                    Append(@, [id |-> i, src |-> current, player |-> p])]
             /\ UNCHANGED <<deleteq, eventq, moveq, unmarkq>>
       \/ \E k \in ActiveKinds \ {"placed"}, i \in ObjIds, f \in DeleteFrames :
             /\ <<k, i>> \in created
             /\ deleteq' = [deleteq EXCEPT ![k] =
                    Append(@, [id |-> i, frame |-> f])]
             /\ UNCHANGED <<stateq, eventq, moveq, unmarkq>>
       \/ \E k \in EventKinds, i \in ObjIds, by \in ObjIds \union {None} :
             /\ eventq' = [eventq EXCEPT ![k] =
                    Append(@, [of |-> i, by |-> by])]
             /\ UNCHANGED <<stateq, deleteq, moveq, unmarkq>>
       \/ \E n \in Names \intersect created :
             /\ moveq' = Append(moveq, [name |-> n, src |-> current])
             /\ UNCHANGED <<stateq, deleteq, eventq, unmarkq>>
       \/ \E n \in Names \intersect created, f \in DeleteFrames :
             /\ unmarkq' = Append(unmarkq, [name |-> n, frame |-> f])
             /\ UNCHANGED <<stateq, deleteq, eventq, moveq>>
    /\ UNCHANGED <<bvars, caches, startq, gorout, drains, game, current,
                   started, acked, created, savesLeft, lost>>

\* :MISSION:START: is queued.
SendStart(m) ==
    /\ game = Resting
    /\ m \notin started
    /\ startq = <<>>
    /\ WaitsForOk => acked = current
    /\ drains => NothingPending
    /\ startq' = <<m>>
    /\ current' = m
    /\ started' = started \union {m}
    /\ created' = {}
    /\ UNCHANGED <<drains, bvars, caches, stateq, deleteq, eventq, moveq,
                   unmarkq, gorout, game, acked, sent, savesLeft, lost>>

\* :MISSION:SAVE: is accepted: its goroutine is about to end the mission.
SendSave ==
    /\ game = Resting
    /\ ~saving
    /\ savesLeft > 0
    /\ saving' = TRUE
    /\ savesLeft' = savesLeft - 1
    /\ UNCHANGED <<bvars, caches, queues, stater, mover, starter, drains, game,
                   current, started, acked, created, sent, lost>>

-----------------------------------------------------------------------------
(* handleNewMission, in the goroutine of :MISSION:START: *)

StartTake ==
    /\ starter = Resting
    /\ startq # <<>>
    /\ startq' = Tail(startq)
    /\ starter' = [pc |-> "markers", mission |-> Head(startq)]
    /\ UNCHANGED <<bvars, caches, stateq, deleteq, eventq, moveq, unmarkq,
                   stater, mover, saving, gvars, lost>>

ResetMarkerCache ==
    /\ starter.pc = "markers"
    /\ markerCache' = [n \in Names |-> None]
    /\ starter' = [starter EXCEPT !.pc = "entities"]
    /\ UNCHANGED <<bvars, entityCache, queues, stater, mover, saving, gvars,
                   lost>>

\* (As it would be if Reset forgot the placed objects.)
ResetAllButPlaced ==
    /\ starter.pc = "entities"
    /\ entityCache' = [k \in Kinds |-> IF k = "placed" THEN entityCache[k]
                                      ELSE [i \in ObjIds |-> None]]
    /\ starter' = [starter EXCEPT !.pc = "backend"]
    /\ UNCHANGED <<bvars, markerCache, queues, stater, mover, saving, gvars,
                   lost>>

ResetEntityCache ==
    /\ starter.pc = "entities"
    /\ entityCache' = [k \in Kinds |-> [i \in ObjIds |-> None]]
    /\ starter' = [starter EXCEPT !.pc = "backend"]
    /\ UNCHANGED <<bvars, markerCache, queues, stater, mover, saving, gvars,
                   lost>>

StartBackend ==
    /\ starter.pc = "backend"
    /\ StartMission(starter.mission)
    /\ starter' = [starter EXCEPT !.pc = "ok"]
    /\ UNCHANGED <<caches, queues, stater, mover, saving, gvars, lost>>

\* The :MISSION:OK: callback.
StartOk ==
    /\ starter.pc = "ok"
    /\ acked' = starter.mission
    /\ starter' = Resting
    /\ UNCHANGED <<bvars, caches, queues, stater, mover, saving, drains, game,
                   current, started, created, sent, savesLeft, lost>>

\* EndMission, in the goroutine of a save.
EndBackend ==
    /\ saving
    /\ EndWithoutMission \/ EndSucceeds \/ EndFails
    /\ saving' = FALSE
    /\ UNCHANGED <<caches, queues, stater, mover, starter, gvars, lost>>

-----------------------------------------------------------------------------
(* handleSoldierState, handleVehicleState, handlePlacedEvent *)

\* A sample of the mission that the game, the caches and the backend are in.
Matters(m) == m = mission /\ m = current

\* A state of a player updates the cached soldier unless that is a player of
\* the same name already.
Continuations(e, c) ==
    (IF e.player THEN {"update"} ELSE {}) \union
    (IF e.player /\ ~c.player THEN {} ELSE {"record"})

\* Takes the event and looks its entity up in the cache.
StateTake(k) ==
    /\ stater[k] = Resting
    /\ stateq[k] # <<>>
    /\ stateq' = [stateq EXCEPT ![k] = Tail(@)]
    /\ LET e == Head(stateq[k])
           c == entityCache[k][e.id]
       IN  IF c = None      \* ErrTooEarlyForStateAssociation
           THEN /\ lost' = IF Matters(e.src) THEN lost \union {e} ELSE lost
                /\ UNCHANGED stater
           ELSE /\ \E pc \in Continuations(e, c) :
                      stater' = [stater EXCEPT ![k] =
                                    [pc |-> pc, ev |-> e, entry |-> c]]
                /\ UNCHANGED lost
    /\ UNCHANGED <<bvars, caches, deleteq, eventq, moveq, unmarkq, startq,
                   mover, starter, saving, gvars>>

\* (As it would be if a takeover recorded the state that told of it.)
StateUpdateRecords(k) ==
    /\ stater[k].pc = "update"
    /\ entityCache' = [entityCache EXCEPT ![k][stater[k].ev.id] =
                          [stater[k].entry EXCEPT !.player = TRUE]]
    /\ LET e == stater[k].ev
       IN  RecordSample(k, e.id, Sample(e.src, e.id))
    /\ stater' = [stater EXCEPT ![k].pc = "record"]
    /\ UNCHANGED <<markerCache, queues, mover, starter, saving, gvars, lost>>

\* A player takes the unit over: the entry that was read goes back, changed.
StateUpdate(k) ==
    /\ stater[k].pc = "update"
    /\ entityCache' = [entityCache EXCEPT ![k][stater[k].ev.id] =
                          [stater[k].entry EXCEPT !.player = TRUE]]
    /\ stater' = [stater EXCEPT ![k].pc = "record"]
    /\ UNCHANGED <<bvars, markerCache, queues, mover, starter, saving, gvars,
                   lost>>

\* RecordSoldierState, RecordVehicleState, RecordPlacedObjectEvent.
StateRecord(k) ==
    /\ stater[k].pc = "record"
    /\ LET e == stater[k].ev
       IN  /\ RecordSample(k, e.id, Sample(e.src, e.id))
           /\ lost' = IF entities[k][e.id] = None /\ Matters(e.src)
                      THEN lost \union {e} ELSE lost
    /\ stater' = [stater EXCEPT ![k] = Resting]
    /\ UNCHANGED <<caches, queues, mover, starter, saving, gvars>>

\* handleSoldierDelete, handleVehicleDelete: no lookup in the cache.
DeleteTake(k) ==
    /\ deleteq[k] # <<>>
    /\ DeleteEntity(k, Head(deleteq[k]).id, Head(deleteq[k]).frame)
    /\ deleteq' = [deleteq EXCEPT ![k] = Tail(@)]
    /\ UNCHANGED <<caches, stateq, eventq, moveq, unmarkq, startq, gorout,
                   gvars, lost>>

\* An ACE3 event needs a cached soldier, and the entity that caused it, if it
\* names one, cached as well.
EventAccepted(k, e) ==
    k \in SoldierEvents =>
        /\ entityCache["soldier"][e.of] # None
        /\ e.by # None => \E s \in {"soldier", "vehicle"} :
                              entityCache[s][e.by] # None

\* The handlers of the append-only events.
EventTake(k) ==
    /\ eventq[k] # <<>>
    /\ IF EventAccepted(k, Head(eventq[k])) THEN RecordEvent(k)
                                           ELSE UNCHANGED bvars
    /\ eventq' = [eventq EXCEPT ![k] = Tail(@)]
    /\ UNCHANGED <<caches, stateq, deleteq, moveq, unmarkq, startq, gorout,
                   gvars, lost>>

-----------------------------------------------------------------------------
(* handleMarkerMove, handleMarkerDelete *)

\* Takes the event and resolves the marker name to its ID.
MoveTake ==
    /\ mover = Resting
    /\ moveq # <<>>
    /\ moveq' = Tail(moveq)
    /\ LET e == Head(moveq)
       IN  IF markerCache[e.name] = None
           THEN /\ lost' = IF Matters(e.src) THEN lost \union {e} ELSE lost
                /\ UNCHANGED mover
           ELSE /\ mover' = [pc |-> "record", ev |-> e,
                             id |-> markerCache[e.name]]
                /\ UNCHANGED lost
    /\ UNCHANGED <<bvars, caches, stateq, deleteq, eventq, unmarkq, startq,
                   stater, starter, saving, gvars>>

\* RecordMarkerState, by ID.
MoveRecord ==
    /\ mover.pc = "record"
    /\ RecordMarkerState(mover.id, Sample(mover.ev.src, mover.ev.name))
    /\ lost' = IF mover.id \notin DOMAIN markersByID /\ Matters(mover.ev.src)
               THEN lost \union {mover.ev} ELSE lost
    /\ mover' = Resting
    /\ UNCHANGED <<caches, queues, stater, starter, saving, gvars>>

UnmarkTake ==
    /\ unmarkq # <<>>
    /\ DeleteMarker(Head(unmarkq).name, Head(unmarkq).frame)
    /\ unmarkq' = Tail(unmarkq)
    /\ UNCHANGED <<caches, stateq, deleteq, eventq, moveq, startq, gorout,
                   gvars, lost>>

-----------------------------------------------------------------------------
Game ==
    \/ \E k \in ActiveKinds, i \in ObjIds : CreateEntity(k, i)
    \/ CreateEntityBackend
    \/ \E n \in Names : CreateMarker(n)
    \/ CreateMarkerCache
    \/ Send
    \/ \E m \in Missions : SendStart(m)
    \/ SendSave

Start == StartTake \/ ResetMarkerCache \/ ResetEntityCache \/ StartBackend
            \/ StartOk

Handlers ==
    \/ \E k \in ActiveKinds :
          StateTake(k) \/ StateUpdate(k) \/ StateRecord(k) \/ DeleteTake(k)
    \/ \E k \in EventKinds : EventTake(k)
    \/ MoveTake \/ MoveRecord \/ UnmarkTake

RNext == Game \/ Start \/ Handlers \/ EndBackend

RSpec == RInit /\ [][RNext]_rvars

-----------------------------------------------------------------------------
\* Between two missions the tables are being replaced.
Steady == starter = Resting /\ game = Resting /\ mission # None

\* When the game drains the queues before a start, everything the backend holds
\* for a mission was sent in that mission: no entity, marker or sample of an
\* earlier one gets into its export.
MissionIsolation ==
    (drains /\ mission # None) =>
        /\ \A k \in Kinds, i \in ObjIds : entities[k][i] # None =>
              /\ entities[k][i].data = mission
              /\ \A j \in DOMAIN entities[k][i].states :
                    entities[k][i].states[j].src = mission
        /\ \A id \in DOMAIN markersByID :
              /\ markersByID[id].data = mission
              /\ \A j \in DOMAIN markersByID[id].states :
                    markersByID[id].states[j].src = mission

\* When the game drains the queues before a start, a marker's record holds
\* states of that marker only while a mission runs, although states are sent by
\* name and recorded by an ID that was looked up earlier.  (After
\* EndMission the IDs start again while MarkerCache keeps the old ones;
\* StartMission discards what is recorded in between.)
MarkerStatesAreItsOwn ==
    (drains /\ mission # None) => \A id \in DOMAIN markersByID :
        \A j \in DOMAIN markersByID[id].states :
            markersByID[id].states[j].of = markersByID[id].name

\* No sample of the running mission is refused or discarded: an entity or
\* marker whose CREATE has returned is known to the cache and the backend
\* when its first sample arrives ("Entity creation - sync (need to cache before
\* states arrive)", RegisterHandlers).
NoSampleLost == lost = {}

\* While a mission runs, a cached entity has a record in the backend and a
\* cached marker ID is the one its name has in the backend.
CachesMatchBackend ==
    Steady =>
        /\ \A k \in Kinds, i \in ObjIds :
              (entityCache[k][i] # None /\ entityCache[k][i].src = mission) =>
                  entities[k][i] # None /\ entities[k][i].data = mission
        /\ \A n \in Names : markerCache[n] # None => markerCache[n] = markers[n]

\* "EntityCache is a map of all entities in the current mission" (main.go).  It
\* does not hold of a game that starts a mission while states are queued.
CacheHoldsCurrentMission ==
    Steady =>
        \A k \in Kinds, i \in ObjIds :
            entityCache[k][i] # None => entityCache[k][i].src = mission

\* When the game drains the queues before a start, the cache has no entity of
\* an earlier mission.
DrainedCacheIsCurrent == drains => CacheHoldsCurrentMission
-----------------------------------------------------------------------------
\* The pipeline as Recording has it.  A sample is pending in the channel of its
\* kind or with the goroutine of the channel.
Streams == Kinds \union {"marker"}

InHand(worker) == IF worker = Resting THEN <<>> ELSE <<worker.ev>>
Waiting(s) == IF s = "marker" THEN InHand(mover) \o moveq
                              ELSE InHand(stater[s]) \o stateq[s]
Thing(s, e) == IF s = "marker" THEN e.name ELSE e.id
Items(s, w) == [n \in DOMAIN w |-> Sample(w[n].src, Thing(s, w[n]))]
Pending(s) == Items(s, Waiting(s))

EntityRecords(es) ==
    [i \in {j \in ObjIds : es[j] # None} |->
        [of |-> i, src |-> es[i].data, samples |-> es[i].states]]
MarkerRecords(ms) ==
    [x \in DOMAIN ms |->
        [of |-> ms[x].name, src |-> ms[x].data, samples |-> ms[x].states]]

\* What the backend holds while no mission is active is discarded by
\* StartMission, and no part of a recording.
Records(s) ==
    IF mission = None THEN [key \in {} |-> None]
    ELSE IF s = "marker" THEN MarkerRecords(markersByID)
                         ELSE EntityRecords(entities[s])

Recordings == INSTANCE Recording WITH
    Things   <- ObjIds \union Names,
    orderly  <- drains,
    running  <- mission,
    pending  <- [s \in Streams |-> Pending(s)],
    recorded <- [s \in Streams |-> Records(s)]

\* Every step of the pipeline is a step of Recording or leaves it alone: whatever
\* caches, channels and goroutines a sample goes through, it is recorded at most
\* once, after those sent before it on its channel, and is discarded only around a
\* change of missions; and if the game drains the queues before a start, it gets
\* into a record of its own entity or marker, in the recording of its own mission.
ImplementsRecording == Recordings!CSpec
=============================================================================
