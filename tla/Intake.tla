------------------------------- MODULE Intake -------------------------------
(***************************************************************************)
(* One command on its way from the game to a row of the database: the      *)
(* arguments are parsed (Parser), the handler looks the objects up in the  *)
(* caches (internal/worker/dispatch.go), and the backend converts the core *)
(* struct and queues the row (GormModel).                                  *)
(*                                                                         *)
(* The game thread runs the create commands; a buffered command runs on    *)
(* the goroutine of its channel, so between any two of its lookups the     *)
(* game thread may create objects.  Handlers share nothing but the caches, *)
(* which only the create commands change: the module follows one call,     *)
(* among creations the game makes before, during and after it.  Recorder   *)
(* has the channels and the resets of the caches.                          *)
(***************************************************************************)
EXTENDS GormModel, FiniteSets

CONSTANTS
    Soldiers, Vehicles, Placed, Markers,    \* the objects of the mission, by ID
    Wide,       \* IDs of soldiers that do not fit in 16 bits
    Players,    \* the soldiers that are players
    Sizes       \* how large the values of a call are

(* What an integer column holds. *)
MaxInt32 == 2147483647

ASSUME IDsAreDistinct ==
    LET kinds == << Soldiers, Vehicles, Placed, Markers >> IN
    /\ \A i \in 1..4 : kinds[i] \subseteq UInt16
    /\ \A i, j \in 1..4 : i # j => kinds[i] \intersect kinds[j] = {}
    /\ Wide \subseteq Nat \ UInt16
    /\ \A id \in Wide : id <= MaxInt32

(* A float32 holds each of them exactly. *)
ASSUME SizesAreSmall == Sizes # {} /\ Sizes \subseteq UInt16

VARIABLES
    format,     \* how the game writes its numbers
    cache,      \* EntityCache and MarkerCache: the objects a lookup finds
    table,      \* the objects the backend has been given
    game,       \* the object of the create command the game thread is in: one or none
    call,       \* the call that is followed
    known,      \* the objects that were created when it was sent
    stage,      \* how far it is
    obj,        \* the core struct it was parsed into
    todo,       \* the lookups its handler still makes
    resolved,   \* what its optional lookups have found
    row         \* the row it became

vars == << format, cache, table, game, call, known, stage, obj, todo, resolved, row >>

-----------------------------------------------------------------------------
(* What the game sends.  The names and the order of the arguments are the  *)
(* ones model.go and the comments of the parse functions give.             *)

Bools == {"isPlayer", "inVehicle", "hasStableVitals", "isDragged", "alive", "engineOn",
          "locked", "isAdditional", "isUnconscious"}
Positions == {"pos", "position", "xyz"}
Jsons == {"squadParams", "positions", "hitParts", "extraDataJSON", "serverFPS", "sides",
          "global", "scripts", "weather", "players"}
Numeric ==
    {"ocapId", "entityId", "id", "victimOcapId", "killerOcapId", "senderOcapId",
     "soldierOcapId", "lastDamageSourceOcapId", "vehicleOcapId", "ownerOcapId",
     "hitEntityOcapId", "firerID", "vehicleID", "remoteControllerID", "frameNo", "frame",
     "firedFrame", "dir", "lifeState", "fuel", "damage", "turretAz", "turretEl", "distance",
     "channel", "frequency", "timeMultiplier", "missionTime", "direction", "alpha",
     "posX", "posY", "posZ"}

Form(name) ==
    CASE name \in Bools -> "bool"
      [] name \in Positions -> "pos"
      [] name \in Jsons -> "json"
      [] name \in Numeric -> format
      [] name = "scores" -> IF format = "int" THEN "scores" ELSE "floatscores"
      [] OTHER -> "text"

(* A command: the names of its arguments, the one that carries the object  *)
(* it is about and the one that carries another, with the IDs they may     *)
(* have, and the parse function and the columns it ends in.                *)
Does(args, self, selves, other, others, parse, columns) ==
    [args |-> args, self |-> self, selves |-> selves, other |-> other, others |-> others,
     parse |-> parse, columns |-> columns]

Alone(args, self, selves, parse, columns) ==
    Does(args, self, selves, "none", {-1}, parse, columns)

Men == Soldiers \union Wide
Entities == Men \union Vehicles

EntityID == << "entityId", "frameNo" >>
DeleteColumns == [id |-> "entityId", frame |-> "frameNo"]

SOLDIER_CREATE ==
    Alone(<< "frameNo", "ocapId", "name", "groupId", "side", "isPlayer",
             "roleDescription", "className", "displayName", "playerUID", "squadParams" >>,
          "ocapId", Men, ParseSoldier, Soldier)

VEHICLE_CREATE ==
    Alone(<< "frameNo", "ocapId", "vehicleClass", "displayName", "className",
             "customization", "side" >>, "ocapId", Vehicles, ParseVehicle, Vehicle)

PLACED_CREATE ==
    Does(<< "frame", "id", "className", "displayName", "xyz", "ownerOcapId", "side",
            "weapon", "magazineIcon" >>, "id", Placed, "ownerOcapId", Men,
         ParsePlacedObject, PlacedObject)

MARKER_CREATE ==
    Alone(<< "markerName", "direction", "type", "text", "frameNo", "-1", "ownerOcapId",
             "color", "size", "side", "position", "shape", "alpha", "brush" >>,
          "markerName", Markers, ParseMarkerCreate, Marker)

SOLDIER_STATE ==
    Does(<< "ocapId", "pos", "dir", "lifeState", "inVehicle", "name", "isPlayer", "role",
            "frameNo", "hasStableVitals", "isDragged", "scores", "vehicleRole",
            "vehicleOcapId", "stance", "groupID", "side" >>,
         "ocapId", Men, "vehicleOcapId", Vehicles \union {-1}, ParseSoldierState,
         SoldierState)

VEHICLE_STATE ==
    Alone(<< "ocapId", "pos", "dir", "alive", "crew", "frameNo", "fuel", "damage",
             "engineOn", "locked", "side", "vectorDir", "vectorUp", "turretAz",
             "turretEl" >>, "ocapId", Vehicles, ParseVehicleState, VehicleState)

MARKER_STATE ==
    Alone(<< "markerName", "frameNo", "position", "direction", "alpha", "text", "color",
             "size", "type", "brush", "shape" >>, "markerName", Markers,
          ParseMarkerMove, MarkerState)

MARKER_DELETE ==
    Alone(<< "markerName", "frameNo" >>, "markerName", Markers, ParseMarkerDelete,
          [markerID |-> "markerName", captureFrame |-> "frameNo"])

SOLDIER_DELETE ==
    Alone(EntityID, "entityId", Men, ParseSoldierDelete, DeleteColumns)

VEHICLE_DELETE ==
    Alone(EntityID, "entityId", Vehicles, ParseVehicleDelete, DeleteColumns)

PLACED_EVENT ==
    Does(<< "frame", "id", "eventType", "xyz", "hitEntityOcapId" >>, "id", Placed,
         "hitEntityOcapId", Entities, ParsePlacedObjectEvent, PlacedObjectEvent)

EVENT_PROJECTILE ==
    Does(<< "firedFrame", "firedTime", "firerID", "vehicleID", "vehicleRole",
            "remoteControllerID", "weapon", "weaponDisplay", "muzzle", "muzzleDisplay",
            "magazine", "magazineDisplay", "ammo", "fireMode", "positions",
            "initialVelocity", "hitParts", "sim", "isSub", "magazineIcon" >>,
         "firerID", Men, "vehicleID", Vehicles \union {-1}, ParseProjectileEvent,
         ProjectileEvent)

EVENT_KILL ==
    Does(<< "frameNo", "victimOcapId", "killerOcapId", "weaponText", "distance" >>,
         "victimOcapId", Entities, "killerOcapId", Entities, ParseKillEvent, KillEvent)

EVENT_CHAT ==
    Alone(<< "frameNo", "senderOcapId", "channel", "from", "name", "text",
             "playerUID" >>, "senderOcapId", Men \union {-1}, ParseChatEvent, ChatEvent)

EVENT_RADIO ==
    Alone(<< "frameNo", "senderOcapId", "radio", "radioType", "startEnd", "channel",
             "isAdditional", "frequency", "code" >>,
          "senderOcapId", Men \union {-1}, ParseRadioEvent, RadioEvent)

ACE3_DEATH ==
    Does(<< "frameNo", "victimOcapId", "causeOfDeath", "lastDamageSourceOcapId" >>,
         "victimOcapId", Men, "lastDamageSourceOcapId", Entities \union {-1},
         ParseAce3DeathEvent, Ace3DeathEvent)

ACE3_UNCONSCIOUS ==
    Alone(<< "frameNo", "soldierOcapId", "isUnconscious" >>, "soldierOcapId", Men,
          ParseAce3UnconsciousEvent, Ace3UnconsciousEvent)

EVENT_GENERAL ==
    Alone(<< "frameNo", "eventType", "message", "extraDataJSON" >>, "none", {-1},
          ParseGeneralEvent, GeneralEvent)

EVENT_SECTOR ==
    Alone(<< "frame", "type", "objectType", "unitName", "side", "posX", "posY", "posZ" >>,
          "none", {-1}, ParseSectorEvent, SectorEvent)

EVENT_ENDMISSION ==
    Alone(<< "frame", "side", "message" >>, "none", {-1}, ParseEndMissionEvent,
          EndMissionEvent)

TELEMETRY_FRAME ==
    Alone(<< "frameNo", "serverFPS", "sides", "global", "scripts", "weather", "players" >>,
          "none", {-1}, ParseTelemetryEvent, ServerFpsEvent)

TIME_STATE ==
    Alone(<< "frameNo", "systemTimeUTC", "missionDateTime", "timeMultiplier",
             "missionTime" >>, "none", {-1}, ParseTimeState, TimeState)

MISSION_FOCUS_START ==
    Alone(<< "frameNo" >>, "none", {-1}, parseFocusFrame, [frame |-> "frameNo"])

MISSION_FOCUS_END ==
    Alone(<< "frameNo" >>, "none", {-1}, parseFocusFrame, [frame |-> "frameNo"])

(* The commands that create an object, and those that report about some. *)
Creates == {":SOLDIER:CREATE:", ":VEHICLE:CREATE:", ":PLACED:CREATE:", ":MARKER:CREATE:"}

Reports ==
    {":SOLDIER:STATE:", ":VEHICLE:STATE:", ":MARKER:STATE:", ":MARKER:DELETE:",
     ":SOLDIER:DELETE:", ":VEHICLE:DELETE:", ":PLACED:EVENT:", ":EVENT:PROJECTILE:",
     ":EVENT:KILL:", ":EVENT:CHAT:", ":EVENT:RADIO:", ":ACE3:DEATH:", ":ACE3:UNCONSCIOUS:",
     ":EVENT:GENERAL:", ":EVENT:SECTOR:", ":EVENT:ENDMISSION:", ":TELEMETRY:FRAME:",
     ":TIME:STATE:", ":MISSION:FOCUS_START:", ":MISSION:FOCUS_END:"}

Commands ==
    [cmd \in Creates \union Reports |->
    CASE cmd = ":SOLDIER:CREATE:" -> SOLDIER_CREATE
      [] cmd = ":VEHICLE:CREATE:" -> VEHICLE_CREATE
      [] cmd = ":PLACED:CREATE:" -> PLACED_CREATE
      [] cmd = ":MARKER:CREATE:" -> MARKER_CREATE
      [] cmd = ":SOLDIER:STATE:" -> SOLDIER_STATE
      [] cmd = ":VEHICLE:STATE:" -> VEHICLE_STATE
      [] cmd = ":MARKER:STATE:" -> MARKER_STATE
      [] cmd = ":MARKER:DELETE:" -> MARKER_DELETE
      [] cmd = ":SOLDIER:DELETE:" -> SOLDIER_DELETE
      [] cmd = ":VEHICLE:DELETE:" -> VEHICLE_DELETE
      [] cmd = ":PLACED:EVENT:" -> PLACED_EVENT
      [] cmd = ":EVENT:PROJECTILE:" -> EVENT_PROJECTILE
      [] cmd = ":EVENT:KILL:" -> EVENT_KILL
      [] cmd = ":EVENT:CHAT:" -> EVENT_CHAT
      [] cmd = ":EVENT:RADIO:" -> EVENT_RADIO
      [] cmd = ":ACE3:DEATH:" -> ACE3_DEATH
      [] cmd = ":ACE3:UNCONSCIOUS:" -> ACE3_UNCONSCIOUS
      [] cmd = ":EVENT:GENERAL:" -> EVENT_GENERAL
      [] cmd = ":EVENT:SECTOR:" -> EVENT_SECTOR
      [] cmd = ":EVENT:ENDMISSION:" -> EVENT_ENDMISSION
      [] cmd = ":TELEMETRY:FRAME:" -> TELEMETRY_FRAME
      [] cmd = ":TIME:STATE:" -> TIME_STATE
      [] cmd = ":MISSION:FOCUS_START:" -> MISSION_FOCUS_START
      [] cmd = ":MISSION:FOCUS_END:" -> MISSION_FOCUS_END]

(* A call may have one argument garbled, left empty or sent as an array,   *)
(* or miss its last arguments.                                             *)
Whole == [at |-> 0, as |-> "whole"]
Flaws(cmd) ==
    LET n == Len(Commands[cmd].args) IN
    [at : 1..n, as : {"text", "empty", "list"}] \union [at : 0..(n - 1), as : {"cut"}]

(* The objects a projectile hits. *)
Hits == {<< >>} \union {<< id >> : id \in Entities \union Placed}
            \union {<< v, s >> : v \in Vehicles, s \in Soldiers}

AnySize == CHOOSE n \in Sizes : TRUE

(* Bound: a flawed call is tried with one choice of its IDs and values. *)
Calls(cmd) ==
    LET c == Commands[cmd]
        hits == IF cmd = ":EVENT:PROJECTILE:" THEN Hits ELSE {<< >>}
        One(S) == {x \in S : x = CHOOSE y \in S : TRUE}
    IN  [cmd : {cmd}, self : c.selves, other : c.others, hits : hits, size : Sizes,
         flaw : {Whole}] \union
        [cmd : {cmd}, self : One(c.selves), other : One(c.others),
         hits : {<< >>}, size : {AnySize}, flaw : Flaws(cmd)]

(* The points of a trajectory: one more than the projectile has hits. *)
Trajectory(c) == [i \in 1..(Len(c.hits) + 1) |-> c.size + i]

(* The value of an argument that is no ID tells its place in the call. *)
ValueAt(c, k) ==
    LET of == Commands[c.cmd] IN
    CASE of.args[k] = of.self -> c.self
      [] of.args[k] = of.other -> c.other
      [] of.args[k] = "hitParts" -> c.hits
      [] of.args[k] = "positions" -> Trajectory(c)
      [] of.args[k] = "isPlayer" -> IF c.self \in Players THEN 1 ELSE 0
      [] OTHER -> c.size + k

Flawed(c, k) ==
    \/ c.flaw.as \in {"text", "empty", "list"} /\ k = c.flaw.at
    \/ c.flaw.as = "cut" /\ k > c.flaw.at

Args(c) ==
    LET names == Commands[c.cmd].args
        n == IF c.flaw.as = "cut" THEN c.flaw.at ELSE Len(names)
    IN  [k \in 1..n |-> [form |-> IF Flawed(c, k) THEN c.flaw.as ELSE Form(names[k]),
                         v |-> ValueAt(c, k)]]

Parsed(c) == Parse(Commands[c.cmd].parse, Args(c))
Understood(c) == Parses(Commands[c.cmd].parse, Args(c))

-----------------------------------------------------------------------------
(* The lookups of the handlers *)

(* The object must be known, or the call is refused. *)
Must(kinds, id) == [kinds |-> kinds, id |-> id, must |-> TRUE, as |-> "none"]

(* classifyEntity, classifyHitParts: the object is a soldier, a vehicle or unknown. *)
Classify(as, id) == [kinds |-> {"soldier", "vehicle"}, id |-> id, must |-> FALSE, as |-> as]

(* Mutant: the last damage source of a death is not checked. *)
SourceNotChecked(kinds, id) ==
    IF id = None \/ "vehicle" \in kinds THEN << >> ELSE << Must(kinds, U16(id)) >>

MustIfSet(kinds, id) == IF id = None THEN << >> ELSE << Must(kinds, U16(id)) >>

Lookups(cmd, e) ==
    CASE cmd = ":SOLDIER:STATE:" -> << Must({"soldier"}, e.soldierID) >>
      [] cmd = ":VEHICLE:STATE:" -> << Must({"vehicle"}, e.vehicleID) >>
      [] cmd = ":PLACED:EVENT:" -> << Must({"placed"}, e.placedID) >>
      [] cmd \in {":MARKER:STATE:", ":MARKER:DELETE:"} -> << Must({"marker"}, e.markerName) >>
      [] cmd = ":EVENT:KILL:" -> << Classify("victim", e.victimID), Classify("killer", e.killerID) >>
      [] cmd = ":EVENT:PROJECTILE:" ->
            [i \in DOMAIN e.hitParts |-> Classify("hit", e.hitParts[i])]
      [] cmd \in {":EVENT:CHAT:", ":EVENT:RADIO:"} -> MustIfSet({"soldier"}, e.soldierID)
      [] cmd = ":ACE3:DEATH:" ->
            << Must({"soldier"}, U16(e.soldierID)) >> \o
            MustIfSet({"soldier", "vehicle"}, e.lastDamageSourceID)
      [] cmd = ":ACE3:UNCONSCIOUS:" -> << Must({"soldier"}, U16(e.soldierID)) >>
      [] OTHER -> << >>

(* What the optional lookups found under a name, of one kind. *)
FoundAs(found, as, kind) ==
    LET its == {f \in found : f.as = as /\ f.kind = kind} IN
    IF its = {} THEN None ELSE (CHOOSE f \in its : TRUE).id

CreatedWith(name) ==
    LET args == SOLDIER_CREATE.args IN
    AnySize + (CHOOSE k \in DOMAIN args : args[k] = name)

(* The core struct the handler gives the backend. *)
Completed(cmd, e, found) ==
    CASE cmd = ":SOLDIER:STATE:" ->
            [e EXCEPT !.groupID = IF @ = None THEN CreatedWith("groupId") ELSE @,
                      !.side = IF @ = None THEN CreatedWith("side") ELSE @]
      [] cmd \in {":MARKER:STATE:", ":MARKER:DELETE:"} ->
            Fields(e, DOMAIN e, [markerID |-> e.markerName])
      [] cmd = ":EVENT:KILL:" ->
            Fields(e, DOMAIN e,
                [victimSoldierID |-> FoundAs(found, "victim", "soldier"),
                 victimVehicleID |-> FoundAs(found, "victim", "vehicle"),
                 killerSoldierID |-> FoundAs(found, "killer", "soldier"),
                 killerVehicleID |-> FoundAs(found, "killer", "vehicle")])
      [] cmd = ":EVENT:PROJECTILE:" ->
            Fields(e, DOMAIN e,
                [hitSoldiers |-> {f.id : f \in {g \in found : g.kind = "soldier"}},
                 hitVehicles |-> {f.id : f \in {g \in found : g.kind = "vehicle"}}])
      [] OTHER -> e

(* The row the backend queues; for the commands the SQL backends ignore,   *)
(* what they are given.                                                    *)
RowOf(cmd, e) ==
    CASE cmd = ":SOLDIER:CREATE:" -> CoreToSoldier(e)
      [] cmd = ":VEHICLE:CREATE:" -> CoreToVehicle(e)
      [] cmd = ":PLACED:CREATE:" -> CoreToPlacedObject(e)
      [] cmd = ":MARKER:CREATE:" -> CoreToMarker(e)
      [] cmd = ":SOLDIER:STATE:" -> CoreToSoldierState(e)
      [] cmd = ":VEHICLE:STATE:" -> CoreToVehicleState(e)
      [] cmd = ":MARKER:STATE:" -> CoreToMarkerState(e)
      [] cmd = ":MARKER:DELETE:" ->
            [markerID |-> e.markerID, captureFrame |-> e.endFrame, alpha |-> 0]
      [] cmd = ":PLACED:EVENT:" -> CoreToPlacedObjectEvent(e)
      [] cmd = ":EVENT:PROJECTILE:" -> CoreToProjectileEvent(e)
      [] cmd = ":EVENT:KILL:" -> CoreToKillEvent(e)
      [] cmd = ":EVENT:CHAT:" -> CoreToChatEvent(e)
      [] cmd = ":EVENT:RADIO:" -> CoreToRadioEvent(e)
      [] cmd = ":ACE3:DEATH:" -> CoreToAce3DeathEvent(e)
      [] cmd = ":ACE3:UNCONSCIOUS:" -> CoreToAce3UnconsciousEvent(e)
      [] cmd = ":EVENT:GENERAL:" -> CoreToGeneralEvent(e)
      [] cmd = ":EVENT:SECTOR:" -> RecordSectorEvent(e)
      [] cmd = ":EVENT:ENDMISSION:" -> RecordEndMissionEvent(e)
      [] cmd = ":TELEMETRY:FRAME:" -> RecordTelemetryEvent(e)
      [] OTHER -> e

-----------------------------------------------------------------------------
NewInto(cmd) ==
    CASE cmd = ":SOLDIER:CREATE:" -> "soldier"
      [] cmd = ":VEHICLE:CREATE:" -> "vehicle"
      [] cmd = ":PLACED:CREATE:" -> "placed"
      [] cmd = ":MARKER:CREATE:" -> "marker"

EntityOf(cmd, e) == << NewInto(cmd), IF cmd = ":MARKER:CREATE:" THEN e.markerName ELSE e.id >>

(* A well-formed create command that is not followed. *)
Plain(cmd, id) ==
    [cmd |-> cmd, self |-> id, hits |-> << >>, size |-> AnySize, flaw |-> Whole,
     other |-> CHOOSE x \in Commands[cmd].others : TRUE]

(* Every object is created by one command that is not followed. *)
Scenery ==
    {Plain(p[1], p[2]) : p \in
        ({":SOLDIER:CREATE:"} \X Soldiers) \union ({":VEHICLE:CREATE:"} \X Vehicles) \union
        ({":PLACED:CREATE:"} \X Placed) \union ({":MARKER:CREATE:"} \X Markers)}

Created == cache \intersect table

Init ==
    /\ format \in {"int", "float"}
    /\ cache = {}
    /\ table = {}
    /\ game = {}
    /\ call = None
    /\ known = {}
    /\ stage = "idle"
    /\ obj = None
    /\ todo = << >>
    /\ resolved = {}
    /\ row = None

(* An object enters the cache before the backend, a marker, whose ID the   *)
(* backend assigns, after it.                                              *)
FirstHalf(entity) ==
    /\ game' = {entity}
    /\ IF entity[1] = "marker"
       THEN table' = table \union {entity} /\ cache' = cache
       ELSE cache' = cache \union {entity} /\ table' = table

(* The game creates an object, in a command that is not followed. *)
CreateScenery ==
    \E c \in Scenery :
        LET e == Parsed(c) entity == EntityOf(c.cmd, e) IN
        /\ game = {}
        /\ Understood(c)
        /\ entity \notin Created
        /\ FirstHalf(entity)
        /\ UNCHANGED << format, call, known, stage, obj, todo, resolved, row >>

(* A create command that is followed: parsed, then the first half. *)
Create ==
    \E cmd \in Creates : \E c \in Calls(cmd) :
        /\ game = {}
        /\ stage = "idle"
        /\ Understood(c)
        /\ call' = c
        /\ known' = Created
        /\ stage' = "creating"
        /\ obj' = Parsed(c)
        /\ FirstHalf(EntityOf(cmd, Parsed(c)))
        /\ UNCHANGED << format, todo, resolved, row >>

RefuseCreate ==
    \E cmd \in Creates : \E c \in Calls(cmd) :
        /\ game = {}
        /\ stage = "idle"
        /\ ~Understood(c)
        /\ call' = c
        /\ known' = Created
        /\ stage' = "refused"
        /\ UNCHANGED << format, cache, table, game, obj, todo, resolved, row >>

(* The other half; the command that is followed has its row then. *)
CreateReturns ==
    /\ game # {}
    /\ cache' = cache \union game
    /\ table' = table \union game
    /\ game' = {}
    /\ IF stage = "creating"
       THEN stage' = "recorded" /\ row' = RowOf(call.cmd, obj)
       ELSE UNCHANGED << stage, row >>
    /\ UNCHANGED << format, call, known, obj, todo, resolved >>

(* A buffered command is put into its channel.  Bound: a flawed one is     *)
(* tried when no object exists yet and when all of them do.                *)
Send ==
    \E cmd \in Reports : \E c \in Calls(cmd) :
        /\ game = {}
        /\ stage = "idle"
        /\ c.flaw = Whole \/ Cardinality(Created) \in {0, Cardinality(Scenery)}
        /\ call' = c
        /\ known' = Created
        /\ stage' = "sent"
        /\ UNCHANGED << format, cache, table, game, obj, todo, resolved, row >>

(* The handler's goroutine takes it and parses it. *)
Take ==
    /\ stage = "sent"
    /\ Understood(call)
    /\ obj' = Parsed(call)
    /\ todo' = Lookups(call.cmd, Parsed(call))
    /\ stage' = "lookup"
    /\ UNCHANGED << format, cache, table, game, call, known, resolved, row >>

RefuseParse ==
    /\ stage = "sent"
    /\ ~Understood(call)
    /\ stage' = "refused"
    /\ UNCHANGED << format, cache, table, game, call, known, obj, todo, resolved, row >>

(* One object is looked up; a soldier of an ID hides a vehicle of that ID. *)
LookUp ==
    /\ stage = "lookup"
    /\ todo # << >>
    /\ LET l == Head(todo)
           found == {kind \in l.kinds : << kind, l.id >> \in cache}
       IN  /\ found # {} \/ ~l.must
           /\ resolved' =
                IF found = {} \/ l.as = "none" THEN resolved
                ELSE resolved \union
                     {[as |-> l.as, id |-> l.id,
                       kind |-> IF "soldier" \in found THEN "soldier" ELSE "vehicle"]}
    /\ todo' = Tail(todo)
    /\ UNCHANGED << format, cache, table, game, call, known, stage, obj, row >>

RefuseUnknown ==
    /\ stage = "lookup"
    /\ todo # << >>
    /\ Head(todo).must
    /\ \A kind \in Head(todo).kinds : << kind, Head(todo).id >> \notin cache
    /\ stage' = "refused"
    /\ UNCHANGED << format, cache, table, game, call, known, obj, todo, resolved, row >>

(* The backend converts the struct and queues the row. *)
Record ==
    /\ stage = "lookup"
    /\ todo = << >>
    /\ row' = RowOf(call.cmd, Completed(call.cmd, obj, resolved))
    /\ stage' = "recorded"
    /\ UNCHANGED << format, cache, table, game, call, known, obj, todo, resolved >>

Next ==
    \/ CreateScenery \/ Create \/ RefuseCreate \/ CreateReturns
    \/ Send \/ Take \/ RefuseParse \/ LookUp \/ RefuseUnknown \/ Record

Spec == Init /\ [][Next]_vars

-----------------------------------------------------------------------------
(* Properties *)

Columns == Commands[call.cmd].columns
PlaceOf(name) == LET args == Commands[call.cmd].args IN
    CHOOSE k \in DOMAIN args : args[k] = name

(* The columns the projectile parser never reads an argument for. *)
NeverRead ==
    {"actualFirerObjectID", "vehicleRole", "initialVelocity", "weapon", "magazine", "muzzle",
     "ammo", "mode", "isSubmunition"}

(* The columns read with Atoi, which does not understand 7.00. *)
IntegersOnly == {"bearing", "lifestate", "inVehicleObjectID", "scores", "ownerID"}

ReadFaithfully(col) ==
    /\ ~(call.cmd = ":EVENT:PROJECTILE:" /\ col \in NeverRead)
    /\ ~(format = "float" /\ col \in IntegersOnly /\ call.cmd # ":PLACED:CREATE:")

(* The columns of which a kill sets at most one per object. *)
Alternatives ==
    {"victimSoldierObjectID", "victimVehicleObjectID", "killerSoldierObjectID",
     "killerVehicleObjectID"}

(* The columns of 16 bits.  Messages keep the ID of their sender whole. *)
SixteenBits(cmd, col) ==
    \/ col \in {"bearing", "objectID", "firerObjectID", "vehicleObjectID",
               "inVehicleObjectID", "placedObjectID", "hitEntityID", "id"}
    \/ col = "soldierObjectID" /\ cmd \notin {":EVENT:CHAT:", ":EVENT:RADIO:"}
    \/ col = "ownerID" /\ cmd = ":PLACED:CREATE:"

(* What another column has room for. *)
Room(cmd, col) ==
    CASE col \in {"lifestate", "scores"} -> UInt8
      [] col = "channel" /\ cmd = ":EVENT:RADIO:" -> Int8
      [] col = "channel" /\ cmd = ":EVENT:CHAT:" -> ChatChannels
      [] OTHER -> Int

(* A state of an old addon, without group and side, gets its soldier's. *)
FilledFromCache(col) ==
    call.cmd = ":SOLDIER:STATE:" /\ call.flaw.as = "cut" /\ col \in {"groupID", "side"}

(* The column holds the argument it is for, when it has room for it: -1 is *)
(* nobody, a column of 16 bits keeps the low bits, an object that is not   *)
(* known is left out, and so is a trajectory of one point.                 *)
Keeps(col, v) ==
    LET x == row[col] IN
    CASE col \in {"hitSoldiers", "hitVehicles"} -> x \subseteq {U16(v[i]) : i \in DOMAIN v}
      [] col \in Alternatives -> x \in {None, U16(v)}
      [] col = "positions" -> x = IF Len(v) >= 2 THEN v ELSE Default
      [] OTHER -> CASE v = -1 -> x = None
                    [] v # -1 /\ SixteenBits(call.cmd, col) -> x = U16(v)
                    [] v # -1 /\ ~SixteenBits(call.cmd, col) ->
                           v \in Room(call.cmd, col) => x = v

(* Only players have scores. *)
Holds(col) ==
    LET k == PlaceOf(Columns[col]) IN
    CASE FilledFromCache(col) -> row[col] = CreatedWith(Soldier[col])
      [] col = "scores" /\ call.self \notin Players -> row[col] = Default
      [] OTHER -> ~Flawed(call, k) => Keeps(col, ValueAt(call, k))

(* Every column of a recorded row holds what the game sent for it, however *)
(* the game writes its numbers and whatever else of the call was flawed,   *)
(* except the columns no argument is read for, those read with Atoi when   *)
(* numbers are written as floats, and what a column has no room for.       *)
RowsAreTheGames ==
    row # None =>
        \A col \in DOMAIN row \intersect DOMAIN Columns : ReadFaithfully(col) => Holds(col)

(* model.go:326, 340: a projectile row names the soldier who controlled the *)
(* unit that fired.  The parser never reads that argument.                 *)
ActualFirerIsTheGames ==
    row # None /\ call.cmd = ":EVENT:PROJECTILE:" /\ call.flaw = Whole =>
        Holds("actualFirerObjectID")

IDs16(S) == {U16(id) : id \in S \ {-1}}
Named == IDs16({call.self, call.other} \union {call.hits[i] : i \in DOMAIN call.hits})

(* A call the game sent in good order, about objects it had created before *)
(* it sent the call, is recorded, and nothing it names is left out: the    *)
(* objects are in the caches before the game goes on, whatever the         *)
(* handler's goroutine does meanwhile.                                     *)
NothingIsLost ==
    LET Knew(kind, id) == << kind, U16(id) >> \in known IN
    /\ stage = "refused" /\ call.flaw = Whole =>
           \E id \in Named : \A f \in known : f[2] # id
    /\ stage = "recorded" /\ call.cmd = ":EVENT:KILL:" /\ call.flaw = Whole =>
           /\ Knew("soldier", call.self) => row.victimSoldierObjectID = U16(call.self)
           /\ Knew("vehicle", call.self) => row.victimVehicleObjectID = U16(call.self)
           /\ Knew("soldier", call.other) => row.killerSoldierObjectID = U16(call.other)
           /\ Knew("vehicle", call.other) => row.killerVehicleObjectID = U16(call.other)
    /\ stage = "recorded" /\ call.cmd = ":EVENT:PROJECTILE:" /\ call.flaw = Whole =>
           \A i \in DOMAIN call.hits :
               /\ Knew("soldier", call.hits[i]) => U16(call.hits[i]) \in row.hitSoldiers
               /\ Knew("vehicle", call.hits[i]) => U16(call.hits[i]) \in row.hitVehicles

(* A reference of a row, and the kinds of objects it may be to. *)
Ref(kinds, id) == [kinds |-> kinds, id |-> id]

(* A column that keeps a wide ID whole: its handler looked the low bits up. *)
RefLow(kinds, id) == Ref(kinds, IF id = None THEN None ELSE U16(id))

(* The references of a row that its handler has validated. *)
References(cmd, r) ==
    CASE cmd = ":SOLDIER:STATE:" -> { Ref({"soldier"}, r.soldierObjectID) }
      [] cmd = ":VEHICLE:STATE:" -> { Ref({"vehicle"}, r.vehicleObjectID) }
      [] cmd \in {":MARKER:STATE:", ":MARKER:DELETE:"} -> { Ref({"marker"}, r.markerID) }
      [] cmd = ":PLACED:EVENT:" -> { Ref({"placed"}, r.placedObjectID) }
      [] cmd = ":EVENT:KILL:" ->
            { Ref({"soldier"}, r.victimSoldierObjectID),
              Ref({"vehicle"}, r.victimVehicleObjectID),
              Ref({"soldier"}, r.killerSoldierObjectID),
              Ref({"vehicle"}, r.killerVehicleObjectID) }
      [] cmd = ":EVENT:PROJECTILE:" ->
            { Ref({"soldier"}, id) : id \in r.hitSoldiers } \union
            { Ref({"vehicle"}, id) : id \in r.hitVehicles }
      [] cmd = ":ACE3:DEATH:" ->
            { Ref({"soldier"}, r.soldierObjectID),
              RefLow({"soldier", "vehicle"}, r.lastDamageSourceObjectID) }
      [] cmd = ":ACE3:UNCONSCIOUS:" -> { Ref({"soldier"}, r.soldierObjectID) }
      [] cmd \in {":EVENT:CHAT:", ":EVENT:RADIO:"} ->
            { RefLow({"soldier"}, r.soldierObjectID) }
      [] OTHER -> {}

(* An object a recorded row refers to is one the backend has, or is being  *)
(* given by the create command the game thread is in: no row refers to an  *)
(* object the recording will not have, up to the low bits of a wide ID.    *)
ReferencesResolve ==
    row # None =>
        \A ref \in References(call.cmd, row) :
            ref.id = None \/ \E kind \in ref.kinds : << kind, ref.id >> \in table \union game
=============================================================================
