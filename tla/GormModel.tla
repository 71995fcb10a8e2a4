----------------------------- MODULE GormModel -----------------------------
(***************************************************************************)
(* internal/model/convert and internal/model: how a core struct becomes a  *)
(* row of the database, and what each column of a row is for.  A core      *)
(* struct is the record a parse function returns (Parser), after the       *)
(* worker has resolved the objects it names.  Server times, the mission ID *)
(* (DBWriter) and elevations, which repeat the position, are left out.     *)
(***************************************************************************)
EXTENDS Parser

(* A struct made from another: the fields that are given a value of their  *)
(* own, and those taken over under the name they have.                     *)
Fields(core, taken, given) ==
    [f \in taken \union DOMAIN given |-> IF f \in DOMAIN given THEN given[f] ELSE core[f]]

Same(core, taken) == Fields(core, taken, << >>)

-----------------------------------------------------------------------------
(* to_gorm.go *)

CoreToSoldier(s) ==
    Fields(s, {"joinFrame", "unitName", "groupID", "side", "isPlayer", "roleDescription",
               "className", "displayName", "playerUID", "squadParams"},
           [objectID |-> s.id])

CoreToVehicle(v) ==
    Fields(v, {"joinFrame", "ocapType", "className", "displayName", "customization",
               "side"},
           [objectID |-> v.id])

CoreToMarker(m) ==
    Same(m, {"captureFrame", "markerName", "direction", "markerType", "text", "ownerID",
             "color", "size", "side", "position", "shape", "alpha", "brush"})

CoreToSoldierState(s) ==
    Fields(s, {"captureFrame", "position", "bearing", "lifestate", "inVehicle",
               "inVehicleObjectID", "vehicleRole", "unitName", "isPlayer", "currentRole",
               "hasStableVitals", "isDraggedCarried", "stance", "groupID", "side", "scores"},
           [soldierObjectID |-> s.soldierID])

CoreToVehicleState(v) ==
    Fields(v, {"captureFrame", "position", "bearing", "isAlive", "crew", "fuel", "damage",
               "locked", "engineOn", "side", "vectorDir", "vectorUp", "turretAzimuth",
               "turretElevation"},
           [vehicleObjectID |-> v.vehicleID])

CoreToMarkerState(s) ==
    Same(s, {"markerID", "captureFrame", "position", "direction", "alpha", "text", "color",
             "size", "markerType", "brush", "shape"})

CoreToGeneralEvent(e) == Same(e, {"captureFrame", "name", "message", "extraData"})

CoreToKillEvent(e) ==
    Fields(e, {"captureFrame", "eventText", "distance"},
           [victimSoldierObjectID |-> e.victimSoldierID,
            victimVehicleObjectID |-> e.victimVehicleID,
            killerSoldierObjectID |-> e.killerSoldierID,
            killerVehicleObjectID |-> e.killerVehicleID])

CoreToChatEvent(e) ==
    Fields(e, {"captureFrame", "channel", "fromName", "senderName", "message", "playerUID"},
           [soldierObjectID |-> e.soldierID])

CoreToRadioEvent(e) ==
    Fields(e, {"captureFrame", "radio", "radioType", "startEnd", "channel", "isAdditional",
               "frequency", "code"},
           [soldierObjectID |-> e.soldierID])

CoreToAce3DeathEvent(e) ==
    Fields(e, {"captureFrame", "reason"},
           [soldierObjectID |-> U16(e.soldierID),
            lastDamageSourceObjectID |-> e.lastDamageSourceID])

CoreToAce3UnconsciousEvent(e) ==
    Fields(e, {"captureFrame", "isUnconscious"},
           [soldierObjectID |-> U16(e.soldierID)])

CoreToPlacedObject(p) ==
    Fields(p, {"joinFrame", "className", "displayName", "position", "ownerID", "side",
               "weapon", "magazineIcon"},
           [objectID |-> p.id])

CoreToPlacedObjectEvent(e) ==
    Fields(e, {"eventType", "position", "captureFrame", "hitEntityID"},
           [placedObjectID |-> e.placedID])

(* The fields the function does not set keep their zero value, and so do   *)
(* the positions of a trajectory of fewer than two points.                 *)
CoreToProjectileEvent(e) ==
    Fields(e, {"captureFrame", "firerObjectID", "vehicleObjectID", "weaponDisplay",
               "magazineDisplay", "muzzleDisplay", "simulationType", "magazineIcon"},
           [actualFirerObjectID |-> 0, vehicleRole |-> Default, weapon |-> Default,
            muzzle |-> Default, magazine |-> Default, ammo |-> Default, mode |-> Default,
            initialVelocity |-> Default, isSubmunition |-> Default,
            positions |-> IF Len(e.trajectory) >= 2 THEN e.trajectory ELSE Default,
            hitSoldiers |-> e.hitSoldiers, hitVehicles |-> e.hitVehicles])

-----------------------------------------------------------------------------
(* postgres.go, sqlite.go: the events that become rows of another kind *)

(* The last three are joined into the message. *)
RecordSectorEvent(e) == Same(e, {"captureFrame", "name", "objectType", "unitName", "side"})

(* The name is "endMission", the last two are joined into the message. *)
RecordEndMissionEvent(e) == Same(e, {"captureFrame", "side", "message"})

RecordTelemetryEvent(e) == Same(e, {"captureFrame", "fps"})

-----------------------------------------------------------------------------
(* model.go: for each column, the argument of the command it is for.  The  *)
(* names of the arguments are those of the model's comments.               *)

Soldier ==
    [objectID |-> "ocapId", joinFrame |-> "frameNo", unitName |-> "name",
     groupID |-> "groupId", side |-> "side", isPlayer |-> "isPlayer",
     roleDescription |-> "roleDescription", className |-> "className",
     displayName |-> "displayName", playerUID |-> "playerUID", squadParams |-> "squadParams"]

SoldierState ==
    [soldierObjectID |-> "ocapId", captureFrame |-> "frameNo", position |-> "pos",
     bearing |-> "dir", lifestate |-> "lifeState", inVehicle |-> "inVehicle",
     inVehicleObjectID |-> "vehicleOcapId", vehicleRole |-> "vehicleRole",
     unitName |-> "name", isPlayer |-> "isPlayer", currentRole |-> "role",
     hasStableVitals |-> "hasStableVitals", isDraggedCarried |-> "isDragged",
     stance |-> "stance", groupID |-> "groupID", side |-> "side", scores |-> "scores"]

Vehicle ==
    [objectID |-> "ocapId", joinFrame |-> "frameNo", ocapType |-> "vehicleClass",
     className |-> "className", displayName |-> "displayName",
     customization |-> "customization", side |-> "side"]

VehicleState ==
    [vehicleObjectID |-> "ocapId", captureFrame |-> "frameNo", position |-> "pos",
     bearing |-> "dir", isAlive |-> "alive", crew |-> "crew", fuel |-> "fuel",
     damage |-> "damage", locked |-> "locked", engineOn |-> "engineOn", side |-> "side",
     vectorDir |-> "vectorDir", vectorUp |-> "vectorUp", turretAzimuth |-> "turretAz",
     turretElevation |-> "turretEl"]

ProjectileEvent ==
    [firerObjectID |-> "firerID", actualFirerObjectID |-> "remoteControllerID",
     vehicleRole |-> "vehicleRole", vehicleObjectID |-> "vehicleID",
     captureFrame |-> "firedFrame", positions |-> "positions",
     initialVelocity |-> "initialVelocity", weapon |-> "weapon",
     weaponDisplay |-> "weaponDisplay", magazine |-> "magazine",
     magazineDisplay |-> "magazineDisplay", muzzle |-> "muzzle",
     muzzleDisplay |-> "muzzleDisplay", ammo |-> "ammo", mode |-> "fireMode",
     simulationType |-> "sim", isSubmunition |-> "isSub", magazineIcon |-> "magazineIcon",
     hitSoldiers |-> "hitParts", hitVehicles |-> "hitParts"]

GeneralEvent ==
    [captureFrame |-> "frameNo", name |-> "eventType", message |-> "message",
     extraData |-> "extraDataJSON"]

KillEvent ==
    [captureFrame |-> "frameNo", victimSoldierObjectID |-> "victimOcapId",
     victimVehicleObjectID |-> "victimOcapId", killerSoldierObjectID |-> "killerOcapId",
     killerVehicleObjectID |-> "killerOcapId", eventText |-> "weaponText",
     distance |-> "distance"]

Ace3DeathEvent ==
    [captureFrame |-> "frameNo", soldierObjectID |-> "victimOcapId",
     reason |-> "causeOfDeath", lastDamageSourceObjectID |-> "lastDamageSourceOcapId"]

Ace3UnconsciousEvent ==
    [captureFrame |-> "frameNo", soldierObjectID |-> "soldierOcapId",
     isUnconscious |-> "isUnconscious"]

ChatEvent ==
    [captureFrame |-> "frameNo", soldierObjectID |-> "senderOcapId", channel |-> "channel",
     fromName |-> "from", senderName |-> "name", message |-> "text",
     playerUID |-> "playerUID"]

RadioEvent ==
    [captureFrame |-> "frameNo", soldierObjectID |-> "senderOcapId", radio |-> "radio",
     radioType |-> "radioType", startEnd |-> "startEnd", channel |-> "channel",
     isAdditional |-> "isAdditional", frequency |-> "frequency", code |-> "code"]

SectorEvent ==
    [captureFrame |-> "frame", name |-> "type", objectType |-> "objectType",
     unitName |-> "unitName", side |-> "side"]

EndMissionEvent == [captureFrame |-> "frame", side |-> "side", message |-> "message"]

TimeState ==
    [captureFrame |-> "frameNo", systemTimeUTC |-> "systemTimeUTC",
     missionDate |-> "missionDateTime", timeMultiplier |-> "timeMultiplier",
     missionTime |-> "missionTime"]

ServerFpsEvent == [captureFrame |-> "frameNo", fps |-> "serverFPS"]

Marker ==
    [markerName |-> "markerName", captureFrame |-> "frameNo", direction |-> "direction",
     markerType |-> "type", text |-> "text", ownerID |-> "ownerOcapId", color |-> "color",
     size |-> "size", side |-> "side", position |-> "position", shape |-> "shape",
     alpha |-> "alpha", brush |-> "brush"]

MarkerState ==
    [markerID |-> "markerName", captureFrame |-> "frameNo", position |-> "position",
     direction |-> "direction", alpha |-> "alpha", text |-> "text", color |-> "color",
     size |-> "size", markerType |-> "type", brush |-> "brush", shape |-> "shape"]

PlacedObject ==
    [objectID |-> "id", joinFrame |-> "frame", className |-> "className",
     displayName |-> "displayName", position |-> "xyz", ownerID |-> "ownerOcapId",
     side |-> "side", weapon |-> "weapon", magazineIcon |-> "magazineIcon"]

PlacedObjectEvent ==
    [placedObjectID |-> "id", captureFrame |-> "frame", eventType |-> "eventType",
     position |-> "xyz", hitEntityID |-> "hitEntityOcapId"]
=============================================================================
