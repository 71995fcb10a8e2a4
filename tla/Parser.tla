------------------------------- MODULE Parser -------------------------------
(***************************************************************************)
(* internal/parser: the arguments of a command, which the game sends as    *)
(* texts, become the fields of a core struct.  A parse function is given   *)
(* here as the arguments it needs and, for each field, the argument it     *)
(* reads and the conversion it applies; a conversion is modelled by what   *)
(* it accepts and what it returns.                                         *)
(*                                                                         *)
(* An argument is a record [form, v]: how the text is written and what it  *)
(* stands for.  The forms are "int" (7), "float" (7.00), "frac" (7.5),     *)
(* "bool", "json" (an array or object of the shape the argument has),      *)
(* "list" (an array of two numbers, as in "[0,11]"), "pos" (x,y,z),        *)
(* "scores" and "floatscores" (six numbers), "empty" and "text".           *)
(***************************************************************************)
EXTENDS Integers, Sequences

CONSTANTS
    None,       \* a pointer that is nil, a field the function leaves unset
    Default,    \* the zero or default value a field gets when its error is dropped
    Error       \* the function returns an error, or panics and is recovered

(* They are no values a conversion returns. *)
ASSUME DistinctOutcomes ==
    /\ None # Default /\ Default # Error /\ None # Error
    /\ {None, Default, Error} \intersect Int = {}
    /\ Error \notin Seq(Int)

Numbers == {"int", "float", "frac"}

(* The numbers of Go's small types; a conversion to one keeps the low bits. *)
UInt8 == 0..255
UInt16 == 0..65535
Int8 == -128..127

U8(n) == n % 256
U16(n) == n % 65536
S8(n) == ((n + 128) % 256) - 128

-----------------------------------------------------------------------------
(* Conversions *)

ParseFloat(a) == IF a.form \in Numbers THEN a.v ELSE Error
ParseBool(a) == IF a.form = "bool" THEN a.v ELSE Error

(* json.Unmarshal into an array of numbers, or of anything, takes any      *)
(* array; into an array of arrays, or a map, only what has that shape.     *)
Unmarshal(a, forms) == IF a.form \in forms THEN a.v ELSE Error

(* Two coordinates are enough, without the brackets of an array. *)
Position3DFromString(a, forms) == IF a.form \in forms THEN a.v ELSE Error

(* Mutant: an ID written as 7.00 is refused. *)
UintOnlyFromInt(a) == IF a.form = "int" /\ a.v >= 0 THEN a.v ELSE Error

parseUintFromFloat(a) ==
    IF a.form \in {"int", "float"} /\ a.v >= 0 THEN a.v ELSE Error

parseIntFromFloat(a) == IF a.form \in {"int", "float"} THEN a.v ELSE Error

(* An array such as "[0,11]" stands for its last element. *)
parseRadioChannel(a) == IF a.form \in {"int", "float", "list"} THEN a.v ELSE Error

RadioChannel(a) ==
    LET n == parseRadioChannel(a) IN IF n = Error THEN Error ELSE S8(n)

(* The name of a chat channel, for which the lowest number stands that has *)
(* it: 6 to 15 are "Custom", what no channel has is "System", as 16 is.    *)
ChatChannels == 0..6 \union {16}
ChannelName(n) == IF n \in 6..15 THEN 6 ELSE IF n \in 0..5 THEN n ELSE 16

ChatChannel(a) ==
    LET n == parseIntFromFloat(a) IN IF n = Error THEN Error ELSE ChannelName(n)

Uint16(a) == LET n == parseUintFromFloat(a) IN IF n = Error THEN Error ELSE U16(n)

(* A reference that is -1 when there is nobody to refer to. *)
Optional(a) ==
    LET n == parseIntFromFloat(a) IN
    IF n = Error THEN Error ELSE IF n > -1 THEN n ELSE None

Optional16(a) ==
    LET n == Optional(a) IN IF n \in {None, Error} THEN n ELSE U16(n)

(* strconv.Atoi with its error dropped: it reads integers only. *)
Atoi(a) == IF a.form = "int" THEN a.v ELSE Default

Bearing(a) == LET n == Atoi(a) IN IF n = Default THEN Default ELSE U16(n)
Lifestate(a) == LET n == Atoi(a) IN IF n = Default THEN Default ELSE U8(n)

(* The vehicle a soldier is in: Atoi, and 0 when that fails. *)
Seat(a) ==
    LET n == IF a.form = "int" THEN a.v ELSE 0 IN IF n # -1 THEN U16(n) ELSE None

(* The objects a projectile hit; without them the event is kept. *)
HitParts(a) ==
    IF a.form = "json" THEN [i \in DOMAIN a.v |-> U16(a.v[i])] ELSE << >>

(* Six numbers, each read with Atoi; a list of another length is dropped. *)
Scores(a) == IF a.form = "scores" THEN U8(a.v) ELSE Default

Frequency(a) == IF a.form = "empty" THEN Default ELSE ParseFloat(a)

(* The error of a conversion is dropped, or logged and a default used. *)
Lax(x) == IF x = Error THEN Default ELSE x

Convert(as, a) ==
    CASE as = "Text" -> a.v
      [] as = "Float" -> ParseFloat(a)
      [] as = "LaxFloat" -> Lax(ParseFloat(a))
      [] as = "Bool" -> ParseBool(a)
      [] as = "LaxBool" -> Lax(ParseBool(a))
      [] as = "Array" -> Unmarshal(a, {"json", "list"})
      [] as = "Nested" -> Unmarshal(a, {"json"})
      [] as = "HitParts" -> HitParts(a)
      [] as = "Pos" -> Position3DFromString(a, {"pos"})
      [] as = "BracketedPos" -> Position3DFromString(a, {"pos", "list"})
      [] as = "Uint" -> parseUintFromFloat(a)
      [] as = "Uint16" -> Uint16(a)
      [] as = "ChatChannel" -> ChatChannel(a)
      [] as = "RadioChannel" -> RadioChannel(a)
      [] as = "Optional" -> Optional(a)
      [] as = "Optional16" -> Optional16(a)
      [] as = "Atoi" -> Atoi(a)
      [] as = "Bearing" -> Bearing(a)
      [] as = "Lifestate" -> Lifestate(a)
      [] as = "Seat" -> Seat(a)
      [] as = "Scores" -> Scores(a)
      [] as = "Frequency" -> Frequency(a)

-----------------------------------------------------------------------------
(* The parse functions.  Arguments are numbered from 0, as in the code.    *)
(* An argument that "needs" covers and the call lacks is an error the      *)
(* function returns, or a panic that the dispatcher or the entry point     *)
(* recovers: in both cases nothing is recorded.                            *)

Always == -1
At(i, as) == [at |-> i, as |-> as, from |-> 0, asked |-> Always]

(* Mutant: an argument for players is read of everybody. *)
OfEverybody(j, i, as) == At(i, as)

(* Read only when the call has at least n arguments, *)
IfGiven(n, i, as) == [at |-> i, as |-> as, from |-> n, asked |-> Always]

(* or only when argument j is true. *)
IfTrue(j, i, as) == [at |-> i, as |-> as, from |-> 0, asked |-> j]

Frame == At(0, "Float")

ParseSoldier ==
    [needs |-> 11,
     reads |-> [joinFrame |-> Frame, id |-> At(1, "Uint16"), unitName |-> At(2, "Text"),
        groupID |-> At(3, "Text"), side |-> At(4, "Text"), isPlayer |-> At(5, "Bool"),
        roleDescription |-> At(6, "Text"), className |-> At(7, "Text"),
        displayName |-> At(8, "Text"), playerUID |-> At(9, "Text"),
        squadParams |-> At(10, "Array")]]

ParseSoldierDelete ==
    [needs |-> 2, reads |-> [id |-> At(0, "Uint16"), frame |-> At(1, "Float")]]

ParseSoldierState ==
    [needs |-> 15,
     reads |-> [captureFrame |-> At(8, "Float"), soldierID |-> At(0, "Uint16"),
        position |-> At(1, "BracketedPos"), bearing |-> At(2, "Bearing"),
        lifestate |-> At(3, "Lifestate"),
        inVehicle |-> At(4, "LaxBool"), unitName |-> At(5, "Text"),
        isPlayer |-> At(6, "Bool"), currentRole |-> At(7, "Text"),
        hasStableVitals |-> At(9, "LaxBool"), isDraggedCarried |-> At(10, "LaxBool"),
        scores |-> IfTrue(6, 11, "Scores"), vehicleRole |-> At(12, "Text"),
        inVehicleObjectID |-> At(13, "Seat"), stance |-> At(14, "Text"),
        groupID |-> IfGiven(17, 15, "Text"), side |-> IfGiven(17, 16, "Text")]]

ParseVehicle ==
    [needs |-> 7,
     reads |-> [joinFrame |-> Frame, id |-> At(1, "Uint16"), ocapType |-> At(2, "Text"),
        displayName |-> At(3, "Text"), className |-> At(4, "Text"),
        customization |-> At(5, "Text"), side |-> At(6, "Text")]]

ParseVehicleDelete == ParseSoldierDelete

ParseVehicleState ==
    [needs |-> 15,
     reads |-> [captureFrame |-> At(5, "Float"), vehicleID |-> At(0, "Uint16"),
        position |-> At(1, "BracketedPos"), bearing |-> At(2, "Bearing"),
        isAlive |-> At(3, "LaxBool"), crew |-> At(4, "Text"), fuel |-> At(6, "Float"),
        damage |-> At(7, "Float"),
        engineOn |-> At(8, "Bool"), locked |-> At(9, "Bool"), side |-> At(10, "Text"),
        vectorDir |-> At(11, "Text"), vectorUp |-> At(12, "Text"),
        turretAzimuth |-> At(13, "Float"), turretElevation |-> At(14, "Float")]]

ParseProjectileEvent ==
    [needs |-> 20,
     reads |-> [captureFrame |-> Frame, firerObjectID |-> At(2, "Uint16"),
        vehicleObjectID |-> At(3, "Optional16"), weaponDisplay |-> At(7, "Text"),
        muzzleDisplay |-> At(9, "Text"), magazineDisplay |-> At(11, "Text"),
        trajectory |-> At(14, "Nested"), hitParts |-> At(16, "HitParts"),
        simulationType |-> At(17, "Text"), magazineIcon |-> At(19, "Text")]]

ParseGeneralEvent ==
    [needs |-> 3,
     reads |-> [captureFrame |-> Frame, name |-> At(1, "Text"), message |-> At(2, "Text"),
        extraData |-> IfGiven(4, 3, "Nested")]]

ParseSectorEvent ==
    [needs |-> 4,
     reads |-> [captureFrame |-> Frame, name |-> At(1, "Text"), objectType |-> At(2, "Text"),
        unitName |-> At(3, "Text"), side |-> IfGiven(5, 4, "Text"),
        posX |-> IfGiven(8, 5, "Float"), posY |-> IfGiven(8, 6, "Float"),
        posZ |-> IfGiven(8, 7, "Float")]]

ParseEndMissionEvent ==
    [needs |-> 3,
     reads |-> [captureFrame |-> Frame, side |-> At(1, "Text"), message |-> At(2, "Text")]]

(* The weapon array is split into the three texts a kill shows. *)
ParseKillEvent ==
    [needs |-> 5,
     reads |-> [captureFrame |-> Frame, victimID |-> At(1, "Uint16"),
        killerID |-> At(2, "Uint16"), eventText |-> At(3, "Text"),
        distance |-> At(4, "Float")]]

(* Only the fields the SQL backends keep; every argument must parse. *)
ParseTelemetryEvent ==
    [needs |-> 7,
     reads |-> [captureFrame |-> Frame, fps |-> At(1, "Array"), sides |-> At(2, "Nested"),
        global |-> At(3, "Array"), scripts |-> At(4, "Array"), weather |-> At(5, "Array"),
        players |-> At(6, "Nested")]]

ParseTimeState ==
    [needs |-> 5,
     reads |-> [captureFrame |-> Frame, systemTimeUTC |-> At(1, "Text"),
        missionDate |-> At(2, "Text"), timeMultiplier |-> At(3, "Float"),
        missionTime |-> At(4, "Float")]]

(* A marker that is no polyline; the end frame of the game is not read. *)
ParseMarkerCreate ==
    [needs |-> 14,
     reads |-> [markerName |-> At(0, "Text"), direction |-> At(1, "Float"),
        markerType |-> At(2, "Text"), text |-> At(3, "Text"),
        captureFrame |-> At(4, "Float"), ownerID |-> At(6, "Atoi"),
        color |-> At(7, "Text"), size |-> At(8, "Text"), side |-> At(9, "Text"),
        shape |-> At(11, "Text"), position |-> At(10, "BracketedPos"),
        alpha |-> At(12, "LaxFloat"), brush |-> At(13, "Text")]]

ParseMarkerMove ==
    [needs |-> 11,
     reads |-> [markerName |-> At(0, "Text"), captureFrame |-> At(1, "Float"),
        position |-> At(2, "BracketedPos"), direction |-> At(3, "LaxFloat"),
        alpha |-> At(4, "LaxFloat"), text |-> At(5, "Text"), color |-> At(6, "Text"),
        size |-> At(7, "Text"), markerType |-> At(8, "Text"), brush |-> At(9, "Text"),
        shape |-> At(10, "Text")]]

ParseMarkerDelete ==
    [needs |-> 2, reads |-> [markerName |-> At(0, "Text"), endFrame |-> At(1, "Float")]]

ParsePlacedObject ==
    [needs |-> 9,
     reads |-> [joinFrame |-> Frame, id |-> At(1, "Uint16"), className |-> At(2, "Text"),
        displayName |-> At(3, "Text"), position |-> At(4, "Pos"), ownerID |-> At(5, "Uint16"),
        side |-> At(6, "Text"), weapon |-> At(7, "Text"), magazineIcon |-> At(8, "Text")]]

ParsePlacedObjectEvent ==
    [needs |-> 4,
     reads |-> [captureFrame |-> Frame, placedID |-> At(1, "Uint16"),
        eventType |-> At(2, "Text"), position |-> At(3, "Pos"),
        hitEntityID |-> IfGiven(5, 4, "Uint16")]]

ParseChatEvent ==
    [needs |-> 7,
     reads |-> [captureFrame |-> Frame, soldierID |-> At(1, "Optional"),
        channel |-> At(2, "ChatChannel"), fromName |-> At(3, "Text"),
        senderName |-> At(4, "Text"), message |-> At(5, "Text"), playerUID |-> At(6, "Text")]]

ParseRadioEvent ==
    [needs |-> 9,
     reads |-> [captureFrame |-> Frame, soldierID |-> At(1, "Optional"),
        radio |-> At(2, "Text"), radioType |-> At(3, "Text"), startEnd |-> At(4, "Text"),
        channel |-> At(5, "RadioChannel"), isAdditional |-> At(6, "Bool"),
        frequency |-> At(7, "Frequency"), code |-> At(8, "Text")]]

ParseAce3DeathEvent ==
    [needs |-> 4,
     reads |-> [captureFrame |-> Frame, soldierID |-> At(1, "Uint"), reason |-> At(2, "Text"),
        lastDamageSourceID |-> At(3, "Optional")]]

ParseAce3UnconsciousEvent ==
    [needs |-> 3,
     reads |-> [captureFrame |-> Frame, soldierID |-> At(1, "Uint"),
        isUnconscious |-> At(2, "Bool")]]

parseFocusFrame == [needs |-> 1, reads |-> [frame |-> At(0, "Uint")]]

(* An argument that is read for players only, of a unit that is none. *)
Skipped(r, args) == r.asked # Always /\ ParseBool(args[r.asked + 1]) # 1

(* What a parse function makes of the arguments of a call, *)
Parse(fn, args) ==
    LET Field(r) == IF Len(args) < r.from THEN None
                    ELSE IF Skipped(r, args) THEN Default
                    ELSE Convert(r.as, args[r.at + 1])
    IN  [f \in DOMAIN fn.reads |-> Field(fn.reads[f])]

(* and whether it makes anything of them. *)
Parses(fn, args) ==
    /\ fn.needs <= Len(args)
    /\ \A f \in DOMAIN fn.reads : Parse(fn, args)[f] # Error
=============================================================================
