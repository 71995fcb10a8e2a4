---------------------------- MODULE IntakeProofs ----------------------------
(***************************************************************************)
(* Proofs about Intake, for any objects of a mission: what a row refers    *)
(* to, what its columns hold, and what becomes of a call in good order.    *)
(*                                                                         *)
(* What is particular to a command is read off its tables first, one       *)
(* command a step; the proofs after that are about any command.            *)
(***************************************************************************)
EXTENDS Intake, TLAPS

-----------------------------------------------------------------------------
(* The commands *)

AllCommands == Creates \union Reports

\* The commands by name.
LEMMA TheCommands ==
    /\ Commands[":SOLDIER:CREATE:"] = SOLDIER_CREATE
    /\ Commands[":VEHICLE:CREATE:"] = VEHICLE_CREATE
    /\ Commands[":PLACED:CREATE:"] = PLACED_CREATE
    /\ Commands[":MARKER:CREATE:"] = MARKER_CREATE
    /\ Commands[":SOLDIER:STATE:"] = SOLDIER_STATE
    /\ Commands[":VEHICLE:STATE:"] = VEHICLE_STATE
    /\ Commands[":MARKER:STATE:"] = MARKER_STATE
    /\ Commands[":MARKER:DELETE:"] = MARKER_DELETE
    /\ Commands[":SOLDIER:DELETE:"] = SOLDIER_DELETE
    /\ Commands[":VEHICLE:DELETE:"] = VEHICLE_DELETE
    /\ Commands[":PLACED:EVENT:"] = PLACED_EVENT
    /\ Commands[":EVENT:PROJECTILE:"] = EVENT_PROJECTILE
    /\ Commands[":EVENT:KILL:"] = EVENT_KILL
    /\ Commands[":EVENT:CHAT:"] = EVENT_CHAT
    /\ Commands[":EVENT:RADIO:"] = EVENT_RADIO
    /\ Commands[":ACE3:DEATH:"] = ACE3_DEATH
    /\ Commands[":ACE3:UNCONSCIOUS:"] = ACE3_UNCONSCIOUS
    /\ Commands[":EVENT:GENERAL:"] = EVENT_GENERAL
    /\ Commands[":EVENT:SECTOR:"] = EVENT_SECTOR
    /\ Commands[":EVENT:ENDMISSION:"] = EVENT_ENDMISSION
    /\ Commands[":TELEMETRY:FRAME:"] = TELEMETRY_FRAME
    /\ Commands[":TIME:STATE:"] = TIME_STATE
    /\ Commands[":MISSION:FOCUS_START:"] = MISSION_FOCUS_START
    /\ Commands[":MISSION:FOCUS_END:"] = MISSION_FOCUS_END
<1> USE DEF Commands, Creates, Reports
<1>1. Commands[":SOLDIER:CREATE:"] = SOLDIER_CREATE
    OBVIOUS
<1>2. Commands[":VEHICLE:CREATE:"] = VEHICLE_CREATE
    OBVIOUS
<1>3. Commands[":PLACED:CREATE:"] = PLACED_CREATE
    OBVIOUS
<1>4. Commands[":MARKER:CREATE:"] = MARKER_CREATE
    OBVIOUS
<1>5. Commands[":SOLDIER:STATE:"] = SOLDIER_STATE
    OBVIOUS
<1>6. Commands[":VEHICLE:STATE:"] = VEHICLE_STATE
    OBVIOUS
<1>7. Commands[":MARKER:STATE:"] = MARKER_STATE
    OBVIOUS
<1>8. Commands[":MARKER:DELETE:"] = MARKER_DELETE
    OBVIOUS
<1>9. Commands[":SOLDIER:DELETE:"] = SOLDIER_DELETE
    OBVIOUS
<1>10. Commands[":VEHICLE:DELETE:"] = VEHICLE_DELETE
    OBVIOUS
<1>11. Commands[":PLACED:EVENT:"] = PLACED_EVENT
    OBVIOUS
<1>12. Commands[":EVENT:PROJECTILE:"] = EVENT_PROJECTILE
    OBVIOUS
<1>13. Commands[":EVENT:KILL:"] = EVENT_KILL
    OBVIOUS
<1>14. Commands[":EVENT:CHAT:"] = EVENT_CHAT
    OBVIOUS
<1>15. Commands[":EVENT:RADIO:"] = EVENT_RADIO
    OBVIOUS
<1>16. Commands[":ACE3:DEATH:"] = ACE3_DEATH
    OBVIOUS
<1>17. Commands[":ACE3:UNCONSCIOUS:"] = ACE3_UNCONSCIOUS
    OBVIOUS
<1>18. Commands[":EVENT:GENERAL:"] = EVENT_GENERAL
    OBVIOUS
<1>19. Commands[":EVENT:SECTOR:"] = EVENT_SECTOR
    OBVIOUS
<1>20. Commands[":EVENT:ENDMISSION:"] = EVENT_ENDMISSION
    OBVIOUS
<1>21. Commands[":TELEMETRY:FRAME:"] = TELEMETRY_FRAME
    OBVIOUS
<1>22. Commands[":TIME:STATE:"] = TIME_STATE
    OBVIOUS
<1>23. Commands[":MISSION:FOCUS_START:"] = MISSION_FOCUS_START
    OBVIOUS
<1>24. Commands[":MISSION:FOCUS_END:"] = MISSION_FOCUS_END
    OBVIOUS
<1> QED
    BY <1>1, <1>2, <1>3, <1>4, <1>5, <1>6, <1>7, <1>8, <1>9, <1>10, <1>11, <1>12, <1>13, <1>14, <1>15, <1>16, <1>17, <1>18, <1>19, <1>20, <1>21, <1>22, <1>23, <1>24

\* Every ID is a number.
LEMMA IDsAreNumbers ==
    /\ Men \subseteq Nat /\ Vehicles \subseteq Nat /\ Placed \subseteq Nat
    /\ Markers \subseteq Nat /\ Entities \subseteq Nat
<1> DEFINE kinds == << Soldiers, Vehicles, Placed, Markers >>
<1>1. /\ kinds[1] \subseteq UInt16 /\ kinds[2] \subseteq UInt16
      /\ kinds[3] \subseteq UInt16 /\ kinds[4] \subseteq UInt16
  <2>1. \A i \in 1..4 : kinds[i] \subseteq UInt16
    BY IDsAreDistinct
  <2> HIDE DEF kinds
  <2> QED
    BY <2>1
<1>2. /\ kinds[1] = Soldiers /\ kinds[2] = Vehicles /\ kinds[3] = Placed
      /\ kinds[4] = Markers
    OBVIOUS
<1>3. UInt16 \subseteq Nat
    BY DEF UInt16
<1> HIDE DEF kinds
<1>4. /\ Soldiers \subseteq Nat /\ Vehicles \subseteq Nat /\ Placed \subseteq Nat
      /\ Markers \subseteq Nat
    BY <1>1, <1>2, <1>3
<1>5. Wide \subseteq Nat
    BY IDsAreDistinct
<1> QED
    BY <1>4, <1>5 DEF Men, Entities

\* The arguments that may be -1, for nobody.
Nobodies == {"vehicleOcapId", "vehicleID", "lastDamageSourceOcapId", "senderOcapId"}

\* The conversions for numbers, those for objects that may be nobody, and of both and
\* the scores those that need integers and those that keep the low 16 bits.
ForNumbers ==
    {"Float", "LaxFloat", "Uint", "Uint16", "ChatChannel", "RadioChannel", "Atoi",
     "Bearing", "Lifestate", "Frequency"}
ForObjects == {"Optional", "Optional16", "Seat"}
ForIntegers == {"Atoi", "Bearing", "Lifestate", "Seat", "Scores"}
To16Bits == {"Uint16", "Bearing", "Optional16", "Seat"}

\* The numbers another conversion keeps.
Capacity(as) ==
    CASE as \in {"Lifestate", "Scores"} -> UInt8
      [] as = "RadioChannel" -> Int8
      [] as = "ChatChannel" -> ChatChannels
      [] OTHER -> Int

\* The conversions that understand an argument, in either format; those for integers
\* in one.
Readers(name) ==
    CASE name \in Bools -> {"Bool", "LaxBool"}
      [] name \in Positions -> {"Pos", "BracketedPos"}
      [] name = "hitParts" -> {"HitParts"}
      [] name \in Jsons \ {"hitParts"} -> {"Array", "Nested"}
      [] name \in Nobodies -> ForObjects
      [] name \in Numeric \ Nobodies -> ForNumbers
      [] name = "scores" -> {"Scores"}
      [] OTHER -> {"Text"}

\* A parse function reads arguments the command has, with conversions for them.
ReadsSuit(of) ==
    /\ Len(of.args) \in Nat /\ of.parse.needs \in 0..Len(of.args)
    /\ \A f \in DOMAIN of.parse.reads :
          LET r == of.parse.reads[f] IN
          /\ r.at + 1 \in 1..Len(of.args)
          /\ r.from \in 0..Len(of.args)
          /\ r.as \in Readers(of.args[r.at + 1])

\* An argument is known by its name.
ArgumentsDiffer(of) ==
    /\ DOMAIN of.args = 1..Len(of.args)
    /\ \A i, k \in 1..Len(of.args) : of.args[i] = of.args[k] => i = k
    /\ \A i \in 1..Len(of.args) : of.args[i] # "none"

\* Only some IDs may be nobody's.
IDsFit(of) ==
    /\ of.selves \subseteq Nat \union {-1} /\ of.others \subseteq Nat \union {-1}
    /\ -1 \in of.selves => of.self \in Nobodies \union {"none"}
    /\ -1 \in of.others => of.other \in Nobodies \union {"none"}
    /\ {of.self, of.other} \intersect {"hitParts", "positions", "isPlayer"} = {}
    /\ of.self = of.other => of.self = "none"

\* The columns of a projectile that are made of lists.
ListColumns == {"hitSoldiers", "hitVehicles", "positions"}

\* The columns that take over a field of the core struct, and the field.
Copied(cmd, of) ==
    {col \in DOMAIN of.columns :
        /\ col \notin Alternatives \union ListColumns
        /\ ~(cmd = ":EVENT:PROJECTILE:" /\ col \in NeverRead)}

FieldOf(cmd, col) ==
    CASE col = "objectID" -> "id"
      [] col = "soldierObjectID" -> "soldierID"
      [] col = "vehicleObjectID" /\ cmd = ":VEHICLE:STATE:" -> "vehicleID"
      [] col = "markerID" -> "markerName"
      [] col = "placedObjectID" -> "placedID"
      [] col = "lastDamageSourceObjectID" -> "lastDamageSourceID"
      [] col = "captureFrame" /\ cmd = ":MARKER:DELETE:" -> "endFrame"
      [] OTHER -> col

\* The field of a column reads the argument the column is for, when it is given.
ColumnIsRead(cmd, of, col) ==
    LET r == of.parse.reads[FieldOf(cmd, col)] IN
    /\ FieldOf(cmd, col) \in DOMAIN of.parse.reads
    /\ of.args[r.at + 1] = of.columns[col] /\ of.columns[col] \notin {"hitParts", "positions"}
    /\ \/ r.from <= r.at + 1
       \/ cmd = ":SOLDIER:STATE:" /\ col \in {"groupID", "side"}
    /\ r.as \in ForIntegers => col \in IntegersOnly /\ cmd # ":PLACED:CREATE:"
    /\ r.as = "Scores" => cmd = ":SOLDIER:STATE:" /\ col = "scores"
    /\ r.as # "Scores" => r.asked = Always
    /\ col = "scores" => cmd = ":SOLDIER:STATE:" /\ r.as = "Scores"
    /\ col = "markerID" => cmd \in {":MARKER:STATE:", ":MARKER:DELETE:"}

ColumnsAreRead(cmd, of) ==
    /\ \A col \in Copied(cmd, of) : ColumnIsRead(cmd, of, col)
    /\ \A col \in DOMAIN of.columns :
          /\ col \in Alternatives => cmd = ":EVENT:KILL:"
          /\ col \in ListColumns => cmd = ":EVENT:PROJECTILE:"

\* The columns the conversion to a row cuts to 16 bits.
Narrowed(cmd, col) ==
    col = "soldierObjectID" /\ cmd \in {":ACE3:DEATH:", ":ACE3:UNCONSCIOUS:"}

\* A column has room for what its conversion returns.
ColumnFits(cmd, of, col) ==
    LET as == of.parse.reads[FieldOf(cmd, col)].as IN
    IF Narrowed(cmd, col)
    THEN as = "Uint" /\ SixteenBits(cmd, col) /\ of.columns[col] \notin Nobodies
    ELSE /\ as \in To16Bits => SixteenBits(cmd, col)
         /\ as \notin To16Bits => ~SixteenBits(cmd, col) /\ Room(cmd, col) = Capacity(as)

ColumnsFit(cmd, of) == \A col \in Copied(cmd, of) : ColumnFits(cmd, of, col)

\* A row takes over the fields of the struct; markerID is the handler's.
RowCarries(cmd, of) ==
    \A e : \A col \in Copied(cmd, of) \ {"markerID"} :
        LET x == e[FieldOf(cmd, col)] IN
        RowOf(cmd, e)[col] = IF Narrowed(cmd, col) THEN U16(x) ELSE x

\* The conversions there are for an argument, by the kinds of names.
LEMMA TheReaders ==
    /\ \A n \in Bools : "Bool" \in Readers(n) /\ "LaxBool" \in Readers(n)
    /\ \A n \in Positions : {"Pos", "BracketedPos"} \subseteq Readers(n)
    /\ \A n \in Jsons : n # "hitParts" => {"Array", "Nested"} \subseteq Readers(n)
    /\ \A n \in Nobodies : ForObjects \subseteq Readers(n)
    /\ \A n \in Numeric : n \notin Nobodies => ForNumbers \subseteq Readers(n)
    /\ "HitParts" \in Readers("hitParts") /\ "Scores" \in Readers("scores")
    /\ \A n : n \notin Bools \union Positions \union Jsons \union Nobodies \union Numeric
                /\ n # "scores" => "Text" \in Readers(n)
<1> DEFINE kind(n, b, p, h, j, o, m, s) ==
               /\ (n \in Bools) = b /\ (n \in Positions) = p /\ (n = "hitParts") = h
               /\ (n \in Jsons \ {"hitParts"}) = j /\ (n \in Nobodies) = o
               /\ (n \in Numeric \ Nobodies) = m /\ (n = "scores") = s
<1>1. ASSUME NEW n
      PROVE  /\ kind(n, TRUE, FALSE, FALSE, FALSE, FALSE, FALSE, FALSE) =>
                   Readers(n) = {"Bool", "LaxBool"}
             /\ kind(n, FALSE, TRUE, FALSE, FALSE, FALSE, FALSE, FALSE) =>
                   Readers(n) = {"Pos", "BracketedPos"}
             /\ kind(n, FALSE, FALSE, TRUE, FALSE, FALSE, FALSE, FALSE) =>
                   Readers(n) = {"HitParts"}
             /\ kind(n, FALSE, FALSE, FALSE, TRUE, FALSE, FALSE, FALSE) =>
                   Readers(n) = {"Array", "Nested"}
             /\ kind(n, FALSE, FALSE, FALSE, FALSE, TRUE, FALSE, FALSE) =>
                   Readers(n) = ForObjects
             /\ kind(n, FALSE, FALSE, FALSE, FALSE, FALSE, TRUE, FALSE) =>
                   Readers(n) = ForNumbers
             /\ kind(n, FALSE, FALSE, FALSE, FALSE, FALSE, FALSE, TRUE) =>
                   Readers(n) = {"Scores"}
             /\ kind(n, FALSE, FALSE, FALSE, FALSE, FALSE, FALSE, FALSE) =>
                   Readers(n) = {"Text"}
    BY DEF Readers
<1>2. ASSUME NEW n \in Bools
      PROVE  kind(n, TRUE, FALSE, FALSE, FALSE, FALSE, FALSE, FALSE)
    BY DEF Bools, Positions, Jsons, Nobodies, Numeric
<1>3. ASSUME NEW n \in Positions
      PROVE  kind(n, FALSE, TRUE, FALSE, FALSE, FALSE, FALSE, FALSE)
    BY DEF Bools, Positions, Jsons, Nobodies, Numeric
<1>4. kind("hitParts", FALSE, FALSE, TRUE, FALSE, FALSE, FALSE, FALSE)
    BY DEF Bools, Positions, Jsons, Nobodies, Numeric
<1>5. ASSUME NEW n \in Jsons, n # "hitParts"
      PROVE  kind(n, FALSE, FALSE, FALSE, TRUE, FALSE, FALSE, FALSE)
    BY <1>5 DEF Bools, Positions, Jsons, Nobodies, Numeric
<1>6. ASSUME NEW n \in Nobodies
      PROVE  kind(n, FALSE, FALSE, FALSE, FALSE, TRUE, FALSE, FALSE)
    BY DEF Bools, Positions, Jsons, Nobodies, Numeric
<1>7. ASSUME NEW n \in Numeric, n \notin Nobodies
      PROVE  kind(n, FALSE, FALSE, FALSE, FALSE, FALSE, TRUE, FALSE)
    BY <1>7 DEF Bools, Positions, Jsons, Nobodies, Numeric
<1>8. kind("scores", FALSE, FALSE, FALSE, FALSE, FALSE, FALSE, TRUE)
    BY DEF Bools, Positions, Jsons, Nobodies, Numeric
<1>9. ASSUME NEW n, n \notin Bools \union Positions \union Jsons \union Nobodies \union Numeric,
             n # "scores"
      PROVE  kind(n, FALSE, FALSE, FALSE, FALSE, FALSE, FALSE, FALSE)
  <2>1. "hitParts" \in Jsons
    BY DEF Jsons
  <2> QED
    BY <1>9, <2>1
<1> HIDE DEF kind
<1>10. \A n \in Bools : "Bool" \in Readers(n) /\ "LaxBool" \in Readers(n)
    BY <1>1, <1>2
<1>11. \A n \in Positions : {"Pos", "BracketedPos"} \subseteq Readers(n)
    BY <1>1, <1>3
<1>12. \A n \in Jsons : n # "hitParts" => {"Array", "Nested"} \subseteq Readers(n)
    BY <1>1, <1>5
<1>13. \A n \in Nobodies : ForObjects \subseteq Readers(n)
    BY <1>1, <1>6
<1>14. \A n \in Numeric : n \notin Nobodies => ForNumbers \subseteq Readers(n)
    BY <1>1, <1>7
<1>15. \A n : n \notin Bools \union Positions \union Jsons \union Nobodies \union Numeric
               /\ n # "scores" => "Text" \in Readers(n)
    BY <1>1, <1>9
<1>16. "HitParts" \in Readers("hitParts") /\ "Scores" \in Readers("scores")
    BY <1>1, <1>4, <1>8
<1> QED
    BY <1>10, <1>11, <1>12, <1>13, <1>14, <1>15, <1>16

\* Every parser reads arguments the command has, with conversions for them.
LEMMA TheReads == \A cmd \in AllCommands : ReadsSuit(Commands[cmd])
<1> USE TheReaders DEF ReadsSuit, Does, Alone, At, IfGiven, IfTrue, Frame, Numeric,
       Jsons, Positions, Bools, Nobodies, ForNumbers, ForObjects
<1>1. ReadsSuit(SOLDIER_CREATE)
  <2> DEFINE args  == SOLDIER_CREATE.args
             reads == SOLDIER_CREATE.parse.reads
  <2>1. /\ Len(args) \in Nat /\ SOLDIER_CREATE.parse.needs \in 0..Len(args)
        /\ \A f \in DOMAIN reads : /\ reads[f].at + 1 \in 1..Len(args)
                                  /\ reads[f].from \in 0..Len(args)
    BY DEF SOLDIER_CREATE, ParseSoldier
  <2>2. \A f \in DOMAIN reads :
            reads[f].at < 5 => reads[f].as \in Readers(args[reads[f].at + 1])
    BY DEF SOLDIER_CREATE, ParseSoldier
  <2>3. \A f \in DOMAIN reads :
            ~(reads[f].at < 5) => reads[f].as \in Readers(args[reads[f].at + 1])
    BY DEF SOLDIER_CREATE, ParseSoldier
  <2> HIDE TheReaders DEF args, reads
  <2>4. \A f \in DOMAIN reads : reads[f].as \in Readers(args[reads[f].at + 1])
    BY <2>2, <2>3
  <2> QED
    BY <2>1, <2>4, Zenon DEF args, reads
<1>2. ReadsSuit(VEHICLE_CREATE)  BY DEF VEHICLE_CREATE, ParseVehicle
<1>3. ReadsSuit(PLACED_CREATE)
  <2> DEFINE args  == PLACED_CREATE.args
             reads == PLACED_CREATE.parse.reads
  <2>1. /\ Len(args) \in Nat /\ PLACED_CREATE.parse.needs \in 0..Len(args)
        /\ \A f \in DOMAIN reads : /\ reads[f].at + 1 \in 1..Len(args)
                                  /\ reads[f].from \in 0..Len(args)
    BY DEF PLACED_CREATE, ParsePlacedObject
  <2>2. \A f \in DOMAIN reads :
            reads[f].at < 4 => reads[f].as \in Readers(args[reads[f].at + 1])
    BY DEF PLACED_CREATE, ParsePlacedObject
  <2>3. \A f \in DOMAIN reads :
            ~(reads[f].at < 4) => reads[f].as \in Readers(args[reads[f].at + 1])
    BY DEF PLACED_CREATE, ParsePlacedObject
  <2> HIDE TheReaders DEF args, reads
  <2>4. \A f \in DOMAIN reads : reads[f].as \in Readers(args[reads[f].at + 1])
    BY <2>2, <2>3
  <2> QED
    BY <2>1, <2>4, Zenon DEF args, reads
<1>4. ReadsSuit(MARKER_CREATE)
  <2> DEFINE args  == MARKER_CREATE.args
             reads == MARKER_CREATE.parse.reads
  <2>1. /\ Len(args) \in Nat /\ MARKER_CREATE.parse.needs \in 0..Len(args)
        /\ \A f \in DOMAIN reads : /\ reads[f].at + 1 \in 1..Len(args)
                                  /\ reads[f].from \in 0..Len(args)
    BY DEF MARKER_CREATE, ParseMarkerCreate
  <2>2. \A f \in DOMAIN reads :
            reads[f].at < 6 => reads[f].as \in Readers(args[reads[f].at + 1])
    BY DEF MARKER_CREATE, ParseMarkerCreate
  <2>3. \A f \in DOMAIN reads :
            ~(reads[f].at < 6) => reads[f].as \in Readers(args[reads[f].at + 1])
    BY DEF MARKER_CREATE, ParseMarkerCreate
  <2> HIDE TheReaders DEF args, reads
  <2>4. \A f \in DOMAIN reads : reads[f].as \in Readers(args[reads[f].at + 1])
    BY <2>2, <2>3
  <2> QED
    BY <2>1, <2>4, Zenon DEF args, reads
<1>5. ReadsSuit(SOLDIER_STATE)
  <2> DEFINE args  == SOLDIER_STATE.args
             reads == SOLDIER_STATE.parse.reads
  <2>1. /\ Len(args) \in Nat /\ SOLDIER_STATE.parse.needs \in 0..Len(args)
        /\ \A f \in DOMAIN reads : /\ reads[f].at + 1 \in 1..Len(args)
                                  /\ reads[f].from \in 0..Len(args)
    BY DEF SOLDIER_STATE, ParseSoldierState
  <2>2. \A f \in DOMAIN reads :
            reads[f].at < 8 => reads[f].as \in Readers(args[reads[f].at + 1])
    BY DEF SOLDIER_STATE, ParseSoldierState
  <2>3. \A f \in DOMAIN reads :
            ~(reads[f].at < 8) => reads[f].as \in Readers(args[reads[f].at + 1])
    BY DEF SOLDIER_STATE, ParseSoldierState
  <2> HIDE TheReaders DEF args, reads
  <2>4. \A f \in DOMAIN reads : reads[f].as \in Readers(args[reads[f].at + 1])
    BY <2>2, <2>3
  <2> QED
    BY <2>1, <2>4, Zenon DEF args, reads
<1>6. ReadsSuit(VEHICLE_STATE)
  <2> DEFINE args  == VEHICLE_STATE.args
             reads == VEHICLE_STATE.parse.reads
  <2>1. /\ Len(args) \in Nat /\ VEHICLE_STATE.parse.needs \in 0..Len(args)
        /\ \A f \in DOMAIN reads : /\ reads[f].at + 1 \in 1..Len(args)
                                  /\ reads[f].from \in 0..Len(args)
    BY DEF VEHICLE_STATE, ParseVehicleState
  <2>2. \A f \in DOMAIN reads :
            reads[f].at < 8 => reads[f].as \in Readers(args[reads[f].at + 1])
    BY DEF VEHICLE_STATE, ParseVehicleState
  <2>3. \A f \in DOMAIN reads :
            ~(reads[f].at < 8) => reads[f].as \in Readers(args[reads[f].at + 1])
    BY DEF VEHICLE_STATE, ParseVehicleState
  <2> HIDE TheReaders DEF args, reads
  <2>4. \A f \in DOMAIN reads : reads[f].as \in Readers(args[reads[f].at + 1])
    BY <2>2, <2>3
  <2> QED
    BY <2>1, <2>4, Zenon DEF args, reads
<1>7. ReadsSuit(MARKER_STATE)
  <2> DEFINE args  == MARKER_STATE.args
             reads == MARKER_STATE.parse.reads
  <2>1. /\ Len(args) \in Nat /\ MARKER_STATE.parse.needs \in 0..Len(args)
        /\ \A f \in DOMAIN reads : /\ reads[f].at + 1 \in 1..Len(args)
                                  /\ reads[f].from \in 0..Len(args)
    BY DEF MARKER_STATE, ParseMarkerMove
  <2>2. \A f \in DOMAIN reads :
            reads[f].at < 5 => reads[f].as \in Readers(args[reads[f].at + 1])
    BY DEF MARKER_STATE, ParseMarkerMove
  <2>3. \A f \in DOMAIN reads :
            ~(reads[f].at < 5) => reads[f].as \in Readers(args[reads[f].at + 1])
    BY DEF MARKER_STATE, ParseMarkerMove
  <2> HIDE TheReaders DEF args, reads
  <2>4. \A f \in DOMAIN reads : reads[f].as \in Readers(args[reads[f].at + 1])
    BY <2>2, <2>3
  <2> QED
    BY <2>1, <2>4, Zenon DEF args, reads
<1>8. ReadsSuit(MARKER_DELETE)  BY DEF MARKER_DELETE, ParseMarkerDelete
<1>9. ReadsSuit(SOLDIER_DELETE)  BY DEF SOLDIER_DELETE, ParseSoldierDelete, EntityID
<1>10. ReadsSuit(VEHICLE_DELETE)
    BY DEF VEHICLE_DELETE, ParseVehicleDelete, ParseSoldierDelete, EntityID
<1>11. ReadsSuit(PLACED_EVENT)  BY DEF PLACED_EVENT, ParsePlacedObjectEvent
<1>12. ReadsSuit(EVENT_PROJECTILE)
  <2> DEFINE args  == EVENT_PROJECTILE.args
             reads == EVENT_PROJECTILE.parse.reads
  <2>1. /\ Len(args) \in Nat /\ EVENT_PROJECTILE.parse.needs \in 0..Len(args)
        /\ \A f \in DOMAIN reads : /\ reads[f].at + 1 \in 1..Len(args)
                                  /\ reads[f].from \in 0..Len(args)
    BY DEF EVENT_PROJECTILE, ParseProjectileEvent
  <2>2. \A f \in DOMAIN reads :
            reads[f].at < 10 => reads[f].as \in Readers(args[reads[f].at + 1])
    BY DEF EVENT_PROJECTILE, ParseProjectileEvent
  <2>3. \A f \in DOMAIN reads :
            ~(reads[f].at < 10) => reads[f].as \in Readers(args[reads[f].at + 1])
    BY DEF EVENT_PROJECTILE, ParseProjectileEvent
  <2> HIDE TheReaders DEF args, reads
  <2>4. \A f \in DOMAIN reads : reads[f].as \in Readers(args[reads[f].at + 1])
    BY <2>2, <2>3
  <2> QED
    BY <2>1, <2>4, Zenon DEF args, reads
<1>13. ReadsSuit(EVENT_KILL)  BY DEF EVENT_KILL, ParseKillEvent
<1>14. ReadsSuit(EVENT_CHAT)  BY DEF EVENT_CHAT, ParseChatEvent
<1>15. ReadsSuit(EVENT_RADIO)
  <2> DEFINE args  == EVENT_RADIO.args
             reads == EVENT_RADIO.parse.reads
  <2>1. /\ Len(args) \in Nat /\ EVENT_RADIO.parse.needs \in 0..Len(args)
        /\ \A f \in DOMAIN reads : /\ reads[f].at + 1 \in 1..Len(args)
                                  /\ reads[f].from \in 0..Len(args)
    BY DEF EVENT_RADIO, ParseRadioEvent
  <2>2. \A f \in DOMAIN reads :
            reads[f].at < 4 => reads[f].as \in Readers(args[reads[f].at + 1])
    BY DEF EVENT_RADIO, ParseRadioEvent
  <2>3. \A f \in DOMAIN reads :
            ~(reads[f].at < 4) => reads[f].as \in Readers(args[reads[f].at + 1])
    BY DEF EVENT_RADIO, ParseRadioEvent
  <2> HIDE TheReaders DEF args, reads
  <2>4. \A f \in DOMAIN reads : reads[f].as \in Readers(args[reads[f].at + 1])
    BY <2>2, <2>3
  <2> QED
    BY <2>1, <2>4, Zenon DEF args, reads
<1>16. ReadsSuit(ACE3_DEATH)  BY DEF ACE3_DEATH, ParseAce3DeathEvent
<1>17. ReadsSuit(ACE3_UNCONSCIOUS)  BY DEF ACE3_UNCONSCIOUS, ParseAce3UnconsciousEvent
<1>18. ReadsSuit(EVENT_GENERAL)  BY DEF EVENT_GENERAL, ParseGeneralEvent
<1>19. ReadsSuit(EVENT_SECTOR)  BY DEF EVENT_SECTOR, ParseSectorEvent
<1>20. ReadsSuit(EVENT_ENDMISSION)  BY DEF EVENT_ENDMISSION, ParseEndMissionEvent
<1>21. ReadsSuit(TELEMETRY_FRAME)  BY DEF TELEMETRY_FRAME, ParseTelemetryEvent
<1>22. ReadsSuit(TIME_STATE)  BY DEF TIME_STATE, ParseTimeState
<1>23. ReadsSuit(MISSION_FOCUS_START)  BY DEF MISSION_FOCUS_START, parseFocusFrame
<1>24. ReadsSuit(MISSION_FOCUS_END)  BY DEF MISSION_FOCUS_END, parseFocusFrame
<1> HIDE TheReaders DEF ReadsSuit, Does, Alone, At, IfGiven, IfTrue, Frame, Numeric,
       Jsons, Positions, Bools, Nobodies, ForNumbers, ForObjects
<1> QED
    BY TheCommands, <1>1, <1>2, <1>3, <1>4, <1>5, <1>6, <1>7, <1>8, <1>9, <1>10, <1>11, <1>12,
       <1>13, <1>14, <1>15, <1>16, <1>17, <1>18, <1>19, <1>20, <1>21, <1>22, <1>23, <1>24
       DEF AllCommands, Creates, Reports

\* No command has two arguments of one name.
LEMMA TheArguments == \A cmd \in AllCommands : ArgumentsDiffer(Commands[cmd])
<1> USE DEF ArgumentsDiffer, Does, Alone
<1>1. ArgumentsDiffer(SOLDIER_CREATE)  BY DEF SOLDIER_CREATE
<1>2. ArgumentsDiffer(VEHICLE_CREATE)  BY DEF VEHICLE_CREATE
<1>3. ArgumentsDiffer(PLACED_CREATE)  BY DEF PLACED_CREATE
<1>4. ArgumentsDiffer(MARKER_CREATE)  BY DEF MARKER_CREATE
<1>5. ArgumentsDiffer(SOLDIER_STATE)  BY DEF SOLDIER_STATE
<1>6. ArgumentsDiffer(VEHICLE_STATE)  BY DEF VEHICLE_STATE
<1>7. ArgumentsDiffer(MARKER_STATE)  BY DEF MARKER_STATE
<1>8. ArgumentsDiffer(MARKER_DELETE)  BY DEF MARKER_DELETE
<1>9. ArgumentsDiffer(SOLDIER_DELETE)  BY DEF SOLDIER_DELETE, EntityID
<1>10. ArgumentsDiffer(VEHICLE_DELETE)  BY DEF VEHICLE_DELETE, EntityID
<1>11. ArgumentsDiffer(PLACED_EVENT)  BY DEF PLACED_EVENT
<1>12. ArgumentsDiffer(EVENT_PROJECTILE)  BY DEF EVENT_PROJECTILE
<1>13. ArgumentsDiffer(EVENT_KILL)  BY DEF EVENT_KILL
<1>14. ArgumentsDiffer(EVENT_CHAT)  BY DEF EVENT_CHAT
<1>15. ArgumentsDiffer(EVENT_RADIO)  BY DEF EVENT_RADIO
<1>16. ArgumentsDiffer(ACE3_DEATH)  BY DEF ACE3_DEATH
<1>17. ArgumentsDiffer(ACE3_UNCONSCIOUS)  BY DEF ACE3_UNCONSCIOUS
<1>18. ArgumentsDiffer(EVENT_GENERAL)  BY DEF EVENT_GENERAL
<1>19. ArgumentsDiffer(EVENT_SECTOR)  BY DEF EVENT_SECTOR
<1>20. ArgumentsDiffer(EVENT_ENDMISSION)  BY DEF EVENT_ENDMISSION
<1>21. ArgumentsDiffer(TELEMETRY_FRAME)  BY DEF TELEMETRY_FRAME
<1>22. ArgumentsDiffer(TIME_STATE)  BY DEF TIME_STATE
<1>23. ArgumentsDiffer(MISSION_FOCUS_START)  BY DEF MISSION_FOCUS_START
<1>24. ArgumentsDiffer(MISSION_FOCUS_END)  BY DEF MISSION_FOCUS_END
<1> HIDE DEF ArgumentsDiffer, Does, Alone
<1> QED
    BY TheCommands, <1>1, <1>2, <1>3, <1>4, <1>5, <1>6, <1>7, <1>8, <1>9, <1>10, <1>11, <1>12,
       <1>13, <1>14, <1>15, <1>16, <1>17, <1>18, <1>19, <1>20, <1>21, <1>22, <1>23, <1>24
       DEF AllCommands, Creates, Reports

\* Only some arguments may name nobody, and no argument names both objects.
LEMMA TheIDs == \A cmd \in AllCommands : IDsFit(Commands[cmd])
<1> USE DEF IDsFit, Does, Alone, Nobodies
<1>1. IDsFit(SOLDIER_CREATE)  BY IDsAreNumbers DEF SOLDIER_CREATE
<1>2. IDsFit(VEHICLE_CREATE)  BY IDsAreNumbers DEF VEHICLE_CREATE
<1>3. IDsFit(PLACED_CREATE)  BY IDsAreNumbers DEF PLACED_CREATE
<1>4. IDsFit(MARKER_CREATE)  BY IDsAreNumbers DEF MARKER_CREATE
<1>5. IDsFit(SOLDIER_STATE)  BY IDsAreNumbers DEF SOLDIER_STATE
<1>6. IDsFit(VEHICLE_STATE)  BY IDsAreNumbers DEF VEHICLE_STATE
<1>7. IDsFit(MARKER_STATE)  BY IDsAreNumbers DEF MARKER_STATE
<1>8. IDsFit(MARKER_DELETE)  BY IDsAreNumbers DEF MARKER_DELETE
<1>9. IDsFit(SOLDIER_DELETE)  BY IDsAreNumbers DEF SOLDIER_DELETE, EntityID
<1>10. IDsFit(VEHICLE_DELETE)  BY IDsAreNumbers DEF VEHICLE_DELETE, EntityID
<1>11. IDsFit(PLACED_EVENT)  BY IDsAreNumbers DEF PLACED_EVENT
<1>12. IDsFit(EVENT_PROJECTILE)  BY IDsAreNumbers DEF EVENT_PROJECTILE
<1>13. IDsFit(EVENT_KILL)  BY IDsAreNumbers DEF EVENT_KILL
<1>14. IDsFit(EVENT_CHAT)  BY IDsAreNumbers DEF EVENT_CHAT
<1>15. IDsFit(EVENT_RADIO)  BY IDsAreNumbers DEF EVENT_RADIO
<1>16. IDsFit(ACE3_DEATH)  BY IDsAreNumbers DEF ACE3_DEATH
<1>17. IDsFit(ACE3_UNCONSCIOUS)  BY IDsAreNumbers DEF ACE3_UNCONSCIOUS
<1>18. IDsFit(EVENT_GENERAL)  BY IDsAreNumbers DEF EVENT_GENERAL
<1>19. IDsFit(EVENT_SECTOR)  BY IDsAreNumbers DEF EVENT_SECTOR
<1>20. IDsFit(EVENT_ENDMISSION)  BY IDsAreNumbers DEF EVENT_ENDMISSION
<1>21. IDsFit(TELEMETRY_FRAME)  BY IDsAreNumbers DEF TELEMETRY_FRAME
<1>22. IDsFit(TIME_STATE)  BY IDsAreNumbers DEF TIME_STATE
<1>23. IDsFit(MISSION_FOCUS_START)  BY IDsAreNumbers DEF MISSION_FOCUS_START
<1>24. IDsFit(MISSION_FOCUS_END)  BY IDsAreNumbers DEF MISSION_FOCUS_END
<1> HIDE DEF IDsFit, Does, Alone, Nobodies
<1> QED
    BY TheCommands, <1>1, <1>2, <1>3, <1>4, <1>5, <1>6, <1>7, <1>8, <1>9, <1>10, <1>11, <1>12,
       <1>13, <1>14, <1>15, <1>16, <1>17, <1>18, <1>19, <1>20, <1>21, <1>22, <1>23, <1>24
       DEF AllCommands, Creates, Reports

\* Every column that is copied is one that its parser has read from the argument it is about.
LEMMA TheColumns == \A cmd \in AllCommands : ColumnsAreRead(cmd, Commands[cmd])
<1> USE DEF ColumnsAreRead, ColumnIsRead, Copied, FieldOf, NeverRead, Alternatives,
       ListColumns, IntegersOnly, ForIntegers, Does, Alone, At, IfGiven, IfTrue, Frame
<1>1. ColumnsAreRead(":SOLDIER:CREATE:", SOLDIER_CREATE)
    BY DEF SOLDIER_CREATE, ParseSoldier, Soldier
<1>2. ColumnsAreRead(":VEHICLE:CREATE:", VEHICLE_CREATE)
    BY DEF VEHICLE_CREATE, ParseVehicle, Vehicle
<1>3. ColumnsAreRead(":PLACED:CREATE:", PLACED_CREATE)
    BY DEF PLACED_CREATE, ParsePlacedObject, PlacedObject
<1>4. ColumnsAreRead(":MARKER:CREATE:", MARKER_CREATE)
    BY DEF MARKER_CREATE, ParseMarkerCreate, Marker
<1>5. ColumnsAreRead(":SOLDIER:STATE:", SOLDIER_STATE)
    BY DEF SOLDIER_STATE, ParseSoldierState, SoldierState
<1>6. ColumnsAreRead(":VEHICLE:STATE:", VEHICLE_STATE)
  <2>1. \A col \in Copied(":VEHICLE:STATE:", VEHICLE_STATE) :
        col = "vehicleObjectID" => ColumnIsRead(":VEHICLE:STATE:", VEHICLE_STATE, col)
    BY DEF VEHICLE_STATE, ParseVehicleState, VehicleState
  <2>2. \A col \in Copied(":VEHICLE:STATE:", VEHICLE_STATE) :
        col # "vehicleObjectID" => ColumnIsRead(":VEHICLE:STATE:", VEHICLE_STATE, col)
    BY DEF VEHICLE_STATE, ParseVehicleState, VehicleState
  <2>3. \A col \in DOMAIN VEHICLE_STATE.columns : col \notin Alternatives \union ListColumns
    BY DEF VEHICLE_STATE, ParseVehicleState, VehicleState
  <2> HIDE DEF ColumnIsRead, Copied
  <2> QED
    BY <2>1, <2>2, <2>3
<1>7. ColumnsAreRead(":MARKER:STATE:", MARKER_STATE)
    BY DEF MARKER_STATE, ParseMarkerMove, MarkerState
<1>8. ColumnsAreRead(":MARKER:DELETE:", MARKER_DELETE)
  <2>1. \A col \in Copied(":MARKER:DELETE:", MARKER_DELETE) :
        col = "captureFrame" => ColumnIsRead(":MARKER:DELETE:", MARKER_DELETE, col)
    BY DEF MARKER_DELETE, ParseMarkerDelete
  <2>2. \A col \in Copied(":MARKER:DELETE:", MARKER_DELETE) :
        col # "captureFrame" => ColumnIsRead(":MARKER:DELETE:", MARKER_DELETE, col)
    BY DEF MARKER_DELETE, ParseMarkerDelete
  <2>3. \A col \in DOMAIN MARKER_DELETE.columns : col \notin Alternatives \union ListColumns
    BY DEF MARKER_DELETE, ParseMarkerDelete
  <2> HIDE DEF ColumnIsRead, Copied
  <2> QED
    BY <2>1, <2>2, <2>3
<1>9. ColumnsAreRead(":SOLDIER:DELETE:", SOLDIER_DELETE)
    BY DEF SOLDIER_DELETE, ParseSoldierDelete, EntityID, DeleteColumns
<1>10. ColumnsAreRead(":VEHICLE:DELETE:", VEHICLE_DELETE)
    BY DEF VEHICLE_DELETE, ParseVehicleDelete, ParseSoldierDelete, EntityID,
       DeleteColumns
<1>11. ColumnsAreRead(":PLACED:EVENT:", PLACED_EVENT)
    BY DEF PLACED_EVENT, ParsePlacedObjectEvent, PlacedObjectEvent
<1>12. ColumnsAreRead(":EVENT:PROJECTILE:", EVENT_PROJECTILE)
    BY DEF EVENT_PROJECTILE, ParseProjectileEvent, ProjectileEvent
<1>13. ColumnsAreRead(":EVENT:KILL:", EVENT_KILL)
    BY DEF EVENT_KILL, ParseKillEvent, KillEvent
<1>14. ColumnsAreRead(":EVENT:CHAT:", EVENT_CHAT)
    BY DEF EVENT_CHAT, ParseChatEvent, ChatEvent
<1>15. ColumnsAreRead(":EVENT:RADIO:", EVENT_RADIO)
    BY DEF EVENT_RADIO, ParseRadioEvent, RadioEvent
<1>16. ColumnsAreRead(":ACE3:DEATH:", ACE3_DEATH)
    BY DEF ACE3_DEATH, ParseAce3DeathEvent, Ace3DeathEvent
<1>17. ColumnsAreRead(":ACE3:UNCONSCIOUS:", ACE3_UNCONSCIOUS)
    BY DEF ACE3_UNCONSCIOUS, ParseAce3UnconsciousEvent, Ace3UnconsciousEvent
<1>18. ColumnsAreRead(":EVENT:GENERAL:", EVENT_GENERAL)
    BY DEF EVENT_GENERAL, ParseGeneralEvent, GeneralEvent
<1>19. ColumnsAreRead(":EVENT:SECTOR:", EVENT_SECTOR)
    BY DEF EVENT_SECTOR, ParseSectorEvent, SectorEvent
<1>20. ColumnsAreRead(":EVENT:ENDMISSION:", EVENT_ENDMISSION)
    BY DEF EVENT_ENDMISSION, ParseEndMissionEvent, EndMissionEvent
<1>21. ColumnsAreRead(":TELEMETRY:FRAME:", TELEMETRY_FRAME)
    BY DEF TELEMETRY_FRAME, ParseTelemetryEvent, ServerFpsEvent
<1>22. ColumnsAreRead(":TIME:STATE:", TIME_STATE)
    BY DEF TIME_STATE, ParseTimeState, TimeState
<1>23. ColumnsAreRead(":MISSION:FOCUS_START:", MISSION_FOCUS_START)
    BY DEF MISSION_FOCUS_START, parseFocusFrame
<1>24. ColumnsAreRead(":MISSION:FOCUS_END:", MISSION_FOCUS_END)
    BY DEF MISSION_FOCUS_END, parseFocusFrame
<1> HIDE DEF ColumnsAreRead, ColumnIsRead, Copied, FieldOf, NeverRead, Alternatives,
       ListColumns, IntegersOnly, ForIntegers, Does, Alone, At, IfGiven, IfTrue, Frame
<1> QED
    BY TheCommands, <1>1, <1>2, <1>3, <1>4, <1>5, <1>6, <1>7, <1>8, <1>9, <1>10, <1>11, <1>12,
       <1>13, <1>14, <1>15, <1>16, <1>17, <1>18, <1>19, <1>20, <1>21, <1>22, <1>23, <1>24
       DEF AllCommands, Creates, Reports

\* Every column that is copied has room for what its parser returns.
LEMMA TheWidths == \A cmd \in AllCommands : ColumnsFit(cmd, Commands[cmd])
<1> USE DEF ColumnsFit, ColumnFits, Copied, FieldOf, NeverRead, Alternatives, ListColumns,
       SixteenBits, Room, Narrowed, To16Bits, Capacity, Does, Alone, At, IfGiven, IfTrue, Frame
<1>1. ColumnsFit(":SOLDIER:CREATE:", SOLDIER_CREATE)
    BY DEF SOLDIER_CREATE, ParseSoldier, Soldier
<1>2. ColumnsFit(":VEHICLE:CREATE:", VEHICLE_CREATE)
    BY DEF VEHICLE_CREATE, ParseVehicle, Vehicle
<1>3. ColumnsFit(":PLACED:CREATE:", PLACED_CREATE)
    BY DEF PLACED_CREATE, ParsePlacedObject, PlacedObject
<1>4. ColumnsFit(":MARKER:CREATE:", MARKER_CREATE)
    BY DEF MARKER_CREATE, ParseMarkerCreate, Marker
<1>5. ColumnsFit(":SOLDIER:STATE:", SOLDIER_STATE)
    BY DEF SOLDIER_STATE, ParseSoldierState, SoldierState
<1>6. ColumnsFit(":VEHICLE:STATE:", VEHICLE_STATE)
    BY DEF VEHICLE_STATE, ParseVehicleState, VehicleState
<1>7. ColumnsFit(":MARKER:STATE:", MARKER_STATE)
    BY DEF MARKER_STATE, ParseMarkerMove, MarkerState
<1>8. ColumnsFit(":MARKER:DELETE:", MARKER_DELETE)
    BY DEF MARKER_DELETE, ParseMarkerDelete
<1>9. ColumnsFit(":SOLDIER:DELETE:", SOLDIER_DELETE)
    BY DEF SOLDIER_DELETE, ParseSoldierDelete, EntityID, DeleteColumns
<1>10. ColumnsFit(":VEHICLE:DELETE:", VEHICLE_DELETE)
    BY DEF VEHICLE_DELETE, ParseVehicleDelete, ParseSoldierDelete, EntityID, DeleteColumns
<1>11. ColumnsFit(":PLACED:EVENT:", PLACED_EVENT)
    BY DEF PLACED_EVENT, ParsePlacedObjectEvent, PlacedObjectEvent
<1>12. ColumnsFit(":EVENT:PROJECTILE:", EVENT_PROJECTILE)
    BY DEF EVENT_PROJECTILE, ParseProjectileEvent, ProjectileEvent
<1>13. ColumnsFit(":EVENT:KILL:", EVENT_KILL)
    BY DEF EVENT_KILL, ParseKillEvent, KillEvent
<1>14. ColumnsFit(":EVENT:CHAT:", EVENT_CHAT)
    BY DEF EVENT_CHAT, ParseChatEvent, ChatEvent
<1>15. ColumnsFit(":EVENT:RADIO:", EVENT_RADIO)
    BY DEF EVENT_RADIO, ParseRadioEvent, RadioEvent
<1>16. ColumnsFit(":ACE3:DEATH:", ACE3_DEATH)
  <2>1. \A col \in Copied(":ACE3:DEATH:", ACE3_DEATH) :
        col = "soldierObjectID" => ColumnFits(":ACE3:DEATH:", ACE3_DEATH, col)
    BY DEF ACE3_DEATH, ParseAce3DeathEvent, Ace3DeathEvent, Nobodies
  <2>2. \A col \in Copied(":ACE3:DEATH:", ACE3_DEATH) :
        col # "soldierObjectID" => ColumnFits(":ACE3:DEATH:", ACE3_DEATH, col)
    BY DEF ACE3_DEATH, ParseAce3DeathEvent, Ace3DeathEvent
  <2> HIDE DEF ColumnFits, Copied
  <2> QED
    BY <2>1, <2>2
<1>17. ColumnsFit(":ACE3:UNCONSCIOUS:", ACE3_UNCONSCIOUS)
  <2>1. \A col \in Copied(":ACE3:UNCONSCIOUS:", ACE3_UNCONSCIOUS) :
        col = "soldierObjectID" => ColumnFits(":ACE3:UNCONSCIOUS:", ACE3_UNCONSCIOUS, col)
    BY DEF ACE3_UNCONSCIOUS, ParseAce3UnconsciousEvent, Ace3UnconsciousEvent, Nobodies
  <2>2. \A col \in Copied(":ACE3:UNCONSCIOUS:", ACE3_UNCONSCIOUS) :
        col # "soldierObjectID" => ColumnFits(":ACE3:UNCONSCIOUS:", ACE3_UNCONSCIOUS, col)
    BY DEF ACE3_UNCONSCIOUS, ParseAce3UnconsciousEvent, Ace3UnconsciousEvent
  <2> HIDE DEF ColumnFits, Copied
  <2> QED
    BY <2>1, <2>2
<1>18. ColumnsFit(":EVENT:GENERAL:", EVENT_GENERAL)
    BY DEF EVENT_GENERAL, ParseGeneralEvent, GeneralEvent
<1>19. ColumnsFit(":EVENT:SECTOR:", EVENT_SECTOR)
    BY DEF EVENT_SECTOR, ParseSectorEvent, SectorEvent
<1>20. ColumnsFit(":EVENT:ENDMISSION:", EVENT_ENDMISSION)
    BY DEF EVENT_ENDMISSION, ParseEndMissionEvent, EndMissionEvent
<1>21. ColumnsFit(":TELEMETRY:FRAME:", TELEMETRY_FRAME)
    BY DEF TELEMETRY_FRAME, ParseTelemetryEvent, ServerFpsEvent
<1>22. ColumnsFit(":TIME:STATE:", TIME_STATE)
    BY DEF TIME_STATE, ParseTimeState, TimeState
<1>23. ColumnsFit(":MISSION:FOCUS_START:", MISSION_FOCUS_START)
    BY DEF MISSION_FOCUS_START, parseFocusFrame
<1>24. ColumnsFit(":MISSION:FOCUS_END:", MISSION_FOCUS_END)
    BY DEF MISSION_FOCUS_END, parseFocusFrame
<1> HIDE DEF ColumnsFit, ColumnFits, Copied, FieldOf, NeverRead, Alternatives, ListColumns,
       SixteenBits, Room, Narrowed, To16Bits, Capacity, Does, Alone, At, IfGiven, IfTrue, Frame
<1> QED
    BY TheCommands, <1>1, <1>2, <1>3, <1>4, <1>5, <1>6, <1>7, <1>8, <1>9, <1>10, <1>11, <1>12,
       <1>13, <1>14, <1>15, <1>16, <1>17, <1>18, <1>19, <1>20, <1>21, <1>22, <1>23, <1>24
       DEF AllCommands, Creates, Reports

\* Every row takes over the fields of its struct, at most narrowed to 16 bits.
LEMMA TheRows == \A cmd \in AllCommands : RowCarries(cmd, Commands[cmd])
<1> USE DEF RowCarries, RowOf, Fields, Same, Copied, FieldOf, NeverRead,
       Alternatives, ListColumns, Narrowed, Does, Alone
<1>1. RowCarries(":SOLDIER:CREATE:", SOLDIER_CREATE)
    BY DEF SOLDIER_CREATE, ParseSoldier, Soldier, CoreToSoldier
<1>2. RowCarries(":VEHICLE:CREATE:", VEHICLE_CREATE)
    BY DEF VEHICLE_CREATE, ParseVehicle, Vehicle, CoreToVehicle
<1>3. RowCarries(":PLACED:CREATE:", PLACED_CREATE)
    BY DEF PLACED_CREATE, ParsePlacedObject, PlacedObject, CoreToPlacedObject
<1>4. RowCarries(":MARKER:CREATE:", MARKER_CREATE)
    BY DEF MARKER_CREATE, ParseMarkerCreate, Marker, CoreToMarker
<1>5. RowCarries(":SOLDIER:STATE:", SOLDIER_STATE)
    BY DEF SOLDIER_STATE, ParseSoldierState, SoldierState, CoreToSoldierState
<1>6. RowCarries(":VEHICLE:STATE:", VEHICLE_STATE)
    BY DEF VEHICLE_STATE, ParseVehicleState, VehicleState, CoreToVehicleState
<1>7. RowCarries(":MARKER:STATE:", MARKER_STATE)
    BY DEF MARKER_STATE, ParseMarkerMove, MarkerState, CoreToMarkerState
<1>8. RowCarries(":MARKER:DELETE:", MARKER_DELETE)
    BY DEF MARKER_DELETE, ParseMarkerDelete
<1>9. RowCarries(":SOLDIER:DELETE:", SOLDIER_DELETE)
    BY DEF SOLDIER_DELETE, ParseSoldierDelete, EntityID, DeleteColumns
<1>10. RowCarries(":VEHICLE:DELETE:", VEHICLE_DELETE)
    BY DEF VEHICLE_DELETE, ParseVehicleDelete, ParseSoldierDelete, EntityID,
       DeleteColumns
<1>11. RowCarries(":PLACED:EVENT:", PLACED_EVENT)
    BY DEF PLACED_EVENT, ParsePlacedObjectEvent, PlacedObjectEvent,
       CoreToPlacedObjectEvent
<1>12. RowCarries(":EVENT:PROJECTILE:", EVENT_PROJECTILE)
    BY DEF EVENT_PROJECTILE, ParseProjectileEvent, ProjectileEvent,
       CoreToProjectileEvent
<1>13. RowCarries(":EVENT:KILL:", EVENT_KILL)
    BY DEF EVENT_KILL, ParseKillEvent, KillEvent, CoreToKillEvent
<1>14. RowCarries(":EVENT:CHAT:", EVENT_CHAT)
    BY DEF EVENT_CHAT, ParseChatEvent, ChatEvent, CoreToChatEvent
<1>15. RowCarries(":EVENT:RADIO:", EVENT_RADIO)
    BY DEF EVENT_RADIO, ParseRadioEvent, RadioEvent, CoreToRadioEvent
<1>16. RowCarries(":ACE3:DEATH:", ACE3_DEATH)
    BY DEF ACE3_DEATH, ParseAce3DeathEvent, Ace3DeathEvent, CoreToAce3DeathEvent
<1>17. RowCarries(":ACE3:UNCONSCIOUS:", ACE3_UNCONSCIOUS)
    BY DEF ACE3_UNCONSCIOUS, ParseAce3UnconsciousEvent, Ace3UnconsciousEvent,
       CoreToAce3UnconsciousEvent
<1>18. RowCarries(":EVENT:GENERAL:", EVENT_GENERAL)
    BY DEF EVENT_GENERAL, ParseGeneralEvent, GeneralEvent, CoreToGeneralEvent
<1>19. RowCarries(":EVENT:SECTOR:", EVENT_SECTOR)
    BY DEF EVENT_SECTOR, ParseSectorEvent, SectorEvent, RecordSectorEvent
<1>20. RowCarries(":EVENT:ENDMISSION:", EVENT_ENDMISSION)
    BY DEF EVENT_ENDMISSION, ParseEndMissionEvent, EndMissionEvent,
       RecordEndMissionEvent
<1>21. RowCarries(":TELEMETRY:FRAME:", TELEMETRY_FRAME)
    BY DEF TELEMETRY_FRAME, ParseTelemetryEvent, ServerFpsEvent, RecordTelemetryEvent
<1>22. RowCarries(":TIME:STATE:", TIME_STATE)
    BY DEF TIME_STATE, ParseTimeState, TimeState
<1>23. RowCarries(":MISSION:FOCUS_START:", MISSION_FOCUS_START)
    BY DEF MISSION_FOCUS_START, parseFocusFrame
<1>24. RowCarries(":MISSION:FOCUS_END:", MISSION_FOCUS_END)
    BY DEF MISSION_FOCUS_END, parseFocusFrame
<1> HIDE DEF RowCarries, RowOf, Fields, Same, Copied, FieldOf, NeverRead,
       Alternatives, ListColumns, Narrowed, Does, Alone
<1> QED
    BY TheCommands, <1>1, <1>2, <1>3, <1>4, <1>5, <1>6, <1>7, <1>8, <1>9, <1>10, <1>11, <1>12,
       <1>13, <1>14, <1>15, <1>16, <1>17, <1>18, <1>19, <1>20, <1>21, <1>22, <1>23, <1>24
       DEF AllCommands, Creates, Reports

-----------------------------------------------------------------------------
(* The calls *)

\* A call that was sent.
Sent(c) ==
    LET of == Commands[c.cmd] IN
    /\ c.cmd \in AllCommands
    /\ c.self \in of.selves /\ c.other \in of.others
    /\ c.hits \in Hits /\ c.size \in Sizes
    /\ c.flaw \in {Whole} \union Flaws(c.cmd)

\* A call that can be made is one of its command, with at most one flaw.
LEMMA CallsAreSent ==
    ASSUME NEW cmd \in AllCommands, NEW c \in Calls(cmd)
    PROVE  c.cmd = cmd /\ Sent(c)
<1> DEFINE of == Commands[cmd]
           hits == IF cmd = ":EVENT:PROJECTILE:" THEN Hits ELSE {<< >>}
           One(S) == {x \in S : x = CHOOSE y \in S : TRUE}
           whole == [cmd : {cmd}, self : of.selves, other : of.others, hits : hits,
                     size : Sizes, flaw : {Whole}]
           flawed == [cmd : {cmd}, self : One(of.selves), other : One(of.others),
                      hits : {<< >>}, size : {AnySize}, flaw : Flaws(cmd)]
<1>1. c \in whole \/ c \in flawed
    BY DEF Calls
<1>2. \A S : One(S) \subseteq S
    OBVIOUS
<1>3. hits \subseteq Hits /\ << >> \in Hits /\ AnySize \in Sizes
    BY SizesAreSmall DEF Hits, AnySize
<1> HIDE DEF hits, One
<1>4. /\ c.cmd = cmd /\ c.hits \in Hits /\ c.size \in Sizes
      /\ c.self \in of.selves /\ c.other \in of.others
      /\ c.flaw \in {Whole} \union Flaws(cmd)
    BY <1>1, <1>2, <1>3
<1> QED
    BY <1>4 DEF Sent

\* A flaw is an argument in another form, or the end of a call that is cut short.
LEMMA FlawsAre ==
    ASSUME NEW c, Sent(c)
    PROVE  LET n == Len(Commands[c.cmd].args)
           IN  /\ n \in Nat
               /\ c.flaw.at \in 0..n
               /\ c.flaw.as \in {"whole", "text", "empty", "list", "cut"}
               /\ c.flaw.as = "cut" => c.flaw.at < n
<1> DEFINE n == Len(Commands[c.cmd].args)
<1>1. n \in Nat
    BY TheReads DEF Sent, ReadsSuit
<1>2. c.flaw = Whole \/ c.flaw \in Flaws(c.cmd)
    BY DEF Sent
<1>3. c.flaw \in Flaws(c.cmd) =>
        \/ c.flaw \in [at : 1..n, as : {"text", "empty", "list"}]
        \/ c.flaw \in [at : 0..(n - 1), as : {"cut"}]
    BY DEF Flaws
<1> HIDE DEF n
<1>4. c.flaw = Whole => c.flaw.at = 0 /\ c.flaw.as = "whole"
    BY DEF Whole
<1>5. /\ c.flaw.at \in 0..n
      /\ c.flaw.as \in {"whole", "text", "empty", "list", "cut"}
      /\ c.flaw.as = "cut" => c.flaw.at < n
    BY <1>1, <1>2, <1>3, <1>4
<1> QED
    BY <1>1, <1>5 DEF n

\* An argument the call has stands for its value, however it is written, and one
\* that is not flawed is written as its name says.
LEMMA ArgumentIs ==
    ASSUME NEW c, Sent(c), NEW k \in Nat \ {0}
    PROVE  LET names == Commands[c.cmd].args
           IN  /\ Len(Args(c)) \in Nat
               /\ Len(Args(c)) = IF c.flaw.as = "cut" THEN c.flaw.at ELSE Len(names)
               /\ k <= Len(names) /\ ~Flawed(c, k) => k <= Len(Args(c))
               /\ k <= Len(Args(c)) =>
                     /\ Args(c)[k].v = ValueAt(c, k)
                     /\ ~Flawed(c, k) => Args(c)[k].form = Form(names[k])
<1> DEFINE names == Commands[c.cmd].args
           m == IF c.flaw.as = "cut" THEN c.flaw.at ELSE Len(names)
           arg(j) == [form |-> IF Flawed(c, j) THEN c.flaw.as ELSE Form(names[j]),
                      v |-> ValueAt(c, j)]
<1>1. m \in Nat /\ Len(names) \in Nat /\ c.flaw.at \in Nat
    BY FlawsAre
<1>2. Args(c) = [j \in 1..m |-> arg(j)]
    BY DEF Args
<1>3. /\ arg(k).v = ValueAt(c, k)
      /\ ~Flawed(c, k) => arg(k).form = Form(names[k])
    OBVIOUS
<1>4. k <= Len(names) /\ ~Flawed(c, k) => k <= m
    BY <1>1 DEF Flawed
<1>5. m = IF c.flaw.as = "cut" THEN c.flaw.at ELSE Len(names)
    OBVIOUS
<1> HIDE DEF arg, m
<1>6. Len(Args(c)) = m
    BY <1>1, <1>2
<1>7. k <= m => Args(c)[k] = arg(k)
    BY <1>1, <1>2
<1> QED
    BY <1>1, <1>3, <1>4, <1>5, <1>6, <1>7

\* Sizes are numbers.
LEMMA SizesAreNumbers == Sizes \subseteq Nat
<1>1. UInt16 \subseteq Nat
    BY DEF UInt16
<1> QED
    BY <1>1, SizesAreSmall

\* The values: the objects a projectile hit, the points of its path, or a number,
\* -1 only for nobody.
LEMMA ValuesAre ==
    ASSUME NEW c, Sent(c), NEW k \in 1..Len(Commands[c.cmd].args)
    PROVE  LET name == Commands[c.cmd].args[k]
           IN  /\ name = "hitParts" => ValueAt(c, k) = c.hits
               /\ name = "positions" => ValueAt(c, k) = Trajectory(c)
               /\ name \notin {"hitParts", "positions"} =>
                     /\ ValueAt(c, k) \in Nat \union {-1}
                     /\ ValueAt(c, k) = -1 => name \in Nobodies
<1> DEFINE of == Commands[c.cmd]
           name == of.args[k]
           player == IF c.self \in Players THEN 1 ELSE 0
<1>1. /\ of.selves \subseteq Nat \union {-1} /\ of.others \subseteq Nat \union {-1}
      /\ -1 \in of.selves => of.self \in Nobodies \union {"none"}
      /\ -1 \in of.others => of.other \in Nobodies \union {"none"}
      /\ {of.self, of.other} \intersect {"hitParts", "positions", "isPlayer"} = {}
      /\ of.self = of.other => of.self = "none"
    BY TheIDs DEF Sent, IDsFit
<1>2. name # "none"
    BY TheArguments DEF Sent, ArgumentsDiffer
<1>3. c.self \in of.selves /\ c.other \in of.others
    BY DEF Sent
<1>4. Len(of.args) \in Nat /\ c.size \in Nat /\ player \in Nat
  <2>1. c.size \in Nat
    BY SizesAreNumbers DEF Sent
  <2>2. Len(of.args) \in Nat
    BY FlawsAre
  <2> QED
    BY <2>1, <2>2
<1> HIDE DEF of, player
<1>5. ValueAt(c, k) = CASE name = of.self -> c.self
                        [] name = of.other -> c.other
                        [] name = "hitParts" -> c.hits
                        [] name = "positions" -> Trajectory(c)
                        [] name = "isPlayer" -> player
                        [] OTHER -> c.size + k
    BY DEF ValueAt, of, player
<1> HIDE DEF name
<1>6. ~(name = of.self /\ name = of.other)
    BY <1>1, <1>2 DEF name
<1>7. CASE name = of.self /\ name # of.other
  <2>1. ValueAt(c, k) = c.self
    BY <1>1, <1>5, <1>7
  <2> QED
    BY <1>1, <1>2, <1>3, <1>7, <2>1 DEF name, of
<1>8. CASE name # of.self /\ name = of.other
  <2>1. ValueAt(c, k) = c.other
    BY <1>1, <1>5, <1>8
  <2> QED
    BY <1>1, <1>2, <1>3, <1>8, <2>1 DEF name, of
<1>9. CASE name # of.self /\ name # of.other /\ name \in {"hitParts", "positions"}
  <2>1. /\ name = "hitParts" => ValueAt(c, k) = c.hits
        /\ name = "positions" => ValueAt(c, k) = Trajectory(c)
    BY <1>5, <1>9
  <2> QED
    BY <1>9, <2>1 DEF name, of
<1>10. CASE name # of.self /\ name # of.other /\ name \notin {"hitParts", "positions"}
  <2>1. ValueAt(c, k) \in {player, c.size + k}
    BY <1>5, <1>10
  <2>2. ValueAt(c, k) \in Nat
    BY <1>4, <2>1 DEF of
  <2> QED
    BY <1>10, <2>2 DEF name, of
<1> QED
    BY <1>6, <1>7, <1>8, <1>9, <1>10

\* The objects a projectile hit are a short list of IDs.
LEMMA HitsAre ==
    ASSUME NEW hits \in Hits
    PROVE  /\ hits \in Seq(Nat)
           /\ \E n \in Nat : DOMAIN hits = 1..n
<1>1. CASE hits = << >>
  <2>1. hits \in Seq(Nat) /\ DOMAIN hits = 1..0
    BY <1>1
  <2> QED
    BY <2>1
<1>2. CASE \E id \in Entities \union Placed : hits = << id >>
  <2>1. hits \in Seq(Nat) /\ DOMAIN hits = 1..1
    BY <1>2, IDsAreNumbers
  <2> QED
    BY <2>1
<1>3. CASE \E v \in Vehicles, s \in Soldiers : hits = << v, s >>
  <2>1. hits \in Seq(Nat) /\ DOMAIN hits = 1..2
    BY <1>3, IDsAreNumbers DEF Men
  <2> QED
    BY <2>1
<1> QED
    BY <1>1, <1>2, <1>3 DEF Hits

\* The points of a path are a list of numbers, one more than there are hits.
LEMMA PathIs ==
    ASSUME NEW c, Sent(c)
    PROVE  Trajectory(c) \in Seq(Int)
<1>1. PICK n \in Nat, s \in Nat : Len(c.hits) = n /\ c.size = s
  <2>1. c.hits \in Hits /\ c.size \in Nat
    BY SizesAreNumbers DEF Sent
  <2>2. c.hits \in Seq(Nat)
    BY <2>1, HitsAre
  <2> QED
    BY <2>1, <2>2
<1>2. [i \in 1..(n + 1) |-> s + i] \in Seq(Int)
    OBVIOUS
<1> QED
    BY <1>1, <1>2 DEF Trajectory

-----------------------------------------------------------------------------
(* The conversions *)

\* What a field says of the number or text it was read from: nothing of a number the
\* conversion has no room for, except its low 16 bits.
Stands(as, x, v) ==
    IF v = -1 THEN x = None
    ELSE /\ v \in Nat
         /\ as \in To16Bits => x = U16(v)
         /\ as \notin To16Bits /\ v \in Capacity(as) => x = v

\* The conversions for the ways an argument is written.
LEMMA ReadersAre ==
    ASSUME NEW name, NEW as \in Readers(name)
    PROVE  \/ as \in {"Bool", "LaxBool"} /\ Form(name) = "bool" /\ name \notin Nobodies
           \/ as \in {"Pos", "BracketedPos"} /\ Form(name) = "pos" /\ name \notin Nobodies
           \/ as = "HitParts" /\ name = "hitParts" /\ Form(name) = "json"
           \/ as \in {"Array", "Nested"} /\ Form(name) = "json" /\ name \notin Nobodies
           \/ as \in ForObjects /\ Form(name) = format
           \/ as \in ForNumbers /\ Form(name) = format /\ name \notin Nobodies
           \/ /\ as = "Scores" /\ name \notin Nobodies
              /\ Form(name) = IF format = "int" THEN "scores" ELSE "floatscores"
           \/ as = "Text" /\ name \notin Nobodies
<1> USE DEF Readers, Form, Bools, Positions, Jsons, Numeric, Nobodies
<1>1. CASE name \in Bools
    BY <1>1
<1>2. CASE name \in Positions
    BY <1>2
<1>3. CASE name \in Jsons
    BY <1>3
<1>4. CASE name \in Numeric
    BY <1>4
<1>5. CASE name = "scores"
    BY <1>5
<1>6. CASE name \notin Bools \union Positions \union Jsons \union Numeric \union {"scores"}
    BY <1>6
<1> QED
    BY <1>1, <1>2, <1>3, <1>4, <1>5, <1>6

\* The low 16 bits of a number (Go's conversion to uint16).
LEMMA LowBits == ASSUME NEW n \in Int PROVE U16(n) \in Nat
    BY DEF U16

\* The smaller types, and the names of the chat channels, keep the numbers they have
\* room for.
LEMMA SmallTypes ==
    ASSUME NEW n \in Nat
    PROVE  /\ U8(n) \in Int /\ (n \in UInt8 => U8(n) = n)
           /\ S8(n) \in Int /\ (n \in Int8 => S8(n) = n)
           /\ ChannelName(n) \in Int /\ (n \in ChatChannels => ChannelName(n) = n)
<1>1. U8(n) \in Int /\ (n \in UInt8 => U8(n) = n)
    BY DEF U8, UInt8
<1>2. S8(n) \in Int /\ (n \in Int8 => S8(n) = n)
    BY DEF S8, Int8
<1>3. ChannelName(n) \in Int /\ (n \in ChatChannels => ChannelName(n) = n)
    BY DEF ChannelName, ChatChannels
<1> QED
    BY <1>1, <1>2, <1>3

\* A number is understood by every conversion for numbers, and survives it when there
\* is room for it; those that use Atoi need it written as an integer.
LEMMA NumbersAreRead ==
    ASSUME NEW a, a.v \in Nat, a.form \in {"int", "float"}, NEW as \in ForNumbers
    PROVE  /\ Convert(as, a) # Error
           /\ as = "Uint16" => Convert(as, a) = U16(a.v)
           /\ a.form = "int" \/ as \notin ForIntegers => Stands(as, Convert(as, a), a.v)
<1>1. a.v # Error /\ a.v # Default /\ a.v # -1 /\ a.v >= 0 /\ Default # Error
    BY DistinctOutcomes
<1>2. /\ U16(a.v) \in Int /\ U16(a.v) # Error /\ U8(a.v) # Error
      /\ S8(a.v) # Error /\ ChannelName(a.v) # Error
  <2>1. U16(a.v) \in Int
    BY LowBits
  <2>2. U8(a.v) \in Int /\ S8(a.v) \in Int /\ ChannelName(a.v) \in Int
    BY SmallTypes
  <2>3. Error \notin Int
    BY DistinctOutcomes
  <2> QED
    BY <2>1, <2>2, <2>3
<1>3. /\ ParseFloat(a) = a.v /\ parseUintFromFloat(a) = a.v /\ parseIntFromFloat(a) = a.v
      /\ parseRadioChannel(a) = a.v /\ Frequency(a) = a.v
    BY <1>1 DEF ParseFloat, parseUintFromFloat, parseIntFromFloat, parseRadioChannel,
        Frequency, Numbers
<1>4. /\ Uint16(a) = U16(a.v) /\ Lax(ParseFloat(a)) = a.v
      /\ RadioChannel(a) = S8(a.v) /\ ChatChannel(a) = ChannelName(a.v)
    BY <1>1, <1>3 DEF Uint16, Lax, RadioChannel, ChatChannel
<1>5. /\ a.form = "int" =>
            Atoi(a) = a.v /\ Bearing(a) = U16(a.v) /\ Lifestate(a) = U8(a.v)
      /\ a.form # "int" =>
            Atoi(a) = Default /\ Bearing(a) = Default /\ Lifestate(a) = Default
    BY <1>1 DEF Atoi, Bearing, Lifestate
<1>6. CASE as \in {"Atoi", "Bearing", "Lifestate"}
  <2>1. /\ as = "Atoi" => Convert(as, a) = Atoi(a)
        /\ as = "Bearing" => Convert(as, a) = Bearing(a)
        /\ as = "Lifestate" => Convert(as, a) = Lifestate(a)
    BY DEF Convert
  <2>2. Convert(as, a) # Error
    BY <1>1, <1>2, <1>5, <1>6, <2>1
  <2>3. as \in ForIntegers /\ as # "Uint16"
    BY <1>6 DEF ForIntegers
  <2>4. a.form = "int" => Stands(as, Convert(as, a), a.v)
    BY <1>1, <1>5, <1>6, <2>1, SmallTypes DEF Stands, To16Bits, Capacity
  <2> QED
    BY <2>2, <2>3, <2>4
<1>7. CASE as \in {"Uint16", "ChatChannel", "RadioChannel"}
  <2>1. /\ as = "Uint16" => Convert(as, a) = U16(a.v)
        /\ as = "ChatChannel" => Convert(as, a) = ChannelName(a.v)
        /\ as = "RadioChannel" => Convert(as, a) = S8(a.v)
    BY <1>4 DEF Convert
  <2>2. Stands(as, Convert(as, a), a.v)
    BY <1>1, <1>7, <2>1, SmallTypes DEF Stands, To16Bits, Capacity
  <2> QED
    BY <1>2, <1>7, <2>1, <2>2
<1>8. CASE as \in {"Float", "LaxFloat", "Uint", "Frequency"}
  <2>1. Convert(as, a) = a.v
    BY <1>3, <1>4, <1>8 DEF Convert
  <2>2. Stands(as, Convert(as, a), a.v)
    BY <1>1, <1>8, <2>1 DEF Stands, To16Bits
  <2> QED
    BY <1>1, <1>8, <2>1, <2>2
<1> QED
    BY <1>6, <1>7, <1>8 DEF ForNumbers

\* A reference may also be nobody's.
LEMMA ReferencesAreRead ==
    ASSUME NEW a, a.v \in Nat \union {-1}, a.form \in {"int", "float"}, NEW as \in ForObjects
    PROVE  /\ Convert(as, a) # Error
           /\ a.form = "int" \/ as \notin ForIntegers => Stands(as, Convert(as, a), a.v)
<1>1. a.v \in Int /\ a.v # Error /\ a.v # None /\ None # Error
    BY DistinctOutcomes
<1>2. /\ U16(a.v) \in Int /\ U16(a.v) # Error
      /\ U16(0) \in Int /\ U16(0) # Error
    BY <1>1, LowBits, DistinctOutcomes
<1>3. parseIntFromFloat(a) = a.v
    BY DEF parseIntFromFloat
<1>4. Optional(a) = IF a.v = -1 THEN None ELSE a.v
    BY <1>1, <1>3 DEF Optional
<1>5. Optional16(a) = IF a.v = -1 THEN None ELSE U16(a.v)
    BY <1>1, <1>4 DEF Optional16
<1>6. Seat(a) = IF a.form # "int" THEN U16(0) ELSE IF a.v = -1 THEN None ELSE U16(a.v)
    BY DEF Seat
<1>7. /\ as = "Optional" => Convert(as, a) = Optional(a)
      /\ as = "Optional16" => Convert(as, a) = Optional16(a)
      /\ as = "Seat" => Convert(as, a) = Seat(a)
    BY DEF Convert
<1>8. Convert(as, a) # Error
    BY <1>1, <1>2, <1>4, <1>5, <1>6, <1>7 DEF ForObjects
<1>9. a.form = "int" \/ as \notin ForIntegers => Stands(as, Convert(as, a), a.v)
    BY <1>4, <1>5, <1>6, <1>7 DEF ForObjects, ForIntegers, Stands, To16Bits
<1> QED
    BY <1>8, <1>9

\* An argument written as its name says is understood, and what is made of it
\* stands for it, except that some conversions need the integer format.
LEMMA ConvertStands ==
    ASSUME NEW a, NEW name, NEW as \in Readers(name), a.form = Form(name),
           format \in {"int", "float"}, name # "hitParts",
           a.v \in Nat \union {-1}, a.v = -1 => name \in Nobodies
    PROVE  /\ Convert(as, a) # Error
           /\ as = "Uint16" => Convert(as, a) = U16(a.v)
           /\ format = "int" \/ as \notin ForIntegers => Stands(as, Convert(as, a), a.v)
<1>1. a.v \in Int /\ a.v # Error /\ Default # Error
    BY DistinctOutcomes
<1>2. CASE as \in {"Bool", "LaxBool"} /\ Form(name) = "bool" /\ name \notin Nobodies
  <2>1. ParseBool(a) = a.v /\ Lax(ParseBool(a)) = a.v
    BY <1>1, <1>2 DEF ParseBool, Lax
  <2>2. Convert(as, a) = a.v
    BY <1>2, <2>1 DEF Convert
  <2> QED
    BY <1>1, <1>2, <2>2 DEF Stands, To16Bits
<1>3. CASE as \in {"Pos", "BracketedPos"} /\ Form(name) = "pos" /\ name \notin Nobodies
  <2>1. Convert(as, a) = a.v
    BY <1>3 DEF Convert, Position3DFromString
  <2> QED
    BY <1>1, <1>3, <2>1 DEF Stands, To16Bits
<1>4. CASE as \in {"Array", "Nested"} /\ Form(name) = "json" /\ name \notin Nobodies
  <2>1. Convert(as, a) = a.v
    BY <1>4 DEF Convert, Unmarshal
  <2> QED
    BY <1>1, <1>4, <2>1 DEF Stands, To16Bits
<1>5. CASE as \in ForObjects /\ Form(name) = format
  <2>1. /\ Convert(as, a) # Error
        /\ a.form = "int" \/ as \notin ForIntegers => Stands(as, Convert(as, a), a.v)
    BY <1>5, ReferencesAreRead
  <2> QED
    BY <1>5, <2>1 DEF ForObjects
<1>6. CASE as \in ForNumbers /\ Form(name) = format /\ name \notin Nobodies
    BY <1>6, NumbersAreRead
<1>7. CASE /\ as = "Scores" /\ name \notin Nobodies
           /\ Form(name) = IF format = "int" THEN "scores" ELSE "floatscores"
  <2>1. Convert(as, a) = IF format = "int" THEN U8(a.v) ELSE Default
    BY <1>7 DEF Convert, Scores
  <2>2. a.v \in Nat
    BY <1>7
  <2>3. U8(a.v) # Error
    BY <2>2, SmallTypes, DistinctOutcomes
  <2>4. Stands(as, U8(a.v), a.v)
    BY <1>7, <2>2, SmallTypes DEF Stands, To16Bits, Capacity
  <2>5. as \in ForIntegers
    BY <1>7 DEF ForIntegers
  <2> QED
    BY <1>1, <1>7, <2>1, <2>3, <2>4, <2>5
<1>8. CASE as = "Text" /\ name \notin Nobodies
  <2>1. Convert(as, a) = a.v
    BY <1>8 DEF Convert
  <2> QED
    BY <1>1, <1>8, <2>1 DEF Stands, To16Bits
<1> QED
    BY <1>2, <1>3, <1>4, <1>5, <1>6, <1>7, <1>8, ReadersAre

\* The list of a projectile's hits is read whole, each ID with its low bits.
LEMMA HitPartsAreRead ==
    ASSUME NEW a, a.form = Form("hitParts"), a.v \in Seq(Nat), NEW as \in Readers("hitParts")
    PROVE  /\ as = "HitParts" /\ Convert(as, a) # Error
           /\ Convert(as, a) = [i \in DOMAIN a.v |-> U16(a.v[i])]
<1>1. as = "HitParts" /\ a.form = "json"
    BY DEF Readers, Form, Bools, Positions, Jsons, Nobodies, Numeric
<1>2. Convert(as, a) = [i \in DOMAIN a.v |-> U16(a.v[i])]
    BY <1>1 DEF Convert, HitParts
<1>3. \A i \in DOMAIN a.v : U16(a.v[i]) \in Int
    BY LowBits
<1>4. [i \in DOMAIN a.v |-> U16(a.v[i])] \in Seq(Int)
    BY <1>3
<1> QED
    BY <1>1, <1>2, <1>4, DistinctOutcomes

\* So are the points of its path.
LEMMA PathIsRead ==
    ASSUME NEW a, a.form = Form("positions"), a.v \in Seq(Int), NEW as \in Readers("positions")
    PROVE  as # "Uint16" /\ Convert(as, a) # Error /\ Convert(as, a) = a.v
<1>1. as \in {"Array", "Nested"} /\ a.form = "json"
    BY DEF Readers, Form, Bools, Positions, Jsons, Nobodies, Numeric
<1>2. Convert(as, a) = a.v
    BY <1>1 DEF Convert, Unmarshal
<1>3. as # "Uint16"
    BY <1>1
<1>4. a.v # Error
    BY Zenon, DistinctOutcomes
<1> QED
    BY <1>2, <1>3, <1>4

-----------------------------------------------------------------------------
(* The fields *)

\* What a field that is read becomes; most are read of everybody.
LEMMA ParseReturns ==
    ASSUME NEW fn, NEW args, NEW f \in DOMAIN fn.reads
    PROVE  LET r == fn.reads[f]
           IN  /\ DOMAIN Parse(fn, args) = DOMAIN fn.reads
               /\ Parse(fn, args)[f] = IF Len(args) < r.from THEN None
                                       ELSE IF Skipped(r, args) THEN Default
                                       ELSE Convert(r.as, args[r.at + 1])
               /\ r.asked = Always => ~Skipped(r, args)
<1> DEFINE Field(r) == IF Len(args) < r.from THEN None
                       ELSE IF Skipped(r, args) THEN Default
                       ELSE Convert(r.as, args[r.at + 1])
<1>1. Parse(fn, args) = [g \in DOMAIN fn.reads |-> Field(fn.reads[g])]
    BY DEF Parse
<1>2. fn.reads[f].asked = Always => ~Skipped(fn.reads[f], args)
    BY DEF Skipped
<1> QED
    BY <1>1, <1>2

\* A field whose argument is not flawed, and not skipped, stands for it.
LEMMA FieldStands ==
    ASSUME NEW c, Sent(c), format \in {"int", "float"},
           NEW f \in DOMAIN Commands[c.cmd].parse.reads
    PROVE  LET r == Commands[c.cmd].parse.reads[f]
               k == r.at + 1
               name == Commands[c.cmd].args[k]
           IN  /\ r.from <= k \/ c.flaw.as # "cut"
               /\ ~Flawed(c, k) /\ ~Skipped(r, Args(c))
               =>
                 /\ Parsed(c)[f] # Error
                 /\ r.as = "Uint16" => Parsed(c)[f] = U16(ValueAt(c, k))
                 /\ name = "hitParts" =>
                       Parsed(c)[f] = [i \in DOMAIN c.hits |-> U16(c.hits[i])]
                 /\ name = "positions" => Parsed(c)[f] = Trajectory(c)
                 /\ /\ name \notin {"hitParts", "positions"}
                    /\ format = "int" \/ r.as \notin ForIntegers
                    => Stands(r.as, Parsed(c)[f], ValueAt(c, k))
<1> DEFINE of == Commands[c.cmd]
           r == of.parse.reads[f]
           k == r.at + 1
           name == of.args[k]
           a == Args(c)[k]
<1> SUFFICES ASSUME r.from <= k \/ c.flaw.as # "cut", ~Flawed(c, k), ~Skipped(r, Args(c))
             PROVE  /\ Parsed(c)[f] # Error
                    /\ r.as = "Uint16" => Parsed(c)[f] = U16(ValueAt(c, k))
                    /\ name = "hitParts" =>
                          Parsed(c)[f] = [i \in DOMAIN c.hits |-> U16(c.hits[i])]
                    /\ name = "positions" => Parsed(c)[f] = Trajectory(c)
                    /\ /\ name \notin {"hitParts", "positions"}
                       /\ format = "int" \/ r.as \notin ForIntegers
                       => Stands(r.as, Parsed(c)[f], ValueAt(c, k))
    OBVIOUS
<1>1. ReadsSuit(of)
    BY TheReads DEF Sent
<1>2. /\ Len(of.args) \in Nat /\ k \in 1..Len(of.args) /\ r.from \in 0..Len(of.args)
      /\ r.as \in Readers(name)
    BY <1>1 DEF ReadsSuit
<1>3. /\ Len(Args(c)) \in Nat /\ k <= Len(Args(c))
      /\ c.flaw.as # "cut" => Len(Args(c)) = Len(of.args)
      /\ a.v = ValueAt(c, k) /\ a.form = Form(name)
  <2>a. ~Flawed(c, k)
    OBVIOUS
  <2> HIDE DEF of, r, k, name, a
  <2>1. PICK j \in Nat \ {0} : j = k /\ j <= Len(of.args)
    BY <1>2
  <2>2. ~Flawed(c, j)
    BY <2>1, <2>a
  <2>3. /\ Len(Args(c)) \in Nat /\ j <= Len(Args(c))
        /\ c.flaw.as # "cut" => Len(Args(c)) = Len(of.args)
        /\ Args(c)[j].v = ValueAt(c, j) /\ Args(c)[j].form = Form(of.args[j])
    BY <2>1, <2>2, ArgumentIs DEF of
  <2> QED
    BY <2>1, <2>3 DEF a, name
<1>4. Parsed(c)[f] = IF Len(Args(c)) < r.from THEN None
                     ELSE IF Skipped(r, Args(c)) THEN Default ELSE Convert(r.as, a)
    BY ParseReturns DEF Parsed
<1>5. ~(Len(Args(c)) < r.from)
  <2>a. r.from <= k \/ c.flaw.as # "cut"
    OBVIOUS
  <2> HIDE DEF of, r, k, name, a
  <2>1. PICK n \in Nat : n = Len(Args(c)) /\ k <= n
    BY <1>3
  <2>2. PICK j \in Nat, m \in Nat : j = k /\ m = r.from /\ m <= Len(of.args)
    BY <1>2
  <2>3. CASE c.flaw.as = "cut"
    <3>1. m <= j /\ j <= n
      BY <2>1, <2>2, <2>3, <2>a
    <3> QED
      BY <2>1, <2>2, <3>1
  <2>4. CASE c.flaw.as # "cut"
    <3>1. m <= n
      BY <1>3, <2>1, <2>2, <2>4
    <3> QED
      BY <2>1, <2>2, <3>1
  <2> QED
    BY <2>3, <2>4
<1>6. Parsed(c)[f] = Convert(r.as, a)
    BY <1>4, <1>5
<1>7. /\ name = "hitParts" => ValueAt(c, k) = c.hits
      /\ name = "positions" => ValueAt(c, k) = Trajectory(c)
      /\ name \notin {"hitParts", "positions"} =>
            /\ ValueAt(c, k) \in Nat \union {-1}
            /\ ValueAt(c, k) = -1 => name \in Nobodies
    BY <1>2, ValuesAre
<1>8. c.hits \in Seq(Nat) /\ Trajectory(c) \in Seq(Int)
    BY HitsAre, PathIs DEF Sent
<1> HIDE DEF of, r, k, name, a
<1>9. CASE name = "hitParts"
    BY <1>2, <1>3, <1>6, <1>7, <1>8, <1>9, HitPartsAreRead
<1>10. CASE name = "positions"
  <2>1. r.as # "Uint16" /\ Convert(r.as, a) # Error /\ Convert(r.as, a) = a.v
    BY <1>2, <1>3, <1>7, <1>8, <1>10, PathIsRead
  <2> QED
    BY <1>3, <1>6, <1>7, <1>10, <2>1
<1>11. CASE name \notin {"hitParts", "positions"}
    BY <1>2, <1>3, <1>6, <1>7, <1>11, ConvertStands
<1> QED
    BY <1>9, <1>10, <1>11

\* The scores of a soldier state are read of players only.
LEMMA ScoresAreOfPlayers ==
    ASSUME NEW c, Sent(c), c.cmd = ":SOLDIER:STATE:", Understood(c)
    PROVE  IF c.self \in Players
           THEN ~Skipped(Commands[c.cmd].parse.reads["scores"], Args(c))
           ELSE Parsed(c)["scores"] = Default
<1> DEFINE of == Commands[c.cmd]
           r == of.parse.reads["scores"]
           a == Args(c)[7]
<1>1. of = SOLDIER_STATE
    BY TheCommands
<1>2. /\ of.args[7] = "isPlayer" /\ 7 \in 1..Len(of.args) /\ of.parse.needs = 15
      /\ {"scores", "isPlayer"} \subseteq DOMAIN of.parse.reads
      /\ r.asked = 6 /\ r.from = 0
    BY <1>1 DEF SOLDIER_STATE, Does, ParseSoldierState, IfTrue
<1>3. LET p == of.parse.reads["isPlayer"]
      IN  p.asked = Always /\ p.from = 0 /\ p.at = 6 /\ p.as = "Bool"
    BY <1>1 DEF SOLDIER_STATE, Does, ParseSoldierState, At
<1>4. 15 <= Len(Args(c)) /\ Parsed(c)["isPlayer"] # Error
    BY <1>2 DEF Understood, Parses, Parsed
<1>5. Len(Args(c)) \in Nat /\ a.v = ValueAt(c, 7)
    BY <1>2, <1>4, ArgumentIs
<1>6. ValueAt(c, 7) = IF c.self \in Players THEN 1 ELSE 0
  <2>1. of.self # "isPlayer" /\ of.other # "isPlayer"
    BY TheIDs DEF Sent, IDsFit
  <2> HIDE DEF of
  <2> QED
    BY <1>2, <2>1 DEF ValueAt, of
<1>7. ParseBool(a) # Error
  <2>1. Parsed(c)["isPlayer"] = Convert("Bool", a)
    BY <1>2, <1>3, <1>5, ParseReturns DEF Parsed
  <2> QED
    BY <1>4, <2>1 DEF Convert
<1>8. ParseBool(a) = IF c.self \in Players THEN 1 ELSE 0
    BY <1>5, <1>6, <1>7 DEF ParseBool
<1>9. Skipped(r, Args(c)) <=> c.self \notin Players
    BY <1>2, <1>8 DEF Skipped, Always
<1>10. Skipped(r, Args(c)) => Parsed(c)["scores"] = Default
    BY <1>2, <1>5, ParseReturns DEF Parsed
<1> QED
    BY <1>9, <1>10

\* The sender of a message is the one the game names, or nobody.
LEMMA SenderIsRead ==
    ASSUME NEW c, Sent(c), c.cmd \in {":EVENT:CHAT:", ":EVENT:RADIO:"}, Understood(c)
    PROVE  \/ Parsed(c).soldierID = None
           \/ Parsed(c).soldierID = c.self /\ c.self \in Men
<1> DEFINE of == Commands[c.cmd]
           a == Args(c)[2]
           x == Parsed(c).soldierID
<1>1. of = EVENT_CHAT \/ of = EVENT_RADIO
    BY TheCommands
<1>2. /\ of.args[2] = "senderOcapId" /\ of.self = "senderOcapId" /\ of.other = "none"
      /\ of.selves = Men \union {-1} /\ of.parse.needs >= 2
    BY <1>1 DEF EVENT_CHAT, EVENT_RADIO, Alone, Does, ParseChatEvent, ParseRadioEvent
<1>3. LET r == of.parse.reads["soldierID"]
      IN  "soldierID" \in DOMAIN of.parse.reads /\ r.at = 1 /\ r.as = "Optional" /\ r.from = 0
          /\ r.asked = Always
    BY <1>1 DEF EVENT_CHAT, EVENT_RADIO, Alone, Does, ParseChatEvent, ParseRadioEvent, At
<1>4. of.parse.needs <= Len(Args(c)) /\ x # Error
    BY <1>3 DEF Understood, Parses, Parsed
<1>5. Len(Args(c)) \in Nat /\ of.parse.needs \in Nat
    BY ArgumentIs, TheReads DEF Sent, ReadsSuit
<1>6. a.v = ValueAt(c, 2)
  <2>1. 2 <= Len(Args(c))
    BY <1>2, <1>4, <1>5
  <2> QED
    BY <2>1, ArgumentIs
<1>7. a.v = c.self /\ c.self \in Men \union {-1}
    BY <1>2, <1>6 DEF ValueAt, Sent
<1>8. x = Optional(a)
  <2>1. x = Convert("Optional", a)
    BY <1>3, <1>5, ParseReturns DEF Parsed
  <2> QED
    BY <2>1 DEF Convert
<1> HIDE DEF a, x
<1>9. parseIntFromFloat(a) \in {Error, c.self}
    BY <1>7 DEF parseIntFromFloat
<1> DEFINE some == c.self > -1
<1>10. x = IF some THEN c.self ELSE None
    BY <1>4, <1>8, <1>9 DEF Optional
<1>11. c.self = -1 => ~some
    OBVIOUS
<1> HIDE DEF some
<1> QED
    BY <1>7, <1>10, <1>11 DEF x

\* The objects a projectile hit are a list.
LEMMA HitsAreRead ==
    ASSUME NEW c, Sent(c), c.cmd = ":EVENT:PROJECTILE:", Understood(c)
    PROVE  \E n \in Nat : DOMAIN Parsed(c).hitParts = 1..n
<1> DEFINE of == Commands[c.cmd]
           a == Args(c)[17]
<1>1. of = EVENT_PROJECTILE
    BY TheCommands
<1>2. of.args[17] = "hitParts" /\ of.parse.needs = 20 /\ 17 \in 1..Len(of.args)
    BY <1>1 DEF EVENT_PROJECTILE, Does, ParseProjectileEvent
<1>3. LET r == of.parse.reads["hitParts"]
      IN  "hitParts" \in DOMAIN of.parse.reads /\ r.at = 16 /\ r.as = "HitParts" /\ r.from = 0
          /\ r.asked = Always
    BY <1>1 DEF EVENT_PROJECTILE, Does, ParseProjectileEvent, At
<1>4. 20 <= Len(Args(c)) /\ Len(Args(c)) \in Nat
    BY <1>2, ArgumentIs DEF Understood, Parses
<1>5. a.v = c.hits
  <2>1. a.v = ValueAt(c, 17)
    BY <1>4, ArgumentIs
  <2> QED
    BY <1>2, <2>1, ValuesAre
<1>6. Parsed(c).hitParts = HitParts(a)
  <2>1. Parsed(c).hitParts = Convert("HitParts", a)
    BY <1>3, <1>4, ParseReturns DEF Parsed
  <2> QED
    BY <2>1 DEF Convert
<1>7. \E n \in Nat : DOMAIN c.hits = 1..n
    BY HitsAre DEF Sent
<1>8. DOMAIN << >> = 1..0
    OBVIOUS
<1> HIDE DEF a
<1>9. CASE a.form = "json"
    BY <1>5, <1>6, <1>7, <1>9 DEF HitParts
<1>10. CASE a.form # "json"
    BY <1>6, <1>8, <1>10 DEF HitParts
<1> QED
    BY <1>9, <1>10

-----------------------------------------------------------------------------
(* Short sequences *)

LEMMA ItemByItem ==
    ASSUME NEW T, NEW w \in Seq(T), NEW n, Len(w) = n
    PROVE  w = [k \in 1..n |-> w[k]]
<1>1. DOMAIN w = 1..n /\ w = [k \in DOMAIN w |-> w[k]]
    OBVIOUS
<1> QED
    BY <1>1

LEMMA Joined ==
    ASSUME NEW S, NEW x \in Seq(S), NEW y \in Seq(S)
    PROVE  /\ x \o y \in Seq(S) /\ Len(x \o y) = Len(x) + Len(y)
           /\ \A k \in 1..(Len(x) + Len(y)) :
                 (x \o y)[k] = IF k <= Len(x) THEN x[k] ELSE y[k - Len(x)]
    OBVIOUS

\* Lists of one and of two.
LEMMA OneAndAnother ==
    ASSUME NEW a, NEW b
    PROVE  << a >> \o << >> = << a >> /\ << a >> \o << b >> = << a, b >>
<1> DEFINE S == {a, b}
           x == << a >>
           y == << b >>
           z == << a, b >>
           e == << >>
<1>1. /\ x \in Seq(S) /\ Len(x) = 1 /\ x[1] = a
      /\ y \in Seq(S) /\ Len(y) = 1 /\ y[1] = b
      /\ z \in Seq(S) /\ Len(z) = 2 /\ z[1] = a /\ z[2] = b
      /\ e \in Seq(S) /\ Len(e) = 0
    OBVIOUS
<1> HIDE DEF S, x, y, z, e
<1>2. x \o e \in Seq(S) /\ Len(x \o e) = 1 /\ (x \o e)[1] = x[1]
    BY <1>1, Joined
<1>3. /\ x \o y \in Seq(S) /\ Len(x \o y) = 2
      /\ (x \o y)[1] = x[1] /\ (x \o y)[2] = y[1]
    BY <1>1, Joined
<1>4. /\ x = [k \in 1..1 |-> x[k]] /\ x \o e = [k \in 1..1 |-> (x \o e)[k]]
      /\ z = [k \in 1..2 |-> z[k]] /\ x \o y = [k \in 1..2 |-> (x \o y)[k]]
  <2>1. x = [k \in 1..1 |-> x[k]]
    BY <1>1, ItemByItem, Zenon
  <2>2. x \o e = [k \in 1..1 |-> (x \o e)[k]]
    BY <1>2, ItemByItem, Zenon
  <2>3. z = [k \in 1..2 |-> z[k]]
    BY <1>1, ItemByItem, Zenon
  <2>4. x \o y = [k \in 1..2 |-> (x \o y)[k]]
    BY <1>3, ItemByItem, Zenon
  <2> QED
    BY <2>1, <2>2, <2>3, <2>4, Zenon
<1>5. \A k \in 1..1 : (x \o e)[k] = x[k]
    BY <1>2
<1>6. \A k \in 1..2 : (x \o y)[k] = z[k]
  <2>1. \A k \in 1..2 : k = 1 \/ k = 2
    OBVIOUS
  <2> QED
    BY <1>1, <1>3, <2>1
<1>7. x \o e = x
    BY <1>4, <1>5
<1>8. x \o y = z
    BY <1>4, <1>6
<1> QED
    BY <1>7, <1>8 DEF x, y, z, e

-----------------------------------------------------------------------------
(* The lookups of a handler *)

Steps(ls) == {ls[i] : i \in DOMAIN ls}

\* A list of lookups; those that find something out look for a soldier or vehicle.
Orderly(ls) ==
    /\ ls \in Seq(Steps(ls))
    /\ \A l \in Steps(ls) : l.as # "none" => l.kinds = {"soldier", "vehicle"}

\* Lookups that find something out look for a soldier or a vehicle: none, one or two of them.
LEMMA NoLookup == Orderly(<< >>)
    BY DEF Orderly, Steps

LEMMA OneLookup ==
    ASSUME NEW l, l.as # "none" => l.kinds = {"soldier", "vehicle"}
    PROVE  Orderly(<< l >>)
<1>1. Steps(<< l >>) = {l}
    BY DEF Steps
<1>2. << l >> \in Seq({l})
    OBVIOUS
<1> QED
    BY <1>1, <1>2 DEF Orderly

LEMMA TwoLookups ==
    ASSUME NEW l, l.as # "none" => l.kinds = {"soldier", "vehicle"},
           NEW m, m.as # "none" => m.kinds = {"soldier", "vehicle"}
    PROVE  Orderly(<< l, m >>)
<1>1. Steps(<< l, m >>) = {l, m}
    BY DEF Steps
<1>2. << l, m >> \in Seq({l, m})
    OBVIOUS
<1> QED
    BY <1>1, <1>2 DEF Orderly

\* The two forms of a lookup: one that must succeed ...
LEMMA MustIs ==
    ASSUME NEW kinds, NEW id
    PROVE  LET l == Must(kinds, id)
           IN  l.as = "none" /\ l.must /\ l.kinds = kinds /\ l.id = id
    BY DEF Must

\* ... and one that tries soldiers, then vehicles (classifyEntity).
LEMMA ClassifyIs ==
    ASSUME NEW as, NEW id
    PROVE  Classify(as, id).kinds = {"soldier", "vehicle"} /\ ~Classify(as, id).must
    BY DEF Classify

LEMMA MustAlone ==
    ASSUME NEW kinds, NEW id
    PROVE  Orderly(<< Must(kinds, id) >>)
<1>1. Must(kinds, id).as = "none"
    BY MustIs
<1> QED
    BY <1>1, OneLookup

\* The lookups of every command are in order.
LEMMA LookupsAreOrderly ==
    ASSUME NEW c, Sent(c), Understood(c)
    PROVE  Orderly(Lookups(c.cmd, Parsed(c)))
<1> DEFINE e == Parsed(c)
           ls == Lookups(c.cmd, e)
<1> SUFFICES Orderly(ls)
    OBVIOUS
<1>1. CASE c.cmd \in {":SOLDIER:STATE:", ":VEHICLE:STATE:", ":PLACED:EVENT:",
                      ":MARKER:STATE:", ":MARKER:DELETE:", ":ACE3:UNCONSCIOUS:"}
  <2>1. \E kinds, id : ls = << Must(kinds, id) >>
    BY <1>1 DEF Lookups
  <2> HIDE DEF ls
  <2> QED
    BY <2>1, MustAlone
<1>2. CASE c.cmd = ":EVENT:KILL:"
  <2> DEFINE victim == Classify("victim", e.victimID)
             killer == Classify("killer", e.killerID)
  <2>1. ls = << victim, killer >>
    BY <1>2 DEF Lookups
  <2>2. victim.kinds = {"soldier", "vehicle"} /\ killer.kinds = {"soldier", "vehicle"}
    BY ClassifyIs
  <2> HIDE DEF ls, victim, killer
  <2> QED
    BY <2>1, <2>2, TwoLookups
<1>3. CASE c.cmd = ":EVENT:PROJECTILE:"
  <2>1. PICK n \in Nat : DOMAIN e.hitParts = 1..n
    BY <1>3, HitsAreRead
  <2>2. ls = [i \in 1..n |-> Classify("hit", e.hitParts[i])]
    BY <1>3, <2>1 DEF Lookups
  <2>3. Steps(ls) = {Classify("hit", e.hitParts[i]) : i \in 1..n}
    BY <2>2 DEF Steps
  <2> DEFINE S == {Classify("hit", e.hitParts[i]) : i \in 1..n}
  <2>4. \A i \in 1..n : Classify("hit", e.hitParts[i]) \in S
    OBVIOUS
  <2>5. \A l \in S : l.kinds = {"soldier", "vehicle"}
    <3> SUFFICES ASSUME NEW i \in 1..n
                 PROVE  Classify("hit", e.hitParts[i]).kinds = {"soldier", "vehicle"}
      OBVIOUS
    <3> QED
      BY ClassifyIs
  <2>a. Steps(ls) = S
    BY <2>3
  <2> HIDE DEF S
  <2>6. ls \in Seq(S)
    BY <2>2, <2>4
  <2> HIDE DEF ls
  <2> QED
    BY <2>a, <2>5, <2>6 DEF Orderly
<1>4. CASE c.cmd \in {":EVENT:CHAT:", ":EVENT:RADIO:"}
  <2>1. ls = MustIfSet({"soldier"}, e.soldierID)
    BY <1>4 DEF Lookups
  <2>2. ls = << >> \/ \E kinds, id : ls = << Must(kinds, id) >>
    BY <2>1 DEF MustIfSet
  <2> HIDE DEF ls
  <2> QED
    BY <2>2, NoLookup, MustAlone
<1>5. CASE c.cmd = ":ACE3:DEATH:"
  <2> DEFINE first == Must({"soldier"}, U16(e.soldierID))
             other  == Must({"soldier", "vehicle"}, U16(e.lastDamageSourceID))
  <2>1. ls = << first >> \o MustIfSet({"soldier", "vehicle"}, e.lastDamageSourceID)
    BY <1>5 DEF Lookups
  <2>2. MustIfSet({"soldier", "vehicle"}, e.lastDamageSourceID) \in {<< >>, << other >>}
    BY DEF MustIfSet
  <2>3. first.as = "none" /\ other.as = "none"
    BY MustIs
  <2> HIDE DEF first, other, ls
  <2>4. << first >> \o << >> = << first >> /\ << first >> \o << other >> = << first, other >>
    BY OneAndAnother
  <2>5. ls = << first >> \/ ls = << first, other >>
    BY <2>1, <2>2, <2>4
  <2> QED
    BY <2>3, <2>5, OneLookup, TwoLookups
<1>6. CASE c.cmd \notin {":SOLDIER:STATE:", ":VEHICLE:STATE:", ":PLACED:EVENT:",
                      ":MARKER:STATE:", ":MARKER:DELETE:", ":ACE3:UNCONSCIOUS:",
                      ":EVENT:KILL:", ":EVENT:PROJECTILE:", ":EVENT:CHAT:",
                      ":EVENT:RADIO:", ":ACE3:DEATH:"}
    BY <1>6, NoLookup DEF Lookups
<1> QED
    BY <1>1, <1>2, <1>3, <1>4, <1>5, <1>6

-----------------------------------------------------------------------------
(* The rows *)

\* A field that is set by a function of its own ...
LEMMA GivenField ==
    ASSUME NEW core, NEW taken, NEW given, NEW f \in DOMAIN given
    PROVE  Fields(core, taken, given)[f] = given[f]
    BY DEF Fields

\* ... and one that is copied.
LEMMA TakenField ==
    ASSUME NEW core, NEW taken, NEW given, NEW f \in taken \ DOMAIN given
    PROVE  Fields(core, taken, given)[f] = core[f]
    BY DEF Fields

\* The columns of the rows that name the object they are about ...
LEMMA RowsOfStates ==
    ASSUME NEW e
    PROVE  /\ RowOf(":SOLDIER:STATE:", e).soldierObjectID = e.soldierID
           /\ RowOf(":VEHICLE:STATE:", e).vehicleObjectID = e.vehicleID
           /\ RowOf(":MARKER:STATE:", e).markerID = e.markerID
           /\ RowOf(":MARKER:DELETE:", e).markerID = e.markerID
           /\ RowOf(":PLACED:EVENT:", e).placedObjectID = e.placedID
    BY GivenField, TakenField DEF RowOf, CoreToSoldierState, CoreToVehicleState,
        CoreToMarkerState, Same, CoreToPlacedObjectEvent

\* ... and of those that name others.
LEMMA RowsOfEvents ==
    ASSUME NEW e
    PROVE  /\ RowOf(":EVENT:KILL:", e).victimSoldierObjectID = e.victimSoldierID
           /\ RowOf(":EVENT:KILL:", e).victimVehicleObjectID = e.victimVehicleID
           /\ RowOf(":EVENT:KILL:", e).killerSoldierObjectID = e.killerSoldierID
           /\ RowOf(":EVENT:KILL:", e).killerVehicleObjectID = e.killerVehicleID
           /\ RowOf(":EVENT:PROJECTILE:", e).hitSoldiers = e.hitSoldiers
           /\ RowOf(":EVENT:PROJECTILE:", e).hitVehicles = e.hitVehicles
           /\ RowOf(":EVENT:CHAT:", e).soldierObjectID = e.soldierID
           /\ RowOf(":EVENT:RADIO:", e).soldierObjectID = e.soldierID
           /\ RowOf(":ACE3:DEATH:", e).soldierObjectID = U16(e.soldierID)
           /\ RowOf(":ACE3:DEATH:", e).lastDamageSourceObjectID = e.lastDamageSourceID
           /\ RowOf(":ACE3:UNCONSCIOUS:", e).soldierObjectID = U16(e.soldierID)
    BY GivenField DEF RowOf, CoreToKillEvent, CoreToProjectileEvent, CoreToChatEvent,
        CoreToRadioEvent, CoreToAce3DeathEvent, CoreToAce3UnconsciousEvent

\* The handlers that add to the core struct.
LEMMA CompletedStruct ==
    ASSUME NEW e, NEW found
    PROVE  /\ Completed(":MARKER:STATE:", e, found).markerID = e.markerName
           /\ Completed(":MARKER:DELETE:", e, found).markerID = e.markerName
           /\ \A cmd \in {":VEHICLE:STATE:", ":PLACED:EVENT:", ":EVENT:CHAT:",
                          ":EVENT:RADIO:", ":ACE3:DEATH:", ":ACE3:UNCONSCIOUS:"} :
                 Completed(cmd, e, found) = e
           /\ "soldierID" \in DOMAIN e =>
                 Completed(":SOLDIER:STATE:", e, found).soldierID = e.soldierID
<1>1. /\ Completed(":MARKER:STATE:", e, found).markerID = e.markerName
      /\ Completed(":MARKER:DELETE:", e, found).markerID = e.markerName
    BY GivenField DEF Completed
<1>2. \A cmd \in {":VEHICLE:STATE:", ":PLACED:EVENT:", ":EVENT:CHAT:", ":EVENT:RADIO:",
                  ":ACE3:DEATH:", ":ACE3:UNCONSCIOUS:"} : Completed(cmd, e, found) = e
    BY DEF Completed
<1>3. ASSUME "soldierID" \in DOMAIN e
      PROVE  Completed(":SOLDIER:STATE:", e, found).soldierID = e.soldierID
  <2> DEFINE group == IF e.groupID = None THEN CreatedWith("groupId") ELSE e.groupID
             side  == IF e.side = None THEN CreatedWith("side") ELSE e.side
  <2>1. Completed(":SOLDIER:STATE:", e, found) = [e EXCEPT !.groupID = group, !.side = side]
    BY DEF Completed
  <2> HIDE DEF group, side
  <2>2. [e EXCEPT !.groupID = group, !.side = side]["soldierID"] = e["soldierID"]
    BY <1>3
  <2> QED
    BY <2>1, <2>2
<1> QED
    BY <1>1, <1>2, <1>3

\* A kill takes its victim and killer from what was found (handleKillEvent).
LEMMA CompletedKill ==
    ASSUME NEW e, NEW found
    PROVE  LET k == Completed(":EVENT:KILL:", e, found)
           IN  /\ k.victimSoldierID = FoundAs(found, "victim", "soldier")
               /\ k.victimVehicleID = FoundAs(found, "victim", "vehicle")
               /\ k.killerSoldierID = FoundAs(found, "killer", "soldier")
               /\ k.killerVehicleID = FoundAs(found, "killer", "vehicle")
    BY GivenField DEF Completed

\* A projectile takes its hits from what was found (handleProjectileEvent).
LEMMA CompletedProjectile ==
    ASSUME NEW e, NEW found
    PROVE  LET p == Completed(":EVENT:PROJECTILE:", e, found)
           IN  /\ p.hitSoldiers = {f.id : f \in {g \in found : g.kind = "soldier"}}
               /\ p.hitVehicles = {f.id : f \in {g \in found : g.kind = "vehicle"}}
    BY GivenField DEF Completed

-----------------------------------------------------------------------------
(* What a row refers to was looked up *)

\* A lookup has found one of the objects T.
IsFound(l, T) == \E kind \in l.kinds : << kind, l.id >> \in T

\* The lookups that must succeed have found some of them.
Found(ls, T) == \A l \in Steps(ls) : l.must => IsFound(l, T)

\* All the references of R are to objects of T, or to nobody.
Among(R, T) == \A ref \in R : ref.id = None \/ IsFound(ref, T)

\* An object that may be referred to.
Fine(kinds, id, T) == id = None \/ \E kind \in kinds : << kind, id >> \in T

\* A reference to an object that may be referred to.
LEMMA FineReference ==
    ASSUME NEW kinds, NEW id, NEW T, Fine(kinds, id, T)
    PROVE  Ref(kinds, id).id = None \/ IsFound(Ref(kinds, id), T)
<1>1. Ref(kinds, id).id = id /\ Ref(kinds, id).kinds = kinds
    BY DEF Ref
<1> QED
    BY <1>1 DEF Fine, IsFound

\* What a lookup had to find is known.
LEMMA MustFound ==
    ASSUME NEW kinds, NEW id, NEW ls, NEW T, Must(kinds, id) \in Steps(ls), Found(ls, T)
    PROVE  Fine(kinds, id, T)
<1> DEFINE l == Must(kinds, id)
<1>1. l.must /\ l.kinds = kinds /\ l.id = id
    BY MustIs
<1> HIDE DEF l
<1>2. IsFound(l, T)
    BY <1>1 DEF Found, l
<1> QED
    BY <1>1, <1>2 DEF IsFound, Fine

\* The lookups of a short list.
LEMMA StepsAre ==
    ASSUME NEW l, NEW m
    PROVE  Steps(<< >>) = {} /\ Steps(<< l >>) = {l} /\ Steps(<< l, m >>) = {l, m}
    BY DEF Steps

\* A lookup is the first one or among the rest.
LEMMA HeadAndTail ==
    ASSUME NEW S, NEW w \in Seq(S), w # << >>, NEW l \in Steps(w)
    PROVE  l = Head(w) \/ l \in Steps(Tail(w))
<1>1. PICK i \in 1..Len(w) : l = w[i]
    BY DEF Steps
<1>2. CASE i = 1
    BY <1>1, <1>2
<1>3. CASE i # 1
  <2>1. i - 1 \in 1..Len(Tail(w)) /\ Tail(w)[i - 1] = w[i] /\ Tail(w) \in Seq(S)
    BY <1>1, <1>3
  <2>2. DOMAIN Tail(w) = 1..Len(Tail(w))
    BY <2>1
  <2>3. Tail(w)[i - 1] \in Steps(Tail(w))
    <3> HIDE DEF Steps
    <3>1. \A v : \A j \in DOMAIN v : v[j] \in Steps(v)
      BY DEF Steps
    <3> QED
      BY <2>1, <2>2, <3>1
  <2> QED
    BY <1>1, <2>1, <2>3
<1> QED
    BY <1>2, <1>3

\* A soldier state names its soldier, group and side.
LEMMA SoldierStateHasSoldier ==
    ASSUME NEW c, c.cmd = ":SOLDIER:STATE:"
    PROVE  {"soldierID", "groupID", "side"} \subseteq DOMAIN Parsed(c)
<1>1. Commands[c.cmd] = SOLDIER_STATE
    BY TheCommands
<1>2. {"soldierID", "groupID", "side"} \subseteq DOMAIN SOLDIER_STATE.parse.reads
    BY DEF SOLDIER_STATE, Does, ParseSoldierState
<1>3. DOMAIN Parsed(c) = DOMAIN SOLDIER_STATE.parse.reads
    BY <1>1, <1>2, ParseReturns DEF Parsed
<1> QED
    BY <1>2, <1>3

\* A state, or another row of a command with one lookup.
LEMMA StatesRefer ==
    ASSUME NEW c, NEW e, NEW found, NEW T, e = Parsed(c),
           Found(Lookups(c.cmd, e), T),
           c.cmd \in {":SOLDIER:STATE:", ":VEHICLE:STATE:", ":PLACED:EVENT:",
                      ":MARKER:STATE:", ":MARKER:DELETE:", ":ACE3:UNCONSCIOUS:"}
    PROVE  Among(References(c.cmd, RowOf(c.cmd, Completed(c.cmd, e, found))), T)
<1> DEFINE ls == Lookups(c.cmd, e)
           r == RowOf(c.cmd, Completed(c.cmd, e, found))
<1>1. SUFFICES \E kinds, id : ls = << Must(kinds, id) >> /\
                             References(c.cmd, r) = {Ref(kinds, id)}
  <2>1. PICK kinds, id : ls = << Must(kinds, id) >> /\ References(c.cmd, r) = {Ref(kinds, id)}
    BY <1>1
  <2>2. Found(ls, T)
    OBVIOUS
  <2> HIDE DEF ls, r
  <2>3. Fine(kinds, id, T)
    BY <2>1, <2>2, StepsAre, MustFound
  <2>4. Among(References(c.cmd, r), T)
    BY <2>1, <2>3, FineReference DEF Among
  <2> QED
    BY <2>4 DEF r
<1> DEFINE done == Completed(c.cmd, e, found)
<1>2. CASE c.cmd = ":SOLDIER:STATE:"
  <2>1. ls = << Must({"soldier"}, e.soldierID) >>
    BY <1>2 DEF Lookups
  <2>2. done.soldierID = e.soldierID
    BY <1>2, CompletedStruct, SoldierStateHasSoldier
  <2> HIDE DEF done
  <2>3. RowOf(c.cmd, done).soldierObjectID = e.soldierID
    BY <1>2, <2>2, RowsOfStates
  <2>4. References(c.cmd, RowOf(c.cmd, done)) = {Ref({"soldier"}, e.soldierID)}
    BY <1>2, <2>3 DEF References
  <2> QED
    BY <2>1, <2>4 DEF done
<1>3. CASE c.cmd = ":VEHICLE:STATE:"
  <2>1. ls = << Must({"vehicle"}, e.vehicleID) >>
    BY <1>3 DEF Lookups
  <2>2. done = e
    BY <1>3, CompletedStruct
  <2>3. RowOf(c.cmd, e).vehicleObjectID = e.vehicleID
    BY <1>3, RowsOfStates
  <2>4. References(c.cmd, RowOf(c.cmd, e)) = {Ref({"vehicle"}, e.vehicleID)}
    BY <1>3, <2>3 DEF References
  <2> QED
    BY <2>1, <2>2, <2>4
<1>4. CASE c.cmd = ":PLACED:EVENT:"
  <2>1. ls = << Must({"placed"}, e.placedID) >>
    BY <1>4 DEF Lookups
  <2>2. done = e
    BY <1>4, CompletedStruct
  <2>3. RowOf(c.cmd, e).placedObjectID = e.placedID
    BY <1>4, RowsOfStates
  <2>4. References(c.cmd, RowOf(c.cmd, e)) = {Ref({"placed"}, e.placedID)}
    BY <1>4, <2>3 DEF References
  <2> QED
    BY <2>1, <2>2, <2>4
<1>5. CASE c.cmd \in {":MARKER:STATE:", ":MARKER:DELETE:"}
  <2>1. ls = << Must({"marker"}, e.markerName) >>
    BY <1>5 DEF Lookups
  <2>2. done.markerID = e.markerName
    BY <1>5, CompletedStruct
  <2> HIDE DEF done
  <2>3. RowOf(c.cmd, done).markerID = e.markerName
    BY <1>5, <2>2, RowsOfStates
  <2>4. References(c.cmd, RowOf(c.cmd, done)) = {Ref({"marker"}, e.markerName)}
    BY <1>5, <2>3 DEF References
  <2> QED
    BY <2>1, <2>4 DEF done
<1>6. CASE c.cmd = ":ACE3:UNCONSCIOUS:"
  <2>1. ls = << Must({"soldier"}, U16(e.soldierID)) >>
    BY <1>6 DEF Lookups
  <2>2. done = e
    BY <1>6, CompletedStruct
  <2>3. RowOf(c.cmd, e).soldierObjectID = U16(e.soldierID)
    BY <1>6, RowsOfEvents
  <2>4. References(c.cmd, RowOf(c.cmd, e)) = {Ref({"soldier"}, U16(e.soldierID))}
    BY <1>6, <2>3 DEF References
  <2> QED
    BY <2>1, <2>2, <2>4
<1> QED
    BY <1>2, <1>3, <1>4, <1>5, <1>6

\* A reference that is looked up when it is set.
LEMMA SetIsFound ==
    ASSUME NEW kinds, NEW id, NEW ls, NEW T, Found(ls, T),
           id # None => Must(kinds, U16(id)) \in Steps(ls)
    PROVE  RefLow(kinds, id).id = None \/ IsFound(RefLow(kinds, id), T)
<1>1. CASE id = None
  <2>1. RefLow(kinds, id) = Ref(kinds, None)
    BY <1>1 DEF RefLow
  <2>2. Fine(kinds, None, T)
    BY DEF Fine
  <2> QED
    BY <2>1, <2>2, FineReference
<1>2. CASE id # None
  <2>1. RefLow(kinds, id) = Ref(kinds, U16(id))
    BY <1>2 DEF RefLow
  <2>2. Fine(kinds, U16(id), T)
    BY <1>2, MustFound
  <2> QED
    BY <2>1, <2>2, FineReference
<1> QED
    BY <1>1, <1>2

\* A death: the one who died, and whoever caused the last damage.
LEMMA DeathsRefer ==
    ASSUME NEW c, NEW e, NEW found, NEW T, Found(Lookups(c.cmd, e), T),
           c.cmd = ":ACE3:DEATH:"
    PROVE  Among(References(c.cmd, RowOf(c.cmd, Completed(c.cmd, e, found))), T)
<1> DEFINE ls    == Lookups(c.cmd, e)
           id    == U16(e.soldierID)
           other == e.lastDamageSourceID
           first == Must({"soldier"}, id)
           second == Must({"soldier", "vehicle"}, U16(other))
           rest  == MustIfSet({"soldier", "vehicle"}, other)
<1>1. ls = << first >> \o rest
    BY DEF Lookups
<1>2. rest = IF other = None THEN << >> ELSE << second >>
    BY DEF MustIfSet
<1>3. /\ << first >> \o << >> = << first >>
      /\ << first >> \o << second >> = << first, second >>
    BY OneAndAnother
<1>4. Found(ls, T)
    OBVIOUS
<1>5. /\ RowOf(c.cmd, e).soldierObjectID = id
      /\ RowOf(c.cmd, e).lastDamageSourceObjectID = other
    BY RowsOfEvents
<1>6. Completed(c.cmd, e, found) = e
    BY CompletedStruct
<1>7. References(c.cmd, RowOf(c.cmd, e)) =
        {Ref({"soldier"}, id), RefLow({"soldier", "vehicle"}, other)}
  <2> HIDE DEF id, other
  <2> QED
    BY <1>5 DEF References
<1>8. first \in Steps(ls) /\ (other # None => second \in Steps(ls))
  <2> HIDE DEF ls, rest, first, second, other
  <2>1. ls = IF other = None THEN << first >> ELSE << first, second >>
    BY <1>1, <1>2, <1>3
  <2> QED
    BY <2>1, StepsAre
<1> HIDE DEF ls, id, other
<1>9. Ref({"soldier"}, id).id = None \/ IsFound(Ref({"soldier"}, id), T)
    BY <1>4, <1>8, MustFound, FineReference
<1>10. LET ref == RefLow({"soldier", "vehicle"}, other) IN ref.id = None \/ IsFound(ref, T)
    BY <1>4, <1>8, SetIsFound
<1> QED
    BY <1>6, <1>7, <1>9, <1>10 DEF Among

\* A message: its sender, if it has one.
LEMMA MessagesRefer ==
    ASSUME NEW c, NEW e, NEW found, NEW T, Found(Lookups(c.cmd, e), T),
           c.cmd \in {":EVENT:CHAT:", ":EVENT:RADIO:"}
    PROVE  Among(References(c.cmd, RowOf(c.cmd, Completed(c.cmd, e, found))), T)
<1> DEFINE ls == Lookups(c.cmd, e)
           id == e.soldierID
<1>1. ls = MustIfSet({"soldier"}, id) /\ Found(ls, T)
    BY DEF Lookups
<1>2. Completed(c.cmd, e, found) = e
    BY CompletedStruct
<1>3. RowOf(c.cmd, e).soldierObjectID = id
    BY RowsOfEvents
<1>4. References(c.cmd, RowOf(c.cmd, e)) = {RefLow({"soldier"}, id)}
    BY <1>3 DEF References
<1> HIDE DEF ls, id
<1>5. id # None => Must({"soldier"}, U16(id)) \in Steps(ls)
    BY <1>1, StepsAre DEF MustIfSet
<1>6. LET ref == RefLow({"soldier"}, id) IN ref.id = None \/ IsFound(ref, T)
    BY <1>1, <1>5, SetIsFound
<1> QED
    BY <1>2, <1>4, <1>6 DEF Among

\* A kill: what classifyEntity found of the two.
LEMMA KillsRefer ==
    ASSUME NEW e, NEW found, NEW T, \A f \in found : << f.kind, f.id >> \in T
    PROVE  LET cmd == ":EVENT:KILL:"
           IN  Among(References(cmd, RowOf(cmd, Completed(cmd, e, found))), T)
<1> DEFINE r == RowOf(":EVENT:KILL:", Completed(":EVENT:KILL:", e, found))
           vs == FoundAs(found, "victim", "soldier")
           vv == FoundAs(found, "victim", "vehicle")
           ks == FoundAs(found, "killer", "soldier")
           kv == FoundAs(found, "killer", "vehicle")
<1>1. References(":EVENT:KILL:", r) =
        { Ref({"soldier"}, r.victimSoldierObjectID),
          Ref({"vehicle"}, r.victimVehicleObjectID),
          Ref({"soldier"}, r.killerSoldierObjectID),
          Ref({"vehicle"}, r.killerVehicleObjectID) }
  <2> HIDE DEF r
  <2> QED
    BY DEF References
<1>2. /\ r.victimSoldierObjectID = vs /\ r.victimVehicleObjectID = vv
      /\ r.killerSoldierObjectID = ks /\ r.killerVehicleObjectID = kv
  <2>1. PICK d : d = Completed(":EVENT:KILL:", e, found)
    OBVIOUS
  <2>2. d.victimSoldierID = vs /\ d.victimVehicleID = vv /\ d.killerSoldierID = ks
        /\ d.killerVehicleID = kv
    BY <2>1, CompletedKill
  <2>3. r = RowOf(":EVENT:KILL:", d)
    BY <2>1
  <2> HIDE DEF r, vs, vv, ks, kv
  <2> QED
    BY <2>2, <2>3, RowsOfEvents
<1>3. ASSUME NEW as, NEW kind
      PROVE  Fine({kind}, FoundAs(found, as, kind), T)
  <2> DEFINE its == {f \in found : f.as = as /\ f.kind = kind}
  <2>1. FoundAs(found, as, kind) = IF its = {} THEN None ELSE (CHOOSE f \in its : TRUE).id
    BY DEF FoundAs
  <2>2. CASE its # {}
    <3>1. PICK f \in its : FoundAs(found, as, kind) = f.id
      BY <2>1, <2>2
    <3> QED
      BY <3>1 DEF Fine
  <2> QED
    BY <2>1, <2>2 DEF Fine
<1>4. /\ Fine({"soldier"}, vs, T) /\ Fine({"vehicle"}, vv, T)
      /\ Fine({"soldier"}, ks, T) /\ Fine({"vehicle"}, kv, T)
    BY <1>3
<1> HIDE DEF vs, vv, ks, kv, r
<1>5. /\ Ref({"soldier"}, vs).id = None \/ IsFound(Ref({"soldier"}, vs), T)
      /\ Ref({"vehicle"}, vv).id = None \/ IsFound(Ref({"vehicle"}, vv), T)
      /\ Ref({"soldier"}, ks).id = None \/ IsFound(Ref({"soldier"}, ks), T)
      /\ Ref({"vehicle"}, kv).id = None \/ IsFound(Ref({"vehicle"}, kv), T)
    BY <1>4, FineReference
<1>6. Among(References(":EVENT:KILL:", r), T)
    BY <1>1, <1>2, <1>5 DEF Among
<1> QED
    BY <1>6 DEF r

\* A projectile: what classifyHitParts found of its hits.
LEMMA ProjectilesRefer ==
    ASSUME NEW e, NEW found, NEW T, \A f \in found : << f.kind, f.id >> \in T
    PROVE  LET cmd == ":EVENT:PROJECTILE:"
           IN  Among(References(cmd, RowOf(cmd, Completed(cmd, e, found))), T)
<1> DEFINE r == RowOf(":EVENT:PROJECTILE:", Completed(":EVENT:PROJECTILE:", e, found))
           Of(kind) == {f.id : f \in {g \in found : g.kind = kind}}
<1>1. References(":EVENT:PROJECTILE:", r) =
        { Ref({"soldier"}, id) : id \in r.hitSoldiers } \union
        { Ref({"vehicle"}, id) : id \in r.hitVehicles }
  <2> HIDE DEF r
  <2> QED
    BY DEF References
<1>2. r.hitSoldiers = Of("soldier") /\ r.hitVehicles = Of("vehicle")
  <2> DEFINE done == Completed(":EVENT:PROJECTILE:", e, found)
  <2>1. done.hitSoldiers = Of("soldier") /\ done.hitVehicles = Of("vehicle")
    BY CompletedProjectile, Zenon
  <2>2. r.hitSoldiers = done.hitSoldiers /\ r.hitVehicles = done.hitVehicles
    BY RowsOfEvents
  <2> QED
    BY <2>1, <2>2
<1>3. \A kind : \A id \in Of(kind) : Fine({kind}, id, T)
    BY DEF Fine
<1> HIDE DEF Of, r
<1>4. /\ \A id \in r.hitSoldiers :
            Ref({"soldier"}, id).id = None \/ IsFound(Ref({"soldier"}, id), T)
      /\ \A id \in r.hitVehicles :
            Ref({"vehicle"}, id).id = None \/ IsFound(Ref({"vehicle"}, id), T)
    BY <1>2, <1>3, FineReference
<1>5. Among(References(":EVENT:PROJECTILE:", r), T)
    BY <1>1, <1>4 DEF Among
<1> QED
    BY <1>5 DEF r

\* A handler that has made its lookups gives the backend a row about objects it found.
LEMMA RowsRefer ==
    ASSUME NEW c, NEW e, NEW found, NEW T, e = Parsed(c),
           \A f \in found : << f.kind, f.id >> \in T,
           Found(Lookups(c.cmd, e), T)
    PROVE  Among(References(c.cmd, RowOf(c.cmd, Completed(c.cmd, e, found))), T)
<1>1. CASE c.cmd \in {":SOLDIER:STATE:", ":VEHICLE:STATE:", ":PLACED:EVENT:",
                      ":MARKER:STATE:", ":MARKER:DELETE:", ":ACE3:UNCONSCIOUS:"}
    BY <1>1, StatesRefer
<1>2. CASE c.cmd = ":ACE3:DEATH:"
    BY <1>2, DeathsRefer
<1>3. CASE c.cmd \in {":EVENT:CHAT:", ":EVENT:RADIO:"}
    BY <1>3, MessagesRefer
<1>4. CASE c.cmd = ":EVENT:KILL:"
    BY <1>4, KillsRefer
<1>5. CASE c.cmd = ":EVENT:PROJECTILE:"
    BY <1>5, ProjectilesRefer
<1>6. CASE c.cmd \notin {":SOLDIER:STATE:", ":VEHICLE:STATE:", ":PLACED:EVENT:",
                         ":MARKER:STATE:", ":MARKER:DELETE:", ":ACE3:UNCONSCIOUS:",
                         ":ACE3:DEATH:", ":EVENT:CHAT:", ":EVENT:RADIO:",
                         ":EVENT:KILL:", ":EVENT:PROJECTILE:"}
  <2> DEFINE r == RowOf(c.cmd, Completed(c.cmd, e, found))
  <2>1. References(c.cmd, r) = {}
    <3> HIDE DEF r
    <3> QED
      BY <1>6 DEF References
  <2> QED
    BY <2>1 DEF Among
<1> QED
    BY <1>1, <1>2, <1>3, <1>4, <1>5, <1>6

-----------------------------------------------------------------------------
(* What the columns hold *)

LEMMA SoldierStateIs ==
    LET reads == Commands[":SOLDIER:STATE:"].parse.reads
    IN  /\ Commands[":SOLDIER:STATE:"].columns = SoldierState
        /\ reads["groupID"] = IfGiven(17, 15, "Text") /\ reads["side"] = IfGiven(17, 16, "Text")
        /\ {"groupID", "side", "scores"} \subseteq DOMAIN reads
        /\ Len(Commands[":SOLDIER:STATE:"].args) = 17
    BY TheCommands DEF SOLDIER_STATE, Does, ParseSoldierState

\* A handler leaves the fields of the parser as they are, but for the group and the
\* side of a state that has none.
LEMMA CompletedKeeps ==
    ASSUME NEW c, Sent(c), NEW found, NEW f \in DOMAIN Commands[c.cmd].parse.reads,
           ~(c.cmd = ":SOLDIER:STATE:" /\ f \in {"groupID", "side"})
    PROVE  Completed(c.cmd, Parsed(c), found)[f] = Parsed(c)[f]
<1> DEFINE e == Parsed(c)
           reads == Commands[c.cmd].parse.reads
<1>1. DOMAIN e = DOMAIN reads
    BY ParseReturns DEF Parsed
<1>2. CASE c.cmd = ":SOLDIER:STATE:"
  <2> DEFINE group == IF e.groupID = None THEN CreatedWith("groupId") ELSE e.groupID
             side  == IF e.side = None THEN CreatedWith("side") ELSE e.side
  <2>1. Completed(c.cmd, e, found) = [e EXCEPT !.groupID = group, !.side = side]
    BY <1>2 DEF Completed
  <2> HIDE DEF e, group, side
  <2>2. [e EXCEPT !.groupID = group, !.side = side][f] = e[f]
    BY <1>1, <1>2
  <2> QED
    BY <2>1, <2>2 DEF e
<1>3. CASE c.cmd \in {":MARKER:STATE:", ":MARKER:DELETE:"}
  <2>1. "markerID" \notin DOMAIN reads
    BY <1>3, TheCommands DEF MARKER_STATE, MARKER_DELETE, Alone, Does, ParseMarkerMove,
       ParseMarkerDelete
  <2>2. Completed(c.cmd, e, found) = Fields(e, DOMAIN e, [markerID |-> e.markerName])
    BY <1>3 DEF Completed
  <2> HIDE DEF e
  <2> QED
    BY <1>1, <2>1, <2>2, TakenField DEF e
<1>4. CASE c.cmd = ":EVENT:KILL:"
  <2> DEFINE given == [victimSoldierID |-> FoundAs(found, "victim", "soldier"),
                       victimVehicleID |-> FoundAs(found, "victim", "vehicle"),
                       killerSoldierID |-> FoundAs(found, "killer", "soldier"),
                       killerVehicleID |-> FoundAs(found, "killer", "vehicle")]
  <2>1. DOMAIN given \intersect DOMAIN reads = {}
    BY <1>4, TheCommands DEF EVENT_KILL, Does, ParseKillEvent
  <2>2. Completed(c.cmd, e, found) = Fields(e, DOMAIN e, given)
    BY <1>4 DEF Completed
  <2> HIDE DEF e, given
  <2> QED
    BY <1>1, <2>1, <2>2, TakenField DEF e
<1>5. CASE c.cmd = ":EVENT:PROJECTILE:"
  <2> DEFINE given == [hitSoldiers |-> {f1.id : f1 \in {g \in found : g.kind = "soldier"}},
                       hitVehicles |-> {f1.id : f1 \in {g \in found : g.kind = "vehicle"}}]
  <2>1. DOMAIN given \intersect DOMAIN reads = {}
    BY <1>5, TheCommands DEF EVENT_PROJECTILE, Does, ParseProjectileEvent
  <2>2. Completed(c.cmd, e, found) = Fields(e, DOMAIN e, given)
    BY <1>5 DEF Completed
  <2> HIDE DEF e, given
  <2> QED
    BY <1>1, <2>1, <2>2, TakenField DEF e
<1>6. CASE c.cmd \notin {":SOLDIER:STATE:", ":MARKER:STATE:", ":MARKER:DELETE:",
                         ":EVENT:KILL:", ":EVENT:PROJECTILE:"}
    BY <1>6 DEF Completed
<1> QED
    BY <1>2, <1>3, <1>4, <1>5, <1>6

\* The place of the argument a column is for is the one its field is read from.
LEMMA ColumnsPlace ==
    ASSUME Sent(call), NEW k \in 1..Len(Commands[call.cmd].args),
           NEW col, Columns[col] = Commands[call.cmd].args[k]
    PROVE  PlaceOf(Columns[col]) = k
<1> DEFINE args == Commands[call.cmd].args
<1>1. /\ DOMAIN args = 1..Len(args)
      /\ \A i, j \in 1..Len(args) : args[i] = args[j] => i = j
    BY TheArguments DEF Sent, ArgumentsDiffer
<1>2. PlaceOf(Columns[col]) = CHOOSE j \in DOMAIN args : args[j] = args[k]
    BY DEF PlaceOf
<1>a. k \in 1..Len(args)
    OBVIOUS
<1> HIDE DEF args
<1>3. \A j \in DOMAIN args : args[j] = args[k] => j = k
    BY <1>1, <1>a
<1>4. k \in DOMAIN args
    BY <1>1, <1>a
<1> QED
    BY <1>2, <1>3, <1>4

\* The group and the side of a state are the ones of its soldier when it has none.
LEMMA GroupAndSide ==
    ASSUME NEW c, c.cmd = ":SOLDIER:STATE:", NEW found, NEW col \in {"groupID", "side"}
    PROVE  RowOf(c.cmd, Completed(c.cmd, Parsed(c), found))[col] =
               IF Parsed(c)[col] = None THEN CreatedWith(Soldier[col]) ELSE Parsed(c)[col]
<1> DEFINE e == Parsed(c)
           group == IF e.groupID = None THEN CreatedWith("groupId") ELSE e.groupID
           side  == IF e.side = None THEN CreatedWith("side") ELSE e.side
           done  == Completed(c.cmd, e, found)
<1>1. done = [e EXCEPT !.groupID = group, !.side = side]
    BY DEF Completed
<1>2. {"groupID", "side"} \subseteq DOMAIN e
    BY SoldierStateHasSoldier
<1>3. Soldier["groupID"] = "groupId" /\ Soldier["side"] = "side"
    BY DEF Soldier
<1>4. /\ group = IF e["groupID"] = None THEN CreatedWith(Soldier["groupID"]) ELSE e["groupID"]
      /\ side = IF e["side"] = None THEN CreatedWith(Soldier["side"]) ELSE e["side"]
    BY <1>3
<1> HIDE DEF e, group, side, done
<1>5. done["groupID"] = group /\ done["side"] = side
    BY <1>1, <1>2
<1>6. RowOf(c.cmd, done)[col] = done[col]
    BY GivenField, TakenField DEF RowOf, CoreToSoldierState
<1> QED
    BY <1>4, <1>5, <1>6 DEF e, done

\* What a column without room for more keeps of a number.
HasKept(cmd, col, x, v) ==
    IF v = -1 THEN x = None
    ELSE IF SixteenBits(cmd, col) THEN x = U16(v)
    ELSE v \in Room(cmd, col) => x = v

\* What stands for a number is kept in the column it fits in.
LEMMA StandingIsKept ==
    ASSUME NEW cmd, NEW of, NEW col, NEW as, ColumnFits(cmd, of, col),
           as = of.parse.reads[FieldOf(cmd, col)].as,
           NEW x, NEW v, Stands(as, x, v), v = -1 => of.columns[col] \in Nobodies
    PROVE  HasKept(cmd, col, IF Narrowed(cmd, col) THEN U16(x) ELSE x, v)
<1>1. CASE Narrowed(cmd, col)
  <2>1. as = "Uint" /\ SixteenBits(cmd, col) /\ v # -1
    BY <1>1 DEF ColumnFits
  <2>2. v \in Nat /\ x = v
    BY <2>1 DEF Stands, To16Bits, Capacity
  <2> QED
    BY <1>1, <2>1, <2>2 DEF HasKept
<1>2. CASE ~Narrowed(cmd, col) /\ as \in To16Bits
  <2>1. SixteenBits(cmd, col)
    BY <1>2 DEF ColumnFits
  <2>2. IF v = -1 THEN x = None ELSE x = U16(v)
    BY <1>2 DEF Stands
  <2> QED
    BY <1>2, <2>1, <2>2 DEF HasKept
<1>3. CASE ~Narrowed(cmd, col) /\ as \notin To16Bits
  <2>1. ~SixteenBits(cmd, col) /\ Room(cmd, col) = Capacity(as)
    BY <1>3 DEF ColumnFits
  <2>2. IF v = -1 THEN x = None ELSE v \in Capacity(as) => x = v
    BY <1>3 DEF Stands
  <2> QED
    BY <1>3, <2>1, <2>2 DEF HasKept
<1> QED
    BY <1>1, <1>2, <1>3

\* The lookups a handler has made are its lookups.
FoundBy(c, found) ==
    \A f \in found : \E l \in Steps(Lookups(c.cmd, Parsed(c))) : l.as = f.as /\ l.id = f.id

\* A recorded row: what the handler of a call gives the backend, converted.
Recorded(c, found) ==
    /\ Sent(c) /\ Understood(c) /\ format \in {"int", "float"}
    /\ FoundBy(c, found)
    /\ row = RowOf(c.cmd, Completed(c.cmd, Parsed(c), found))

\* A column takes over its field; the group and the side may be the handler's.
LEMMA ColumnTakes ==
    ASSUME Recorded(call, resolved), NEW col \in Copied(call.cmd, Commands[call.cmd]),
           call.cmd = ":SOLDIER:STATE:" /\ col \in {"groupID", "side"} =>
               Parsed(call)[col] # None
    PROVE  LET x == Parsed(call)[FieldOf(call.cmd, col)]
           IN  row[col] = IF Narrowed(call.cmd, col) THEN U16(x) ELSE x
<1> DEFINE of == Commands[call.cmd]
           e == Parsed(call)
           f == FieldOf(call.cmd, col)
           done == Completed(call.cmd, e, resolved)
<1>1. Sent(call) /\ call.cmd \in AllCommands /\ row = RowOf(call.cmd, done)
    BY DEF Recorded, Sent
<1>2. ColumnIsRead(call.cmd, of, col)
    BY <1>1, TheColumns DEF ColumnsAreRead
<1>3. CASE call.cmd = ":SOLDIER:STATE:" /\ col \in {"groupID", "side"}
  <2>1. f = col /\ ~Narrowed(call.cmd, col)
    BY <1>3 DEF FieldOf, Narrowed
  <2>2. RowOf(call.cmd, Completed(call.cmd, Parsed(call), resolved))[col] = Parsed(call)[col]
    BY <1>3, GroupAndSide
  <2> QED
    BY <1>1, <2>1, <2>2
<1>4. CASE col = "markerID"
  <2>1. /\ f = "markerName" /\ call.cmd \in {":MARKER:STATE:", ":MARKER:DELETE:"}
        /\ ~Narrowed(call.cmd, col)
    BY <1>2, <1>4 DEF FieldOf, ColumnIsRead, Narrowed
  <2>2. Completed(call.cmd, e, resolved).markerID = e.markerName
    BY <2>1, CompletedStruct
  <2>3. RowOf(call.cmd, Completed(call.cmd, e, resolved)).markerID = e.markerName
    BY <2>1, <2>2, RowsOfStates
  <2> QED
    BY <1>1, <1>4, <2>1, <2>3
<1>5. CASE ~(call.cmd = ":SOLDIER:STATE:" /\ col \in {"groupID", "side"}) /\ col # "markerID"
  <2>1. row[col] = IF Narrowed(call.cmd, col) THEN U16(done[f]) ELSE done[f]
    <3>1. RowCarries(call.cmd, of)
      BY <1>1, TheRows
    <3>2. col \in Copied(call.cmd, of) \ {"markerID"}
      BY <1>5
    <3> HIDE DEF done
    <3>3. RowOf(call.cmd, done)[col] = IF Narrowed(call.cmd, col) THEN U16(done[f]) ELSE done[f]
      BY <3>1, <3>2 DEF RowCarries
    <3> QED
      BY <1>1, <3>3 DEF done
  <2>2. f \in DOMAIN of.parse.reads
    BY <1>2 DEF ColumnIsRead
  <2>3. ~(call.cmd = ":SOLDIER:STATE:" /\ f \in {"groupID", "side"})
    BY <1>5 DEF FieldOf
  <2>4. done[f] = e[f]
    BY <1>1, <2>2, <2>3, CompletedKeeps
  <2> QED
    BY <2>1, <2>4
<1> QED
    BY <1>3, <1>4, <1>5

\* A state that is cut short has no group and no side.
LEMMA NoGroupNoSide ==
    ASSUME Sent(call), NEW col, FilledFromCache(col)
    PROVE  Parsed(call)[col] = None
<1> DEFINE of == Commands[call.cmd]
           r == of.parse.reads[col]
<1>1. call.cmd = ":SOLDIER:STATE:" /\ call.flaw.as = "cut" /\ col \in {"groupID", "side"}
    BY DEF FilledFromCache
<1>2. r.from = 17 /\ col \in DOMAIN of.parse.reads /\ Len(of.args) = 17
    BY <1>1, SoldierStateIs DEF IfGiven
<1>3. 1 \in Nat \ {0}
    OBVIOUS
<1>4. Len(Args(call)) = call.flaw.at
    BY <1>1, <1>3, ArgumentIs
<1>5. call.flaw.at < Len(of.args) /\ call.flaw.at \in 0..Len(of.args)
    BY <1>1, FlawsAre
<1>6. PICK n \in Nat : n = Len(Args(call)) /\ n < 17
    BY <1>2, <1>4, <1>5
<1>7. Parsed(call)[col] = IF Len(Args(call)) < r.from THEN None
                          ELSE IF Skipped(r, Args(call)) THEN Default
                          ELSE Convert(r.as, Args(call)[r.at + 1])
    BY <1>2, ParseReturns DEF Parsed
<1> HIDE DEF r
<1> QED
    BY <1>2, <1>6, <1>7

\* A column that takes over a field.
LEMMA CopiedHolds ==
    ASSUME Recorded(call, resolved), NEW col \in Copied(call.cmd, Commands[call.cmd]),
           ReadFaithfully(col)
    PROVE  Holds(col)
<1> DEFINE of == Commands[call.cmd]
           e == Parsed(call)
           f == FieldOf(call.cmd, col)
           r == of.parse.reads[f]
           k == r.at + 1
           v == ValueAt(call, k)
           kept == IF Narrowed(call.cmd, col) THEN U16(e[f]) ELSE e[f]
           nobody == col = "scores" /\ call.self \notin Players
<1>1. /\ Sent(call) /\ Understood(call) /\ format \in {"int", "float"}
      /\ call.cmd \in AllCommands
      /\ row = RowOf(call.cmd, Completed(call.cmd, e, resolved))
    BY DEF Recorded, Sent
<1>2. /\ col \in DOMAIN of.columns /\ col \notin Alternatives \union ListColumns
      /\ ColumnIsRead(call.cmd, of, col) /\ ColumnFits(call.cmd, of, col)
    BY <1>1, TheColumns, TheWidths DEF ColumnsAreRead, ColumnsFit, Copied
<1>3. /\ f \in DOMAIN of.parse.reads
      /\ of.args[k] = of.columns[col] /\ of.columns[col] \notin {"hitParts", "positions"}
      /\ r.from <= k \/ (call.cmd = ":SOLDIER:STATE:" /\ col \in {"groupID", "side"})
      /\ format = "int" \/ r.as \notin ForIntegers
      /\ col # "scores" => r.asked = Always
      /\ col = "scores" => call.cmd = ":SOLDIER:STATE:"
    BY <1>1, <1>2 DEF ColumnIsRead, ReadFaithfully
<1>4. k \in 1..Len(of.args)
    BY <1>1, <1>3, TheReads DEF ReadsSuit
<1>5. PlaceOf(Columns[col]) = k
    BY <1>1, <1>3, <1>4, ColumnsPlace DEF Columns
<1>6. Holds(col) <=> CASE FilledFromCache(col) -> row[col] = CreatedWith(Soldier[col])
                       [] nobody /\ ~FilledFromCache(col) -> row[col] = Default
                       [] OTHER -> ~Flawed(call, k) => HasKept(call.cmd, col, row[col], v)
  <2>1. Holds(col) <=> CASE FilledFromCache(col) -> row[col] = CreatedWith(Soldier[col])
                         [] nobody /\ ~FilledFromCache(col) -> row[col] = Default
                         [] OTHER -> ~Flawed(call, k) => Keeps(col, v)
    <3>1. FilledFromCache(col) => ~nobody
      BY DEF FilledFromCache
    <3> HIDE DEF k
    <3> QED
      BY <1>5, <3>1 DEF Holds
  <2>2. Keeps(col, v) <=> HasKept(call.cmd, col, row[col], v)
    <3> HIDE DEF v
    <3>1. col \notin {"hitSoldiers", "hitVehicles"} /\ col \notin Alternatives
          /\ col # "positions"
      BY <1>2 DEF ListColumns
    <3> QED
      BY <3>1 DEF Keeps, HasKept
  <2> HIDE DEF nobody, v, k
  <2> QED
    BY <2>1, <2>2
<1>7. CASE FilledFromCache(col)
  <2>1. call.cmd = ":SOLDIER:STATE:" /\ col \in {"groupID", "side"}
    BY <1>7 DEF FilledFromCache
  <2>2. Parsed(call)[col] = None
    BY <1>1, <1>7, NoGroupNoSide
  <2>3. row[col] = CreatedWith(Soldier[col])
    BY <1>1, <2>1, <2>2, GroupAndSide
  <2> HIDE DEF v, k, nobody
  <2> QED
    BY <1>6, <1>7, <2>3
<1>8. CASE nobody /\ ~FilledFromCache(col)
  <2>1. e["scores"] = Default
    BY <1>1, <1>3, <1>8, ScoresAreOfPlayers
  <2>2. f = "scores" /\ ~Narrowed(call.cmd, col)
    BY <1>8 DEF FieldOf, Narrowed
  <2>3. row[col] = kept
    BY <1>8, ColumnTakes
  <2>4. row[col] = Default
    BY <2>1, <2>2, <2>3
  <2> HIDE DEF v, k, nobody
  <2> QED
    BY <1>6, <1>8, <2>4
<1>9. CASE ~nobody /\ ~FilledFromCache(col)
  <2>1. ASSUME ~Flawed(call, k)
        PROVE  HasKept(call.cmd, col, row[col], v)
    <3>1. ~Skipped(r, Args(call))
      <4>1. CASE col = "scores"
        <5>1. f = "scores"
          BY <4>1 DEF FieldOf
        <5> QED
          BY <1>1, <1>3, <1>9, <4>1, <5>1, ScoresAreOfPlayers
      <4>2. CASE col # "scores"
        BY <1>3, <4>2 DEF Skipped
      <4> QED
        BY <4>1, <4>2
    <3>2. r.from <= k \/ call.flaw.as # "cut"
      BY <1>3, <1>9 DEF FilledFromCache
    <3>3. of.args[k] \notin {"hitParts", "positions"}
      BY <1>3
    <3>4. Stands(r.as, e[f], v)
      BY <1>1, <1>3, <2>1, <3>1, <3>2, <3>3, FieldStands
    <3>5. v = -1 => of.columns[col] \in Nobodies
      BY <1>1, <1>3, <1>4, <3>3, ValuesAre
    <3>6. HasKept(call.cmd, col, kept, v)
      BY <1>2, <3>4, <3>5, StandingIsKept
    <3>7. row[col] = kept
      <4>1. ASSUME call.cmd = ":SOLDIER:STATE:", col \in {"groupID", "side"}
            PROVE  Parsed(call)[col] # None
        <5>1. f = col /\ of.columns[col] \in {"groupID", "side"} /\ r.as = "Text"
          BY <4>1, SoldierStateIs DEF FieldOf, SoldierState, IfGiven
        <5>2. v # -1
          BY <3>5, <5>1 DEF Nobodies
        <5>3. e[f] = v /\ v \in Nat
          BY <3>4, <5>1, <5>2 DEF Stands, To16Bits, Capacity
        <5> QED
          BY <5>1, <5>3, DistinctOutcomes
      <4> QED
        BY <4>1, ColumnTakes
    <3> QED
      BY <3>6, <3>7
  <2> HIDE DEF v, k, nobody
  <2> QED
    BY <1>6, <1>9, <2>1
<1> QED
    BY <1>7, <1>8, <1>9

\* A field that is always read, and whose argument is not flawed.
LEMMA FieldIs ==
    ASSUME NEW c, Sent(c), format \in {"int", "float"},
           NEW f \in DOMAIN Commands[c.cmd].parse.reads, NEW k, ~Flawed(c, k),
           Commands[c.cmd].parse.reads[f].at + 1 = k, Commands[c.cmd].parse.reads[f].from = 0,
           Commands[c.cmd].parse.reads[f].asked = Always
    PROVE  /\ Commands[c.cmd].parse.reads[f].as = "Uint16" => Parsed(c)[f] = U16(ValueAt(c, k))
           /\ Commands[c.cmd].args[k] = "hitParts" =>
                  Parsed(c)[f] = [i \in DOMAIN c.hits |-> U16(c.hits[i])]
           /\ Commands[c.cmd].args[k] = "positions" => Parsed(c)[f] = Trajectory(c)
<1> DEFINE r == Commands[c.cmd].parse.reads[f]
<1>1. ReadsSuit(Commands[c.cmd])
    BY TheReads DEF Sent
<1>2. r.at + 1 \in 1..Len(Commands[c.cmd].args) /\ Len(Commands[c.cmd].args) \in Nat
    BY <1>1 DEF ReadsSuit
<1>3. r.from <= r.at + 1 /\ ~Skipped(r, Args(c))
    BY <1>2 DEF Skipped
<1> QED
    BY <1>3, FieldStands

\* The field of an ID.
LEMMA FieldIsID ==
    ASSUME NEW c, Sent(c), format \in {"int", "float"},
           NEW f \in DOMAIN Commands[c.cmd].parse.reads, NEW k, ~Flawed(c, k),
           Commands[c.cmd].parse.reads[f].at + 1 = k, Commands[c.cmd].parse.reads[f].from = 0,
           Commands[c.cmd].parse.reads[f].asked = Always,
           Commands[c.cmd].parse.reads[f].as = "Uint16"
    PROVE  Parsed(c)[f] = U16(ValueAt(c, k))
    BY FieldIs

\* The command of a projectile: what it hit, and its path.
LEMMA ProjectileIs ==
    LET of == Commands[":EVENT:PROJECTILE:"]
        r  == of.parse.reads["hitParts"]
        p  == of.parse.reads["trajectory"]
    IN  /\ of.args[17] = "hitParts" /\ 17 \in 1..Len(of.args)
        /\ of.columns["hitSoldiers"] = "hitParts" /\ of.columns["hitVehicles"] = "hitParts"
        /\ "hitParts" \in DOMAIN of.parse.reads
        /\ r.at = 16 /\ r.from = 0 /\ r.asked = Always
        /\ of.args[15] = "positions" /\ 15 \in 1..Len(of.args)
        /\ of.columns["positions"] = "positions"
        /\ "trajectory" \in DOMAIN of.parse.reads
        /\ p.at = 14 /\ p.from = 0 /\ p.asked = Always
    BY TheCommands DEF EVENT_PROJECTILE, Does, ParseProjectileEvent, ProjectileEvent, At

\* A projectile looks up what it has hit ...
LEMMA HitsLookedUp ==
    ASSUME NEW e, NEW l \in Steps(Lookups(":EVENT:PROJECTILE:", e))
    PROVE  l.as = "hit" /\ \E i \in DOMAIN e.hitParts : l.id = e.hitParts[i]
<1>1. Lookups(":EVENT:PROJECTILE:", e) =
        [i \in DOMAIN e.hitParts |-> Classify("hit", e.hitParts[i])]
    BY DEF Lookups
<1>2. PICK i \in DOMAIN e.hitParts : l = Classify("hit", e.hitParts[i])
    BY <1>1 DEF Steps
<1> QED
    BY <1>2 DEF Classify

\* The objects a projectile row says were hit are among those the game named.
LEMMA HitsHold ==
    ASSUME Recorded(call, resolved), call.cmd = ":EVENT:PROJECTILE:",
           NEW col \in {"hitSoldiers", "hitVehicles"}
    PROVE  Holds(col)
<1> DEFINE of == Commands[call.cmd]
           e == Parsed(call)
           v == ValueAt(call, 17)
           Of(kind) == {f.id : f \in {g \in resolved : g.kind = kind}}
<1>1. /\ Sent(call) /\ format \in {"int", "float"}
      /\ row = RowOf(call.cmd, Completed(call.cmd, e, resolved))
      /\ FoundBy(call, resolved)
    BY DEF Recorded
<1>2. /\ 17 \in 1..Len(of.args) /\ of.args[17] = "hitParts" /\ Columns[col] = "hitParts"
    BY ProjectileIs DEF Columns
<1>3. PlaceOf(Columns[col]) = 17
    BY <1>1, <1>2, ColumnsPlace
<1>4. v = call.hits
    BY <1>1, <1>2, ValuesAre
<1>5. \E kind : row[col] = Of(kind)
  <2> DEFINE done == Completed(call.cmd, e, resolved)
  <2>1. done.hitSoldiers = Of("soldier") /\ done.hitVehicles = Of("vehicle")
    BY CompletedProjectile, Zenon
  <2> HIDE DEF done, Of
  <2>2. /\ RowOf(call.cmd, done).hitSoldiers = done.hitSoldiers
        /\ RowOf(call.cmd, done).hitVehicles = done.hitVehicles
    BY RowsOfEvents
  <2> QED
    BY <1>1, <2>1, <2>2 DEF done
<1>6. ASSUME ~Flawed(call, 17)
      PROVE  row[col] \subseteq {U16(v[i]) : i \in DOMAIN v}
  <2>1. e.hitParts = [i \in DOMAIN v |-> U16(v[i])]
    <3>1. /\ "hitParts" \in DOMAIN of.parse.reads /\ of.args[17] = "hitParts"
          /\ of.parse.reads["hitParts"].at + 1 = 17 /\ of.parse.reads["hitParts"].from = 0
          /\ of.parse.reads["hitParts"].asked = Always
      BY ProjectileIs
    <3>2. e["hitParts"] = [i \in DOMAIN call.hits |-> U16(call.hits[i])]
      BY <1>1, <1>6, <3>1, FieldIs
    <3> HIDE DEF v
    <3> QED
      BY <1>4, <3>2
  <2>2. \A f \in resolved : \E i \in DOMAIN v : f.id = U16(v[i])
    <3> SUFFICES ASSUME NEW f \in resolved
                 PROVE  \E i \in DOMAIN v : f.id = U16(v[i])
      OBVIOUS
    <3>1. PICK l \in Steps(Lookups(call.cmd, e)) : l.id = f.id
      BY <1>1 DEF FoundBy
    <3>2. PICK i \in DOMAIN e.hitParts : l.id = e.hitParts[i]
      BY HitsLookedUp
    <3> QED
      BY <2>1, <3>1, <3>2
  <2> QED
    BY <1>5, <2>2
<1>7. Holds(col) <=> (~Flawed(call, 17) => Keeps(col, v))
  <2>1. ~FilledFromCache(col) /\ col # "scores"
    BY DEF FilledFromCache
  <2> HIDE DEF v
  <2> QED
    BY <1>3, <2>1 DEF Holds, v
<1> HIDE DEF v
<1>8. Keeps(col, v) <=> row[col] \subseteq {U16(v[i]) : i \in DOMAIN v}
  <2>1. col \notin Alternatives /\ col # "positions"
    BY DEF Alternatives
  <2> QED
    BY <2>1 DEF Keeps
<1> QED
    BY <1>6, <1>7, <1>8

\* The positions of a projectile are its path, if that has two points.
LEMMA PositionsHold ==
    ASSUME Recorded(call, resolved), call.cmd = ":EVENT:PROJECTILE:"
    PROVE  Holds("positions")
<1> DEFINE of == Commands[call.cmd]
           e == Parsed(call)
           done == Completed(call.cmd, e, resolved)
           v == ValueAt(call, 15)
<1>1. /\ Sent(call) /\ format \in {"int", "float"} /\ row = RowOf(call.cmd, done)
    BY DEF Recorded
<1>2. /\ 15 \in 1..Len(of.args) /\ of.args[15] = "positions"
      /\ Columns["positions"] = "positions"
    BY ProjectileIs DEF Columns
<1>3. PlaceOf(Columns["positions"]) = 15
    BY <1>1, <1>2, ColumnsPlace
<1>4. v = Trajectory(call)
    BY <1>1, <1>2, ValuesAre
<1>5. done["trajectory"] = e["trajectory"]
  <2>1. "trajectory" \in DOMAIN of.parse.reads
    BY ProjectileIs
  <2> QED
    BY <1>1, <2>1, CompletedKeeps
<1>6. row["positions"] = IF Len(e["trajectory"]) >= 2 THEN e["trajectory"] ELSE Default
  <2> HIDE DEF done, e
  <2>1. RowOf(call.cmd, done)["positions"] =
            IF Len(done["trajectory"]) >= 2 THEN done["trajectory"] ELSE Default
    BY GivenField DEF RowOf, CoreToProjectileEvent
  <2> QED
    BY <1>1, <1>5, <2>1
<1>7. ~Flawed(call, 15) => e["trajectory"] = Trajectory(call)
  <2>1. /\ "trajectory" \in DOMAIN of.parse.reads
        /\ of.parse.reads["trajectory"].at + 1 = 15
        /\ of.parse.reads["trajectory"].from = 0
        /\ of.parse.reads["trajectory"].asked = Always
    BY ProjectileIs
  <2> QED
    BY <1>1, <1>2, <2>1, FieldIs
<1>8. Holds("positions") <=> (~Flawed(call, 15) => Keeps("positions", v))
  <2>1. ~FilledFromCache("positions")
    BY DEF FilledFromCache
  <2> HIDE DEF v
  <2> QED
    BY <1>3, <2>1 DEF Holds, v
<1> HIDE DEF v
<1>9. Keeps("positions", v) <=> row["positions"] = IF Len(v) >= 2 THEN v ELSE Default
  <2>1. "positions" \notin Alternatives
    BY DEF Alternatives
  <2> QED
    BY <2>1 DEF Keeps
<1> HIDE DEF e
<1> QED
    BY <1>4, <1>6, <1>7, <1>8, <1>9

\* Where a kill names its two objects.
LEMMA KillIs ==
    LET of == Commands[":EVENT:KILL:"]
        victim == of.parse.reads["victimID"]
        killer == of.parse.reads["killerID"]
    IN  /\ of.args[2] = "victimOcapId" /\ of.args[3] = "killerOcapId"
        /\ 2 \in 1..Len(of.args) /\ 3 \in 1..Len(of.args)
        /\ of.columns["victimSoldierObjectID"] = "victimOcapId"
        /\ of.columns["victimVehicleObjectID"] = "victimOcapId"
        /\ of.columns["killerSoldierObjectID"] = "killerOcapId"
        /\ of.columns["killerVehicleObjectID"] = "killerOcapId"
        /\ {"victimID", "killerID"} \subseteq DOMAIN of.parse.reads
        /\ victim.at = 1 /\ victim.from = 0 /\ victim.as = "Uint16" /\ victim.asked = Always
        /\ killer.at = 2 /\ killer.from = 0 /\ killer.as = "Uint16" /\ killer.asked = Always
        /\ of.self = "victimOcapId" /\ of.other = "killerOcapId"
    BY TheCommands DEF EVENT_KILL, Does, ParseKillEvent, KillEvent, At

\* ... and a kill its victim and its killer.
LEMMA KilledLookedUp ==
    ASSUME NEW e, NEW l \in Steps(Lookups(":EVENT:KILL:", e))
    PROVE  \/ l = Classify("victim", e.victimID) /\ l.as = "victim" /\ l.id = e.victimID
           \/ l = Classify("killer", e.killerID) /\ l.as = "killer" /\ l.id = e.killerID
<1>1. Lookups(":EVENT:KILL:", e) =
        << Classify("victim", e.victimID), Classify("killer", e.killerID) >>
    BY DEF Lookups
<1>2. l = Classify("victim", e.victimID) \/ l = Classify("killer", e.killerID)
    BY <1>1 DEF Steps
<1>3. \A as, id : Classify(as, id).as = as /\ Classify(as, id).id = id
    BY DEF Classify
<1> QED
    BY <1>2, <1>3

\* What was found under a name is nobody, or the object that was looked up under it.
LEMMA FoundAsIs ==
    ASSUME NEW found, NEW as, NEW kind, NEW id, \A f \in found : f.as = as => f.id = id
    PROVE  FoundAs(found, as, kind) \in {None, id}
<1> DEFINE its == {f \in found : f.as = as /\ f.kind = kind}
<1>1. FoundAs(found, as, kind) = IF its = {} THEN None ELSE (CHOOSE f \in its : TRUE).id
    BY DEF FoundAs
<1>2. \A f \in its : f.id = id
    OBVIOUS
<1> HIDE DEF its
<1> QED
    BY <1>1, <1>2

\* A victim or killer of a kill row is the one the game named, or left out.
LEMMA KillsHold ==
    ASSUME Recorded(call, resolved), call.cmd = ":EVENT:KILL:", NEW col \in Alternatives
    PROVE  Holds(col)
<1> DEFINE of == Commands[call.cmd]
           e == Parsed(call)
           victim == col \in {"victimSoldierObjectID", "victimVehicleObjectID"}
           k == IF victim THEN 2 ELSE 3
           f == IF victim THEN "victimID" ELSE "killerID"
           as == IF victim THEN "victim" ELSE "killer"
           v == ValueAt(call, k)
<1>1. /\ Sent(call) /\ format \in {"int", "float"}
      /\ row = RowOf(call.cmd, Completed(call.cmd, e, resolved))
      /\ FoundBy(call, resolved)
    BY DEF Recorded
<1>2. k \in 1..Len(of.args) /\ Columns[col] = of.args[k] /\ of.args[k] # "hitParts"
    BY KillIs DEF Alternatives, Columns
<1>3. PlaceOf(Columns[col]) = k
    BY <1>1, <1>2, ColumnsPlace
<1>4. \E kind : row[col] = FoundAs(resolved, as, kind)
  <2> DEFINE done == Completed(call.cmd, e, resolved)
  <2>1. /\ done.victimSoldierID = FoundAs(resolved, "victim", "soldier")
        /\ done.victimVehicleID = FoundAs(resolved, "victim", "vehicle")
        /\ done.killerSoldierID = FoundAs(resolved, "killer", "soldier")
        /\ done.killerVehicleID = FoundAs(resolved, "killer", "vehicle")
    BY CompletedKill
  <2> HIDE DEF done
  <2>2. /\ RowOf(call.cmd, done).victimSoldierObjectID = done.victimSoldierID
        /\ RowOf(call.cmd, done).victimVehicleObjectID = done.victimVehicleID
        /\ RowOf(call.cmd, done).killerSoldierObjectID = done.killerSoldierID
        /\ RowOf(call.cmd, done).killerVehicleObjectID = done.killerVehicleID
    BY RowsOfEvents
  <2>3. row = RowOf(call.cmd, done)
    BY <1>1 DEF done
  <2> QED
    BY <2>1, <2>2, <2>3 DEF Alternatives
<1>5. \A g \in resolved : g.as = as => g.id = e[f]
  <2> SUFFICES ASSUME NEW g \in resolved, g.as = as
               PROVE  g.id = e[f]
    OBVIOUS
  <2>1. PICK l \in Steps(Lookups(call.cmd, e)) : l.as = g.as /\ l.id = g.id
    BY <1>1 DEF FoundBy
  <2> QED
    BY <2>1, KilledLookedUp
<1>6. row[col] \in {None, e[f]}
    BY <1>4, <1>5, FoundAsIs
<1>7. ~Flawed(call, k) => e[f] = U16(v)
  <2>1. /\ f \in DOMAIN of.parse.reads
        /\ of.parse.reads[f].at + 1 = k /\ of.parse.reads[f].from = 0
        /\ of.parse.reads[f].as = "Uint16" /\ of.parse.reads[f].asked = Always
    BY KillIs
  <2> HIDE DEF f, k
  <2> QED
    BY <1>1, <2>1, FieldIsID
<1>8. Holds(col) <=> (~Flawed(call, k) => Keeps(col, v))
  <2>1. ~FilledFromCache(col) /\ col # "scores"
    BY DEF FilledFromCache, Alternatives
  <2> HIDE DEF v, k
  <2> QED
    BY <1>3, <2>1 DEF Holds, v
<1> HIDE DEF v, k, f
<1>9. Keeps(col, v) <=> row[col] \in {None, U16(v)}
  <2>1. col \notin {"hitSoldiers", "hitVehicles"} /\ col # "positions"
    BY DEF Alternatives
  <2> QED
    BY <2>1 DEF Keeps
<1> QED
    BY <1>6, <1>7, <1>8, <1>9

\* The invariant about the row is the property, also when there is no row.
LEMMA RowsHold ==
    ASSUME row # None => Recorded(call, resolved)
    PROVE  RowsAreTheGames
<1> SUFFICES ASSUME row # None, NEW col \in DOMAIN row \intersect DOMAIN Columns,
                    ReadFaithfully(col)
             PROVE  Holds(col)
    BY DEF RowsAreTheGames
<1>1. Recorded(call, resolved) /\ call.cmd \in AllCommands
    BY DEF Recorded, Sent
<1>2. col \in DOMAIN Commands[call.cmd].columns
    BY DEF Columns
<1>3. /\ col \in Alternatives => call.cmd = ":EVENT:KILL:"
      /\ col \in ListColumns => call.cmd = ":EVENT:PROJECTILE:"
    BY <1>1, <1>2, TheColumns DEF ColumnsAreRead
<1>4. CASE col \in Alternatives
    BY <1>1, <1>3, <1>4, KillsHold
<1>5. CASE col \in {"hitSoldiers", "hitVehicles"}
    BY <1>1, <1>3, <1>5, HitsHold DEF ListColumns
<1>6. CASE col = "positions"
    BY <1>1, <1>3, <1>6, PositionsHold DEF ListColumns
<1>7. CASE col \notin Alternatives \union ListColumns
  <2>1. col \in Copied(call.cmd, Commands[call.cmd])
    BY <1>2, <1>7 DEF Copied, ReadFaithfully
  <2> QED
    BY <1>1, <2>1, CopiedHolds
<1> QED
    BY <1>4, <1>5, <1>6, <1>7 DEF ListColumns

-----------------------------------------------------------------------------
(* The invariant *)

\* The optional lookups have found what they have found.
FoundInCache == \A f \in resolved : << f.kind, f.id >> \in cache

\* The call that is followed, and what was made of it.
CallInv ==
    /\ format \in {"int", "float"}
    /\ stage # "idle" => Sent(call)
    /\ stage = "creating" => call.cmd \in Creates
    /\ stage \in {"creating", "lookup"} => obj = Parsed(call) /\ Understood(call)
    /\ stage \in {"idle", "creating", "sent"} => resolved = {}
    /\ stage = "lookup" => FoundBy(call, resolved)
    /\ stage # "recorded" => row = None
    /\ stage = "recorded" => Recorded(call, resolved)

\* A handler's lookups: what is still to be made is part of them, and each that must
\* succeed is still to be made or has found what it must.
LookupInv ==
    stage = "lookup" =>
        LET ls == Lookups(call.cmd, Parsed(call)) IN
        /\ todo \in Seq(Steps(ls))
        /\ \A l \in Steps(ls) : l.must => l \in Steps(todo) \/ IsFound(l, cache)

\* What a row refers to was in the caches, which the game thread only adds to.
RowInv == row # None => Among(References(call.cmd, row), cache)

IInv ==
    /\ cache \subseteq table \union game
    /\ FoundInCache
    /\ CallInv
    /\ LookupInv
    /\ RowInv

\* Nothing is known or recorded at the start.
LEMMA StartOfIntake == ASSUME Init PROVE IInv
    BY DEF Init, IInv, FoundInCache, CallInv, LookupInv, RowInv

\* The struct of a create command is given to the backend as it is, and its row
\* refers to nothing.
LEMMA CreatesReferToNothing ==
    ASSUME NEW cmd \in Creates
    PROVE  /\ \A r : References(cmd, r) = {}
           /\ \A e, found : Completed(cmd, e, found) = e
<1>1. \A r : References(cmd, r) = {}
    BY DEF Creates, References
<1>2. \A e, found : Completed(cmd, e, found) = e
    BY DEF Creates, Completed
<1> QED
    BY <1>1, <1>2

\* What was found stays so while more becomes known.
LEMMA MoreFound ==
    ASSUME NEW T, NEW U, T \subseteq U
    PROVE  /\ \A l : IsFound(l, T) => IsFound(l, U)
           /\ \A R : Among(R, T) => Among(R, U)
<1>1. \A l : IsFound(l, T) => IsFound(l, U)
    BY DEF IsFound
<1> QED
    BY <1>1 DEF Among

\* The game writes its numbers in one way.
LEMMA ParsedAlike ==
    ASSUME NEW c, format' = format
    PROVE  Parsed(c)' = Parsed(c) /\ Understood(c)' = Understood(c)
<1>1. \A name : Form(name)' = Form(name)
    BY DEF Form
<1>2. Args(c)' = Args(c)
    BY <1>1 DEF Args
<1> QED
    BY <1>2 DEF Parsed, Understood

\* What a call has found is known by the format, the row of a call by the format and the row.
LEMMA FoundAlike ==
    ASSUME NEW c, NEW found, format' = format, FoundBy(c, found)
    PROVE  FoundBy(c, found)'
    BY ParsedAlike DEF FoundBy

LEMMA RecordedAlike ==
    ASSUME NEW c, NEW found, UNCHANGED << format, row >>, Recorded(c, found)
    PROVE  Recorded(c, found)'
<1>1. PICK r : r = row
    OBVIOUS
<1>2. FoundBy(c, found)' /\ Understood(c)' /\ Parsed(c)' = Parsed(c)
    BY FoundAlike, ParsedAlike DEF Recorded
<1> QED
    BY <1>1, <1>2 DEF Recorded

\* Creations in which no call is followed: the caches grow, the call is as it was.
LEMMA CachesGrow ==
    ASSUME IInv, cache \subseteq cache', cache' \subseteq table' \union game',
           UNCHANGED << format, call, stage, obj, todo, resolved, row >>
    PROVE  IInv'
<1>1. PICK c, e, r, T, U, ls, found :
        /\ c = call /\ e = Parsed(c) /\ r = row /\ T = cache /\ U = cache'
        /\ ls = Lookups(c.cmd, e) /\ found = resolved
    OBVIOUS
<1>a. Parsed(c)' = e /\ (Understood(c) => Understood(c)')
    BY <1>1, ParsedAlike
<1>2. FoundInCache'
    BY DEF IInv, FoundInCache
<1>3. LookupInv'
    BY <1>1, <1>a, MoreFound DEF IInv, LookupInv
<1>4. CallInv'
    BY <1>1, <1>a, FoundAlike, RecordedAlike DEF IInv, CallInv
<1>5. RowInv'
    BY <1>1, MoreFound DEF IInv, RowInv
<1> QED
    BY <1>2, <1>3, <1>4, <1>5 DEF IInv

\* The first half of a creation forgets nothing, and caches what it creates only.
LEMMA FirstHalfGrows ==
    ASSUME NEW entity, FirstHalf(entity), game = {}, cache \subseteq table \union game
    PROVE  cache \subseteq cache' /\ cache' \subseteq table' \union game'
    BY DEF FirstHalf

\* Every step keeps the invariant.
LEMMA CreateSceneryStep == ASSUME IInv, CreateScenery PROVE IInv'
<1>1. PICK entity : FirstHalf(entity) /\ game = {} /\
                    UNCHANGED << format, call, stage, obj, todo, resolved, row >>
    BY DEF CreateScenery
<1> QED
    BY <1>1, FirstHalfGrows, CachesGrow DEF IInv

LEMMA CreateStep == ASSUME IInv, Create PROVE IInv'
<1>a. PICK cmd \in Creates : \E c \in Calls(cmd) :
        /\ game = {} /\ stage = "idle" /\ stage' = "creating" /\ call' = c
        /\ Understood(c) /\ obj' = Parsed(c)
        /\ FirstHalf(EntityOf(cmd, Parsed(c))) /\ UNCHANGED << format, resolved, row >>
    BY DEF Create
<1>b. PICK c \in Calls(cmd) :
        /\ game = {} /\ stage = "idle" /\ stage' = "creating" /\ call' = c
        /\ Understood(c) /\ obj' = Parsed(c)
        /\ FirstHalf(EntityOf(cmd, Parsed(c))) /\ UNCHANGED << format, resolved, row >>
    BY <1>a
<1>1. PICK entity : FirstHalf(entity)
    BY <1>b
<1>2. cache \subseteq cache' /\ cache' \subseteq table' \union game'
    BY <1>1, <1>b, FirstHalfGrows DEF IInv
<1>3. c.cmd = cmd /\ Sent(c) /\ Understood(c)' /\ Parsed(c)' = Parsed(c)
    BY <1>b, CallsAreSent, ParsedAlike DEF AllCommands
<1>4. CallInv'
    BY <1>b, <1>3 DEF IInv, CallInv
<1> QED
    BY <1>b, <1>2, <1>4 DEF IInv, CallInv, FoundInCache, LookupInv, RowInv

LEMMA RefuseCreateStep == ASSUME IInv, RefuseCreate PROVE IInv'
<1>a. PICK cmd \in Creates : \E c \in Calls(cmd) :
        /\ stage = "idle" /\ stage' = "refused" /\ call' = c
        /\ UNCHANGED << format, cache, table, game, obj, resolved, row >>
    BY DEF RefuseCreate
<1>b. PICK c \in Calls(cmd) :
        /\ stage = "idle" /\ stage' = "refused" /\ call' = c
        /\ UNCHANGED << format, cache, table, game, obj, resolved, row >>
    BY <1>a
<1>1. Sent(c)
    BY CallsAreSent DEF AllCommands
<1> QED
    BY <1>b, <1>1 DEF IInv, FoundInCache, CallInv, LookupInv, RowInv

LEMMA CreateReturnsStep == ASSUME IInv, CreateReturns PROVE IInv'
<1>1. /\ cache \subseteq cache' /\ cache' \subseteq table' \union game'
      /\ UNCHANGED << format, call, obj, todo, resolved >>
    BY DEF CreateReturns, IInv
<1>2. CASE stage # "creating"
    BY <1>1, <1>2, CachesGrow DEF CreateReturns
<1>3. CASE stage = "creating"
  <2>1. PICK c, e, r : c = call /\ e = Parsed(c) /\ r = row'
    OBVIOUS
  <2>2. /\ stage' = "recorded" /\ r = RowOf(c.cmd, e) /\ resolved = {}
        /\ c.cmd \in Creates /\ Sent(c) /\ Understood(c) /\ format \in {"int", "float"}
    BY <1>3, <2>1 DEF CreateReturns, IInv, CallInv
  <2>3. References(c.cmd, r) = {} /\ r = RowOf(c.cmd, Completed(c.cmd, e, {}))
    BY <2>2, CreatesReferToNothing
  <2>4. Parsed(c)' = e /\ Understood(c)'
    BY <1>1, <2>1, <2>2, ParsedAlike
  <2>5. Recorded(c, {})'
    BY <1>1, <2>1, <2>2, <2>3, <2>4 DEF Recorded, FoundBy
  <2>6. CallInv'
    BY <1>1, <2>1, <2>2, <2>5 DEF CallInv
  <2>7. RowInv'
    BY <1>1, <2>1, <2>3 DEF RowInv, Among
  <2> QED
    BY <1>1, <2>2, <2>6, <2>7 DEF IInv, FoundInCache, LookupInv
<1> QED
    BY <1>2, <1>3

LEMMA SendStep == ASSUME IInv, Send PROVE IInv'
<1>a. PICK cmd \in Reports : \E c \in Calls(cmd) :
        /\ stage = "idle" /\ stage' = "sent" /\ call' = c
        /\ UNCHANGED << format, cache, table, game, resolved, row >>
    BY DEF Send
<1>1. PICK c \in Calls(cmd) :
        /\ stage = "idle" /\ stage' = "sent" /\ call' = c
        /\ UNCHANGED << format, cache, table, game, resolved, row >>
    BY <1>a
<1>2. Sent(c)
    BY CallsAreSent DEF AllCommands
<1> QED
    BY <1>1, <1>2 DEF IInv, FoundInCache, CallInv, LookupInv, RowInv

LEMMA TakeStep == ASSUME IInv, Take PROVE IInv'
<1>1. PICK c, e, ls : c = call /\ e = Parsed(c) /\ ls = Lookups(c.cmd, e)
    OBVIOUS
<1>2. /\ stage = "sent" /\ stage' = "lookup" /\ Understood(c) /\ obj' = e /\ todo' = ls
      /\ call' = c /\ UNCHANGED << format, cache, table, game, resolved, row >>
    BY <1>1 DEF Take
<1>3. Sent(c) /\ resolved = {} /\ row = None /\ format \in {"int", "float"}
    BY <1>1, <1>2 DEF IInv, CallInv
<1>4. Orderly(ls)
    BY <1>1, <1>2, <1>3, LookupsAreOrderly
<1>a. Parsed(c)' = e /\ Understood(c)'
    BY <1>1, <1>2, ParsedAlike
<1>5. LookupInv'
    BY <1>1, <1>2, <1>4, <1>a DEF LookupInv, Orderly
<1>6. CallInv'
    BY <1>2, <1>3, <1>a DEF CallInv, FoundBy
<1>7. FoundInCache' /\ RowInv'
    BY <1>1, <1>2 DEF IInv, FoundInCache, RowInv
<1> QED
    BY <1>2, <1>5, <1>6, <1>7 DEF IInv

\* A refusal changes nothing.
LEMMA RefusalStep ==
    ASSUME IInv, stage' = "refused", stage \in {"sent", "lookup"},
           UNCHANGED << format, cache, table, game, call, obj, todo, resolved, row >>
    PROVE  IInv'
    BY DEF IInv, FoundInCache, CallInv, LookupInv, RowInv

LEMMA LookUpStep == ASSUME IInv, LookUp PROVE IInv'
<1>1. PICK c, e, ls, l, T :
        c = call /\ e = Parsed(c) /\ ls = Lookups(c.cmd, e) /\ l = Head(todo) /\ T = cache
    OBVIOUS
<1> DEFINE found == {kind \in l.kinds : << kind, l.id >> \in T}
           new == [as |-> l.as, id |-> l.id,
                   kind |-> IF "soldier" \in found THEN "soldier" ELSE "vehicle"]
<1>2. /\ stage = "lookup" /\ todo # << >> /\ todo' = Tail(todo)
      /\ found # {} \/ ~l.must
      /\ resolved' = IF found = {} \/ l.as = "none" THEN resolved ELSE resolved \union {new}
      /\ UNCHANGED << format, cache, table, game, call, stage, obj, row >>
    BY <1>1 DEF LookUp
<1>3. /\ obj = e /\ Understood(c) /\ Sent(c) /\ todo \in Seq(Steps(ls))
      /\ \A k \in Steps(ls) : k.must => k \in Steps(todo) \/ IsFound(k, T)
      /\ FoundBy(c, resolved) /\ row = None /\ format \in {"int", "float"}
    BY <1>1, <1>2 DEF IInv, LookupInv, CallInv
<1>4. Orderly(ls)
    BY <1>1, <1>3, LookupsAreOrderly
<1>5. l \in Steps(ls) /\ Tail(todo) \in Seq(Steps(ls))
    BY <1>1, <1>2, <1>3
<1>6. ASSUME NEW k \in Steps(ls), k.must
      PROVE  k \in Steps(Tail(todo)) \/ IsFound(k, T)
  <2>1. k = l \/ k \notin Steps(todo) \/ k \in Steps(Tail(todo))
    BY <1>1, <1>2, <1>3, HeadAndTail
  <2>2. l.must => IsFound(l, T)
    BY <1>2 DEF IsFound
  <2> QED
    BY <1>3, <1>6, <2>1, <2>2
<1>7. ASSUME found # {}, l.as # "none"
      PROVE  << new.kind, new.id >> \in T
  <2>1. l.kinds = {"soldier", "vehicle"}
    BY <1>4, <1>5, <1>7 DEF Orderly
  <2> QED
    BY <1>7, <2>1
<1>b. new.as = l.as /\ new.id = l.id
    OBVIOUS
<1> HIDE DEF found, new
<1>8. FoundInCache'
    BY <1>1, <1>2, <1>7 DEF IInv, FoundInCache
<1>a. Parsed(c)' = e /\ Understood(c)'
    BY <1>1, <1>2, <1>3, ParsedAlike
<1>9. LookupInv'
    BY <1>1, <1>2, <1>3, <1>5, <1>6, <1>a DEF LookupInv
<1>10. FoundBy(c, resolved)'
  <2> SUFFICES ASSUME NEW f \in resolved'
               PROVE  \E k \in Steps(ls) : k.as = f.as /\ k.id = f.id
    BY <1>1, <1>2, <1>a DEF FoundBy
  <2>1. f \in resolved \/ f = new
    BY <1>2
  <2> QED
    BY <1>1, <1>3, <1>5, <1>b, <2>1 DEF FoundBy
<1>11. CallInv'
    BY <1>1, <1>2, <1>3, <1>10, <1>a DEF CallInv
<1>12. RowInv'
    BY <1>2, <1>3 DEF RowInv
<1> QED
    BY <1>2, <1>8, <1>9, <1>11, <1>12 DEF IInv

LEMMA RecordStep == ASSUME IInv, Record PROVE IInv'
<1>1. PICK c, e, found, T, ls, r :
        /\ c = call /\ e = Parsed(c) /\ found = resolved /\ T = cache
        /\ ls = Lookups(c.cmd, e) /\ r = RowOf(c.cmd, Completed(c.cmd, e, found))
    OBVIOUS
<1>2. /\ stage = "lookup" /\ stage' = "recorded" /\ todo = << >>
      /\ call' = c /\ UNCHANGED << format, cache, table, game, resolved >>
      /\ row' = RowOf(c.cmd, Completed(c.cmd, obj, found))
    BY <1>1 DEF Record
<1>3. /\ obj = e /\ Understood(c) /\ Sent(c) /\ FoundBy(c, found)
      /\ format \in {"int", "float"}
      /\ \A f \in found : << f.kind, f.id >> \in T
      /\ \A k \in Steps(ls) : k.must => k \in Steps(<< >>) \/ IsFound(k, T)
    BY <1>1, <1>2 DEF IInv, FoundInCache, LookupInv, CallInv
<1>a. row' = r
    BY <1>1, <1>2, <1>3
<1>4. Found(ls, T)
    BY <1>3, StepsAre DEF Found
<1>5. Among(References(c.cmd, r), T)
    BY <1>1, <1>3, <1>4, RowsRefer
<1>6. RowInv'
    BY <1>1, <1>2, <1>a, <1>5 DEF RowInv
<1>b. Parsed(c)' = e /\ Understood(c)' /\ FoundBy(c, found)'
    BY <1>1, <1>2, <1>3, ParsedAlike, FoundAlike
<1>7. Recorded(c, found)'
    BY <1>1, <1>2, <1>3, <1>a, <1>b DEF Recorded
<1>8. CallInv'
    BY <1>1, <1>2, <1>3, <1>7 DEF CallInv
<1> QED
    BY <1>2, <1>6, <1>8 DEF IInv, FoundInCache, LookupInv

\* The calls, their lookups and the caches agree in every reachable state: what a lookup found
\* stays cached, and a recorded row refers to it (the handlers of internal/worker).
THEOREM IntakeInvariant == Spec => []IInv
<1>1. Init => IInv
    BY StartOfIntake
<1>2. IInv /\ [Next]_vars => IInv'
  <2> SUFFICES ASSUME IInv, [Next]_vars
               PROVE  IInv'
    OBVIOUS
  <2>1. CASE UNCHANGED vars
    BY <2>1, CachesGrow DEF vars, IInv
  <2>2. CASE Next
    BY <2>2, CreateSceneryStep, CreateStep, RefuseCreateStep, CreateReturnsStep, SendStep,
       TakeStep, LookUpStep, RecordStep, RefusalStep DEF Next, RefuseParse, RefuseUnknown
  <2> QED
    BY <2>1, <2>2
<1> QED
    BY <1>1, <1>2, PTL DEF Spec

\* No row refers to an object the recording will not have: every object a handler
\* checked, the last damage source of a death included, was in the caches, and what
\* is in the caches the backend has, or is being given (worker/dispatch.go, the
\* validations before each Record; the create handlers, which the game waits for).
\* Where a column keeps a wide ID whole this is said of its low 16 bits, which are
\* what the handler looks up.
THEOREM ReferencesAreResolved == Spec => []ReferencesResolve
<1>1. IInv => ReferencesResolve
    BY DEF IInv, RowInv, Among, IsFound, ReferencesResolve
<1> QED
    BY <1>1, IntakeInvariant, PTL

\* Every column of a row holds what the game sent for it, if the column has room for
\* it: a conversion that accepts an argument keeps what it stands for, or its low 16
\* bits where the field is a uint16, however it is written; what a handler and the
\* backend add or rename does not put one argument in the place of another; who is
\* no player has no scores, and a trajectory of one point no positions
\* (internal/parser; worker/dispatch.go; model/convert/to_gorm.go).
THEOREM RowsAreTheirGames == Spec => []RowsAreTheGames
<1>1. IInv => RowsAreTheGames
    BY RowsHold DEF IInv, CallInv
<1> QED
    BY <1>1, IntakeInvariant, PTL

-----------------------------------------------------------------------------
(* The objects and their IDs *)

\* No soldier whose ID does not fit in 16 bits hides an object of another kind.
NoneHidden == \A w \in Wide : U16(w) \notin Vehicles \union Placed \union Markers

\* The IDs under which the caches may have an object of a kind.
IDsOf(kind) ==
    CASE kind = "soldier" -> {U16(m) : m \in Men}
      [] kind = "vehicle" -> Vehicles
      [] kind = "placed"  -> Placed
      [] kind = "marker"  -> Markers

Kinds == {"soldier", "vehicle", "placed", "marker"}

IsObject(f) == \E kind \in Kinds : \E id \in IDsOf(kind) : f = << kind, id >>

\* The IDs of the kinds of objects differ.
LEMMA KindsDiffer ==
    /\ Soldiers \intersect Vehicles = {} /\ Soldiers \intersect Placed = {}
    /\ Soldiers \intersect Markers = {} /\ Vehicles \intersect Placed = {}
    /\ Vehicles \intersect Markers = {} /\ Placed \intersect Markers = {}
<1> DEFINE kinds == << Soldiers, Vehicles, Placed, Markers >>
<1>1. \A i, j \in 1..4 : i # j => kinds[i] \intersect kinds[j] = {}
    BY IDsAreDistinct
<1>2. /\ kinds[1] = Soldiers /\ kinds[2] = Vehicles /\ kinds[3] = Placed
      /\ kinds[4] = Markers
    OBVIOUS
<1> HIDE DEF kinds
<1>3. /\ kinds[1] \intersect kinds[2] = {} /\ kinds[1] \intersect kinds[3] = {}
      /\ kinds[1] \intersect kinds[4] = {} /\ kinds[2] \intersect kinds[3] = {}
      /\ kinds[2] \intersect kinds[4] = {} /\ kinds[3] \intersect kinds[4] = {}
    BY <1>1
<1> QED
    BY <1>2, <1>3

\* An ID that fits in 16 bits is its low 16 bits.
LEMMA LowBitsOfIDs ==
    ASSUME NEW id \in Soldiers \union Vehicles \union Placed \union Markers
    PROVE  U16(id) = id
<1> DEFINE kinds == << Soldiers, Vehicles, Placed, Markers >>
<1>1. /\ kinds[1] \subseteq UInt16 /\ kinds[2] \subseteq UInt16
      /\ kinds[3] \subseteq UInt16 /\ kinds[4] \subseteq UInt16
  <2>1. \A i \in 1..4 : kinds[i] \subseteq UInt16
    BY IDsAreDistinct
  <2> HIDE DEF kinds
  <2> QED
    BY <2>1
<1>2. /\ kinds[1] = Soldiers /\ kinds[2] = Vehicles /\ kinds[3] = Placed
      /\ kinds[4] = Markers
    OBVIOUS
<1> HIDE DEF kinds
<1>3. id \in UInt16
    BY <1>1, <1>2
<1>4. id \in Int /\ 0 <= id /\ id < 65536
  <2>1. PICK m : m = 65535
    OBVIOUS
  <2>2. UInt16 = 0..m
    BY <2>1 DEF UInt16
  <2>3. m \in Nat /\ m < 65536
    BY <2>1
  <2> QED
    BY <1>3, <2>2, <2>3
<1> QED
    BY <1>4 DEF U16

\* An ID is of one kind of object.
LEMMA IDsAreOfOneKind ==
    ASSUME NoneHidden, NEW k \in Kinds, NEW j \in Kinds, NEW id \in IDsOf(k), id \in IDsOf(j)
    PROVE  k = j
<1>1. \A x \in {U16(m) : m \in Men} : x \notin Vehicles \union Placed \union Markers
  <2> SUFFICES ASSUME NEW m \in Men
               PROVE  U16(m) \notin Vehicles \union Placed \union Markers
    OBVIOUS
  <2>1. CASE m \in Soldiers
    BY <2>1, KindsDiffer, LowBitsOfIDs
  <2>2. CASE m \in Wide
    BY <2>2 DEF NoneHidden
  <2> QED
    BY <2>1, <2>2 DEF Men
<1> QED
    BY <1>1, KindsDiffer DEF Kinds, IDsOf

\* The IDs as the caches have them.
LEMMA IDsOfMen == ASSUME NEW m \in Men PROVE U16(m) \in IDsOf("soldier")
    BY DEF IDsOf

LEMMA IDsOfOthers ==
    /\ \A id \in Vehicles : U16(id) = id /\ U16(id) \in IDsOf("vehicle")
    /\ \A id \in Placed : U16(id) = id /\ U16(id) \in IDsOf("placed")
    /\ \A id \in Markers : U16(id) = id /\ U16(id) \in IDsOf("marker")
    BY LowBitsOfIDs DEF IDsOf

-----------------------------------------------------------------------------
(* Calls in good order *)

\* The arguments that name objects.
LEMMA NamingArguments ==
    ASSUME NEW c, c.cmd \in AllCommands, NEW k \in 1..Len(Commands[c.cmd].args)
    PROVE  LET of == Commands[c.cmd]
               name == of.args[k]
           IN  /\ name = of.self =>
                     name \notin {"hitParts", "positions"} /\ ValueAt(c, k) = c.self
               /\ name = of.other =>
                     name \notin {"hitParts", "positions"} /\ ValueAt(c, k) = c.other
<1> DEFINE of == Commands[c.cmd]
           name == of.args[k]
           player == IF c.self \in Players THEN 1 ELSE 0
<1>1. of.self = of.other => of.self = "none"
    BY TheIDs DEF IDsFit
<1>2. {of.self, of.other} \intersect {"hitParts", "positions", "isPlayer"} = {}
    BY TheIDs DEF IDsFit
<1>3. name # "none"
    BY TheArguments DEF ArgumentsDiffer
<1>4. ValueAt(c, k) = CASE name = of.self -> c.self
                        [] name = of.other -> c.other
                        [] name = "hitParts" -> c.hits
                        [] name = "positions" -> Trajectory(c)
                        [] name = "isPlayer" -> player
                        [] OTHER -> c.size + k
    BY DEF ValueAt
<1> HIDE DEF name, of, player
<1> QED
    BY <1>1, <1>2, <1>3, <1>4 DEF name, of

\* A call without a flaw.
LEMMA WholeIsWhole ==
    ASSUME NEW c, c.flaw = Whole
    PROVE  c.flaw.as = "whole" /\ \A k : ~Flawed(c, k)
    BY DEF Whole, Flawed

\* A call in good order is understood.
LEMMA WholeIsUnderstood ==
    ASSUME NEW c, Sent(c), c.flaw = Whole, format \in {"int", "float"}
    PROVE  Understood(c)
<1> DEFINE of == Commands[c.cmd]
<1>1. c.flaw.as # "cut" /\ \A k : ~Flawed(c, k)
    BY WholeIsWhole
<1>2. of.parse.needs <= Len(Args(c))
  <2>1. Len(of.args) \in Nat /\ of.parse.needs \in 0..Len(of.args)
    BY TheReads DEF Sent, ReadsSuit
  <2>2. 1 \in Nat \ {0}
    OBVIOUS
  <2>3. Len(Args(c)) = Len(of.args)
    BY <1>1, <2>2, ArgumentIs
  <2> QED
    BY <2>1, <2>3
<1>3. ASSUME NEW f \in DOMAIN of.parse.reads
      PROVE  Parsed(c)[f] # Error
  <2> DEFINE r == of.parse.reads[f]
  <2>1. CASE Skipped(r, Args(c))
    <3>1. Parsed(c)[f] \in {None, Default}
      <4>1. Parsed(c)[f] = IF Len(Args(c)) < r.from THEN None
                           ELSE IF Skipped(r, Args(c)) THEN Default
                           ELSE Convert(r.as, Args(c)[r.at + 1])
        BY ParseReturns DEF Parsed
      <4> HIDE DEF r
      <4> QED
        BY <2>1, <4>1
    <3> QED
      BY <3>1, DistinctOutcomes
  <2>2. CASE ~Skipped(r, Args(c))
    BY <1>1, <2>2, FieldStands
  <2> QED
    BY <2>1, <2>2
<1> QED
    BY <1>2, <1>3 DEF Understood, Parses, Parsed

\* A field of it that names an object names the object of the call.
LEMMA WholeNames ==
    ASSUME NEW c, Sent(c), c.flaw = Whole, format \in {"int", "float"},
           NEW f \in DOMAIN Commands[c.cmd].parse.reads,
           Commands[c.cmd].parse.reads[f].as \notin ForIntegers,
           Commands[c.cmd].parse.reads[f].asked = Always
    PROVE  LET of == Commands[c.cmd]
               r == of.parse.reads[f]
               name == of.args[r.at + 1]
               Is(x) == /\ Stands(r.as, Parsed(c)[f], x)
                        /\ r.as = "Uint16" => Parsed(c)[f] = U16(x)
           IN  /\ name = of.self => Is(c.self)
               /\ name = of.other => Is(c.other)
<1> DEFINE of == Commands[c.cmd]
           r == of.parse.reads[f]
           k == r.at + 1
           name == of.args[k]
<1>1. c.flaw.as # "cut" /\ ~Flawed(c, k) /\ ~Skipped(r, Args(c))
    BY WholeIsWhole DEF Skipped
<1>2. c.cmd \in AllCommands /\ k \in 1..Len(of.args)
    BY TheReads DEF Sent, ReadsSuit
<1>3. /\ r.as = "Uint16" => Parsed(c)[f] = U16(ValueAt(c, k))
      /\ name \notin {"hitParts", "positions"} => Stands(r.as, Parsed(c)[f], ValueAt(c, k))
    BY <1>1, FieldStands
<1>4. /\ name = of.self => name \notin {"hitParts", "positions"} /\ ValueAt(c, k) = c.self
      /\ name = of.other => name \notin {"hitParts", "positions"} /\ ValueAt(c, k) = c.other
    BY <1>2, NamingArguments
<1> HIDE DEF of, r, k, name
<1>5. /\ name = of.self => /\ Stands(r.as, Parsed(c)[f], c.self)
                           /\ r.as = "Uint16" => Parsed(c)[f] = U16(c.self)
      /\ name = of.other => /\ Stands(r.as, Parsed(c)[f], c.other)
                            /\ r.as = "Uint16" => Parsed(c)[f] = U16(c.other)
    BY <1>3, <1>4
<1> QED
    BY <1>5 DEF of, r, k, name

\* A lookup that must succeed is for an object the call names, of a kind that it finds.
NamedBy(c, l) ==
    \E x \in {c.self, c.other} :
        /\ x # -1 /\ l.id = U16(x)
        /\ \E kind \in l.kinds \intersect Kinds : l.id \in IDsOf(kind)

LEMMA OneStep ==
    ASSUME NEW ls, NEW m, ls = << m >>, NEW l \in Steps(ls)
    PROVE  l = m
<1>1. Steps(<< m >>) = {m}
    BY DEF Steps
<1> QED
    BY <1>1

\* A field that is the ID of the object the command is about.
ReadsSelf(of, f, as) ==
    /\ f \in DOMAIN of.parse.reads /\ of.parse.reads[f].as = as
    /\ of.parse.reads[f].asked = Always
    /\ of.args[of.parse.reads[f].at + 1] = of.self

\* The parsers read the ID of the object a call is about.
LEMMA IDsAreRead ==
    /\ ReadsSelf(Commands[":SOLDIER:STATE:"], "soldierID", "Uint16")
    /\ ReadsSelf(Commands[":VEHICLE:STATE:"], "vehicleID", "Uint16")
    /\ ReadsSelf(Commands[":PLACED:EVENT:"], "placedID", "Uint16")
    /\ ReadsSelf(Commands[":MARKER:STATE:"], "markerName", "Text")
    /\ ReadsSelf(Commands[":MARKER:DELETE:"], "markerName", "Text")
    /\ ReadsSelf(Commands[":ACE3:DEATH:"], "soldierID", "Uint")
    /\ ReadsSelf(Commands[":ACE3:UNCONSCIOUS:"], "soldierID", "Uint")
<1> USE TheCommands DEF Alone, Does, At, ReadsSelf
<1>1. ReadsSelf(Commands[":SOLDIER:STATE:"], "soldierID", "Uint16")
    BY DEF SOLDIER_STATE, ParseSoldierState
<1>2. ReadsSelf(Commands[":VEHICLE:STATE:"], "vehicleID", "Uint16")
    BY DEF VEHICLE_STATE, ParseVehicleState
<1>3. ReadsSelf(Commands[":PLACED:EVENT:"], "placedID", "Uint16")
    BY DEF PLACED_EVENT, ParsePlacedObjectEvent
<1>4. ReadsSelf(Commands[":MARKER:STATE:"], "markerName", "Text")
    BY DEF MARKER_STATE, ParseMarkerMove
<1>5. ReadsSelf(Commands[":MARKER:DELETE:"], "markerName", "Text")
    BY DEF MARKER_DELETE, ParseMarkerDelete
<1>6. ReadsSelf(Commands[":ACE3:DEATH:"], "soldierID", "Uint")
    BY DEF ACE3_DEATH, ParseAce3DeathEvent
<1>7. ReadsSelf(Commands[":ACE3:UNCONSCIOUS:"], "soldierID", "Uint")
    BY DEF ACE3_UNCONSCIOUS, ParseAce3UnconsciousEvent
<1> HIDE DEF ReadsSelf
<1> QED
    BY <1>1, <1>2, <1>3, <1>4, <1>5, <1>6, <1>7

\* A call in good order has the ID of its object in the field it is read to.
LEMMA SelfIsRead ==
    ASSUME NEW c, Sent(c), c.flaw = Whole, format \in {"int", "float"}, NEW f,
           NEW as \in {"Uint16", "Uint", "Text"}, ReadsSelf(Commands[c.cmd], f, as)
    PROVE  /\ Stands(as, Parsed(c)[f], c.self)
           /\ as = "Uint16" => Parsed(c)[f] = U16(c.self)
<1> DEFINE of == Commands[c.cmd]
           r == of.parse.reads[f]
<1>1. /\ f \in DOMAIN of.parse.reads /\ r.as = as /\ of.args[r.at + 1] = of.self
      /\ r.as \notin ForIntegers /\ r.asked = Always
    BY DEF ReadsSelf, ForIntegers
<1>2. /\ Stands(as, Parsed(c)[f], c.self)
      /\ r.as = "Uint16" => Parsed(c)[f] = U16(c.self)
    BY <1>1, WholeNames
<1> QED
    BY <1>1, <1>2

\* A death names what has caused it.
LEMMA SourceIsRead ==
    LET of == Commands[":ACE3:DEATH:"]
        r == of.parse.reads["lastDamageSourceID"]
    IN  /\ "lastDamageSourceID" \in DOMAIN of.parse.reads /\ r.as = "Optional"
        /\ r.asked = Always
        /\ of.args[r.at + 1] = of.other
    BY TheCommands DEF ACE3_DEATH, Does, At, ParseAce3DeathEvent

\* The objects these commands are about.
LEMMA TheyAreAbout ==
    /\ Commands[":SOLDIER:STATE:"].selves = Men
    /\ Commands[":VEHICLE:STATE:"].selves = Vehicles
    /\ Commands[":PLACED:EVENT:"].selves = Placed
    /\ Commands[":MARKER:STATE:"].selves = Markers
    /\ Commands[":MARKER:DELETE:"].selves = Markers
    /\ Commands[":ACE3:DEATH:"].selves = Men
    /\ Commands[":ACE3:DEATH:"].others = Entities \union {-1}
    /\ Commands[":ACE3:UNCONSCIOUS:"].selves = Men
    BY TheCommands DEF SOLDIER_STATE, VEHICLE_STATE, PLACED_EVENT, MARKER_STATE,
       MARKER_DELETE, ACE3_DEATH, ACE3_UNCONSCIOUS, Alone, Does

\* The field stands for an object: it is the ID.
LEMMA StandsForObject ==
    ASSUME NEW x, NEW v \in Nat, NEW as \in {"Uint", "Text", "Optional"}, Stands(as, x, v)
    PROVE  x = v
<1>1. v # -1
    OBVIOUS
<1>2. as \notin To16Bits
    BY DEF To16Bits
<1>3. Capacity(as) = Int
    BY DEF Capacity
<1>4. v \in Capacity(as)
    BY <1>3
<1> QED
    BY <1>1, <1>2, <1>4 DEF Stands

\* A lookup for the object a call is about.
LEMMA SelfIsNamed ==
    ASSUME NEW c, NEW kind \in Kinds, NEW kinds, kind \in kinds, NEW id,
           id = U16(c.self), id \in IDsOf(kind), c.self \in Nat
    PROVE  NamedBy(c, Must(kinds, id))
<1>1. Must(kinds, id).id = id /\ Must(kinds, id).kinds = kinds
    BY MustIs
<1> QED
    BY <1>1 DEF NamedBy

\* A lookup for the low bits of the other object is one for it.
LEMMA OtherIsNamed ==
    ASSUME NEW c, NEW kind \in Kinds, NEW kinds, kind \in kinds, NEW id,
           id = U16(c.other), id \in IDsOf(kind), c.other \in Nat
    PROVE  NamedBy(c, Must(kinds, id))
<1>1. Must(kinds, id).id = id /\ Must(kinds, id).kinds = kinds
    BY MustIs
<1> QED
    BY <1>1 DEF NamedBy

\* A call in good order looks up what it names: its object, or the other one.
LEMMA LookupsAreNamed ==
    ASSUME NEW c, Sent(c), c.flaw = Whole, format \in {"int", "float"},
           NEW l \in Steps(Lookups(c.cmd, Parsed(c))), l.must
    PROVE  NamedBy(c, l)
<1> DEFINE e == Parsed(c)
           ls == Lookups(c.cmd, e)
           of == Commands[c.cmd]
<1>1. c.self \in of.selves /\ c.other \in of.others
    BY DEF Sent
<1>2. CASE c.cmd = ":SOLDIER:STATE:"
  <2>1. e.soldierID = U16(c.self) /\ c.self \in Men
    BY <1>1, <1>2, IDsAreRead, TheyAreAbout, SelfIsRead
  <2>2. l = Must({"soldier"}, e.soldierID)
    <3>1. ls = << Must({"soldier"}, e.soldierID) >>
      BY <1>2 DEF Lookups
    <3>2. l \in Steps(ls)
      OBVIOUS
    <3> HIDE DEF ls
    <3> QED
      BY <3>1, <3>2, OneStep
  <2> QED
    BY <2>1, <2>2, IDsOfMen, IDsAreNumbers, SelfIsNamed DEF Kinds
<1>3. CASE c.cmd = ":VEHICLE:STATE:"
  <2>1. e.vehicleID = U16(c.self) /\ c.self \in Vehicles
    BY <1>1, <1>3, IDsAreRead, TheyAreAbout, SelfIsRead
  <2>2. l = Must({"vehicle"}, e.vehicleID)
    <3>1. ls = << Must({"vehicle"}, e.vehicleID) >>
      BY <1>3 DEF Lookups
    <3>2. l \in Steps(ls)
      OBVIOUS
    <3> HIDE DEF ls
    <3> QED
      BY <3>1, <3>2, OneStep
  <2> QED
    BY <2>1, <2>2, IDsOfOthers, IDsAreNumbers, SelfIsNamed DEF Kinds
<1>4. CASE c.cmd = ":PLACED:EVENT:"
  <2>1. e.placedID = U16(c.self) /\ c.self \in Placed
    BY <1>1, <1>4, IDsAreRead, TheyAreAbout, SelfIsRead
  <2>2. l = Must({"placed"}, e.placedID)
    <3>1. ls = << Must({"placed"}, e.placedID) >>
      BY <1>4 DEF Lookups
    <3>2. l \in Steps(ls)
      OBVIOUS
    <3> HIDE DEF ls
    <3> QED
      BY <3>1, <3>2, OneStep
  <2> QED
    BY <2>1, <2>2, IDsOfOthers, IDsAreNumbers, SelfIsNamed DEF Kinds
<1>5. CASE c.cmd \in {":MARKER:STATE:", ":MARKER:DELETE:"}
  <2>1. Stands("Text", e.markerName, c.self) /\ c.self \in Markers
    BY <1>1, <1>5, IDsAreRead, TheyAreAbout, SelfIsRead
  <2>2. e.markerName = c.self /\ c.self = U16(c.self)
    BY <2>1, IDsOfOthers, IDsAreNumbers, StandsForObject
  <2>3. l = Must({"marker"}, e.markerName)
    <3>1. ls = << Must({"marker"}, e.markerName) >>
      BY <1>5 DEF Lookups
    <3>2. l \in Steps(ls)
      OBVIOUS
    <3> HIDE DEF ls
    <3> QED
      BY <3>1, <3>2, OneStep
  <2> QED
    BY <2>1, <2>2, <2>3, IDsOfOthers, IDsAreNumbers, SelfIsNamed DEF Kinds
<1>6. CASE c.cmd \in {":EVENT:CHAT:", ":EVENT:RADIO:"}
  <2>1. Understood(c)
    BY WholeIsUnderstood
  <2>2. e.soldierID = None \/ (e.soldierID = c.self /\ c.self \in Men)
    BY <1>6, <2>1, SenderIsRead
  <2>3. ls = MustIfSet({"soldier"}, e.soldierID)
    BY <1>6 DEF Lookups
  <2>4. e.soldierID # None /\ l = Must({"soldier"}, U16(e.soldierID))
    <3> DEFINE sender == Must({"soldier"}, U16(e.soldierID))
    <3>1. ls = IF e.soldierID = None THEN << >> ELSE << sender >>
      BY <2>3 DEF MustIfSet
    <3>2. l \in Steps(ls)
      OBVIOUS
    <3> HIDE DEF ls, sender
    <3>3. e.soldierID # None
      BY <3>1, <3>2, StepsAre
    <3>4. l = sender
      BY <3>1, <3>2, <3>3, OneStep
    <3> QED
      BY <3>3, <3>4 DEF sender
  <2> QED
    BY <2>2, <2>4, IDsOfMen, IDsAreNumbers, SelfIsNamed DEF Kinds
<1>7. CASE c.cmd = ":ACE3:DEATH:"
  <2> DEFINE first == Must({"soldier"}, U16(e.soldierID))
             other == Must({"soldier", "vehicle"}, U16(e.lastDamageSourceID))
             rest  == MustIfSet({"soldier", "vehicle"}, e.lastDamageSourceID)
  <2>1. /\ Stands("Uint", e.soldierID, c.self) /\ c.self \in Men
        /\ Stands("Optional", e.lastDamageSourceID, c.other) /\ c.other \in Entities \union {-1}
    <3>1. Stands("Uint", e.soldierID, c.self)
      BY <1>7, IDsAreRead, SelfIsRead
    <3>2. Stands("Optional", e.lastDamageSourceID, c.other)
      <4> DEFINE r == of.parse.reads["lastDamageSourceID"]
      <4>1. /\ "lastDamageSourceID" \in DOMAIN of.parse.reads /\ r.as = "Optional"
            /\ r.asked = Always /\ of.args[r.at + 1] = of.other
        BY <1>7, SourceIsRead
      <4>2. r.as \notin ForIntegers
        BY <4>1 DEF ForIntegers
      <4>3. Stands(r.as, Parsed(c)["lastDamageSourceID"], c.other)
        BY <4>1, <4>2, WholeNames
      <4> QED
        BY <4>1, <4>3
    <3> QED
      BY <1>1, <1>7, <3>1, <3>2, TheyAreAbout
  <2>2. ls = << first >> \o rest
    BY <1>7 DEF Lookups
  <2>3. rest = IF e.lastDamageSourceID = None THEN << >> ELSE << other >>
    BY DEF MustIfSet
  <2>4. U16(e.soldierID) = U16(c.self)
    BY <2>1, IDsAreNumbers, StandsForObject
  <2>5. NamedBy(c, first)
    BY <2>1, <2>4, IDsOfMen, IDsAreNumbers, SelfIsNamed DEF Kinds
  <2>6. ASSUME e.lastDamageSourceID # None
        PROVE  NamedBy(c, other)
    <3>1. c.other \in Entities
      BY <2>1, <2>6 DEF Stands
    <3>2. U16(e.lastDamageSourceID) = U16(c.other)
      BY <2>1, <3>1, IDsAreNumbers, StandsForObject
    <3>3. U16(c.other) \in IDsOf("soldier") \/ U16(c.other) \in IDsOf("vehicle")
      BY <3>1, IDsOfMen, IDsOfOthers DEF Entities
    <3> QED
      BY <3>1, <3>2, <3>3, IDsAreNumbers, OtherIsNamed DEF Kinds
  <2>7. /\ << first >> \o << >> = << first >>
        /\ << first >> \o << other >> = << first, other >>
    BY OneAndAnother
  <2>a. l \in Steps(ls)
    OBVIOUS
  <2> HIDE DEF ls, first, other, rest
  <2>8. l = first \/ (e.lastDamageSourceID # None /\ l = other)
    <3>1. CASE e.lastDamageSourceID = None
      BY <2>a, <2>2, <2>3, <2>7, <3>1, OneStep
    <3>2. CASE e.lastDamageSourceID # None
      <4>1. ls = << first, other >>
        BY <2>2, <2>3, <2>7, <3>2
      <4>2. Steps(<< first, other >>) = {first, other}
        BY StepsAre
      <4> QED
        BY <2>a, <3>2, <4>1, <4>2
    <3> QED
      BY <3>1, <3>2
  <2> QED
    BY <2>5, <2>6, <2>8
<1>8. CASE c.cmd = ":ACE3:UNCONSCIOUS:"
  <2>1. Stands("Uint", e.soldierID, c.self) /\ c.self \in Men
    BY <1>1, <1>8, IDsAreRead, TheyAreAbout, SelfIsRead
  <2>2. U16(e.soldierID) = U16(c.self)
    BY <2>1, IDsAreNumbers, StandsForObject
  <2>3. l = Must({"soldier"}, U16(e.soldierID))
    <3>1. ls = << Must({"soldier"}, U16(e.soldierID)) >>
      BY <1>8 DEF Lookups
    <3>2. l \in Steps(ls)
      OBVIOUS
    <3> HIDE DEF ls
    <3> QED
      BY <3>1, <3>2, OneStep
  <2> QED
    BY <2>1, <2>2, <2>3, IDsOfMen, IDsAreNumbers, SelfIsNamed DEF Kinds
<1>9. CASE c.cmd \in {":EVENT:KILL:", ":EVENT:PROJECTILE:"}
  <2>1. \E as, id : l = Classify(as, id)
    <3>1. CASE c.cmd = ":EVENT:KILL:"
      <4> DEFINE victim == Classify("victim", e.victimID)
                 killer == Classify("killer", e.killerID)
      <4>1. ls = << victim, killer >>
        BY <3>1 DEF Lookups
      <4>2. l \in Steps(ls)
        OBVIOUS
      <4> HIDE DEF ls, victim, killer
      <4>3. Steps(<< victim, killer >>) = {victim, killer}
        BY StepsAre
      <4>4. l = victim \/ l = killer
        BY <4>1, <4>2, <4>3
      <4> QED
        BY <4>4 DEF victim, killer
    <3>2. CASE c.cmd = ":EVENT:PROJECTILE:"
      <4>1. ls = [i \in DOMAIN e.hitParts |-> Classify("hit", e.hitParts[i])]
        BY <3>2 DEF Lookups
      <4> QED
        BY <4>1 DEF Steps
    <3> QED
      BY <1>9, <3>1, <3>2
  <2> QED
    BY <2>1, ClassifyIs
<1>10. CASE c.cmd \notin {":SOLDIER:STATE:", ":VEHICLE:STATE:", ":PLACED:EVENT:",
             ":MARKER:STATE:", ":MARKER:DELETE:", ":EVENT:CHAT:", ":EVENT:RADIO:",
             ":ACE3:DEATH:", ":ACE3:UNCONSCIOUS:", ":EVENT:KILL:", ":EVENT:PROJECTILE:"}
  <2>1. ls = << >>
    BY <1>10 DEF Lookups
  <2> QED
    BY <2>1, StepsAre
<1> QED
    BY <1>2, <1>3, <1>4, <1>5, <1>6, <1>7, <1>8, <1>9, <1>10

-----------------------------------------------------------------------------
(* The objects of the caches *)

\* Where a create command has the ID of its object.
LEMMA IDsOfCreates ==
    LET Has(of, f, i, as) ==
            /\ i + 1 \in 1..Len(of.args) /\ of.args[i + 1] = of.self
            /\ of.parse.needs >= i + 1
            /\ f \in DOMAIN of.parse.reads /\ of.parse.reads[f].as = as
            /\ of.parse.reads[f].at = i /\ of.parse.reads[f].from = 0
            /\ of.parse.reads[f].asked = Always
    IN  /\ Has(Commands[":SOLDIER:CREATE:"], "id", 1, "Uint16")
        /\ Has(Commands[":VEHICLE:CREATE:"], "id", 1, "Uint16")
        /\ Has(Commands[":PLACED:CREATE:"], "id", 1, "Uint16")
        /\ Has(Commands[":MARKER:CREATE:"], "markerName", 0, "Text")
<1> DEFINE Has(of, f, i, as) ==
            /\ i + 1 \in 1..Len(of.args) /\ of.args[i + 1] = of.self
            /\ of.parse.needs >= i + 1
            /\ f \in DOMAIN of.parse.reads /\ of.parse.reads[f].as = as
            /\ of.parse.reads[f].at = i /\ of.parse.reads[f].from = 0
            /\ of.parse.reads[f].asked = Always
<1> USE TheCommands DEF Alone, Does, At
<1>1. Has(Commands[":SOLDIER:CREATE:"], "id", 1, "Uint16")
    BY DEF SOLDIER_CREATE, ParseSoldier
<1>2. Has(Commands[":VEHICLE:CREATE:"], "id", 1, "Uint16")
    BY DEF VEHICLE_CREATE, ParseVehicle
<1>3. Has(Commands[":PLACED:CREATE:"], "id", 1, "Uint16")
    BY DEF PLACED_CREATE, ParsePlacedObject
<1>4. Has(Commands[":MARKER:CREATE:"], "markerName", 0, "Text")
    BY DEF MARKER_CREATE, ParseMarkerCreate
<1> QED
    BY <1>1, <1>2, <1>3, <1>4

\* Which IDs the CREATE commands are sent with.
LEMMA TheyCreate ==
    /\ Commands[":SOLDIER:CREATE:"].selves = Men
    /\ Commands[":VEHICLE:CREATE:"].selves = Vehicles
    /\ Commands[":PLACED:CREATE:"].selves = Placed
    /\ Commands[":MARKER:CREATE:"].selves = Markers
    BY TheCommands DEF SOLDIER_CREATE, VEHICLE_CREATE, PLACED_CREATE, MARKER_CREATE,
       Alone, Does

\* The arguments of a call are its values, up to the one that is cut off.
Listed(c) ==
    /\ Len(Args(c)) \in Nat
    /\ \A k \in Nat \ {0} : k <= Len(Args(c)) => Args(c)[k].v = ValueAt(c, k)

\* The arguments of a call that was sent are its values.
LEMMA SentIsListed == ASSUME NEW c, Sent(c) PROVE Listed(c)
<1>1. 1 \in Nat \ {0}
    OBVIOUS
<1> QED
    BY <1>1, ArgumentIs DEF Listed

\* What was created before the call is in good order.
LEMMA SceneryIs ==
    ASSUME NEW c \in Scenery
    PROVE  /\ c.cmd \in Creates /\ c.self \in Commands[c.cmd].selves
           /\ c.flaw = Whole
<1>1. PICK p : /\ c = Plain(p[1], p[2])
               /\ \/ p[1] = ":SOLDIER:CREATE:" /\ p[2] \in Soldiers
                  \/ p[1] = ":VEHICLE:CREATE:" /\ p[2] \in Vehicles
                  \/ p[1] = ":PLACED:CREATE:" /\ p[2] \in Placed
                  \/ p[1] = ":MARKER:CREATE:" /\ p[2] \in Markers
    BY DEF Scenery
<1>2. c.cmd = p[1] /\ c.self = p[2] /\ c.flaw = Whole
    BY <1>1 DEF Plain
<1> QED
    BY <1>1, <1>2, TheyCreate DEF Creates, Men

LEMMA SceneryIsListed == ASSUME NEW c \in Scenery PROVE Listed(c)
<1> DEFINE names == Commands[c.cmd].args
<1>1. c.flaw.as # "cut"
    BY SceneryIs, WholeIsWhole
<1>2. Len(names) \in Nat
    BY SceneryIs, TheReads DEF ReadsSuit, AllCommands
<1>3. Args(c) = [k \in 1..Len(names) |->
                    [form |-> IF Flawed(c, k) THEN c.flaw.as ELSE Form(names[k]),
                     v |-> ValueAt(c, k)]]
    BY <1>1 DEF Args
<1>4. Len(Args(c)) = Len(names)
    BY <1>2, <1>3
<1>5. \A k \in 1..Len(names) : Args(c)[k].v = ValueAt(c, k)
    BY <1>3
<1> HIDE DEF names
<1> QED
    BY <1>2, <1>4, <1>5 DEF Listed

\* An ID that is understood is the one the game gave, cut to 16 bits.
LEMMA UintIs ==
    ASSUME NEW a, a.v \in Nat, Convert("Uint16", a) # Error
    PROVE  Convert("Uint16", a) = U16(a.v)
<1>1. Convert("Uint16", a) = Uint16(a)
    BY DEF Convert
<1>2. parseUintFromFloat(a) \in {Error, a.v}
    BY DEF parseUintFromFloat
<1> QED
    BY <1>1, <1>2 DEF Uint16

\* What a create command puts into a cache is an object of the mission.
LEMMA EntitiesAreObjects ==
    ASSUME NEW c, c.cmd \in Creates, c.self \in Commands[c.cmd].selves, Listed(c),
           Understood(c)
    PROVE  IsObject(EntityOf(c.cmd, Parsed(c)))
<1> DEFINE of == Commands[c.cmd]
           e  == Parsed(c)
<1>1. /\ of.parse.needs <= Len(Args(c)) /\ Len(Args(c)) \in Nat
      /\ \A f \in DOMAIN of.parse.reads : e[f] # Error
    BY DEF Listed, Understood, Parses, Parsed
<1>2. of.parse.needs \in Nat /\ c.cmd \in AllCommands /\ Len(of.args) \in Nat
    BY TheReads DEF ReadsSuit, AllCommands
<1>3. CASE c.cmd = ":MARKER:CREATE:"
  <2>1. /\ 1 \in 1..Len(of.args) /\ of.args[1] = of.self /\ of.parse.needs >= 1
        /\ "markerName" \in DOMAIN of.parse.reads
        /\ of.parse.reads["markerName"].as = "Text"
        /\ of.parse.reads["markerName"].at = 0 /\ of.parse.reads["markerName"].from = 0
        /\ of.parse.reads["markerName"].asked = Always
    BY <1>3, IDsOfCreates
  <2>2. Args(c)[1].v = c.self
    <3>1. ValueAt(c, 1) = c.self
      BY <1>2, <2>1, NamingArguments
    <3>2. 1 <= Len(Args(c)) /\ 1 \in Nat \ {0}
      BY <1>1, <1>2, <2>1
    <3> QED
      BY <3>1, <3>2 DEF Listed
  <2>3. e["markerName"] = Convert("Text", Args(c)[1])
    BY <1>1, <2>1, ParseReturns DEF Parsed
  <2>4. e.markerName = c.self
    BY <2>2, <2>3 DEF Convert
  <2>5. c.self \in Markers
    BY <1>3, TheyCreate
  <2>6. EntityOf(c.cmd, e) = << "marker", e.markerName >>
    BY <1>3 DEF EntityOf, NewInto
  <2> QED
    BY <2>4, <2>5, <2>6 DEF IsObject, Kinds, IDsOf
<1>4. CASE c.cmd # ":MARKER:CREATE:"
  <2>1. /\ 2 \in 1..Len(of.args) /\ of.args[2] = of.self /\ of.parse.needs >= 2
        /\ "id" \in DOMAIN of.parse.reads
        /\ of.parse.reads["id"].as = "Uint16"
        /\ of.parse.reads["id"].at = 1 /\ of.parse.reads["id"].from = 0
        /\ of.parse.reads["id"].asked = Always
    BY <1>4, IDsOfCreates DEF Creates
  <2>2. Args(c)[2].v = c.self
    <3>1. ValueAt(c, 2) = c.self
      BY <1>2, <2>1, NamingArguments
    <3>2. 2 <= Len(Args(c)) /\ 2 \in Nat \ {0}
      BY <1>1, <1>2, <2>1
    <3> QED
      BY <3>1, <3>2 DEF Listed
  <2>3. e["id"] = Convert("Uint16", Args(c)[2])
    BY <1>1, <2>1, ParseReturns DEF Parsed
  <2>4. c.self \in Nat
    BY <1>4, TheyCreate, IDsAreNumbers DEF Creates
  <2>5. e.id = U16(c.self)
    BY <1>1, <2>1, <2>2, <2>3, <2>4, UintIs
  <2>6. CASE c.cmd = ":SOLDIER:CREATE:"
    <3>1. c.self \in Men /\ EntityOf(c.cmd, e) = << "soldier", e.id >>
      BY <2>6, TheyCreate DEF EntityOf, NewInto
    <3> QED
      BY <2>5, <3>1, IDsOfMen DEF IsObject, Kinds
  <2>7. CASE c.cmd = ":VEHICLE:CREATE:"
    <3>1. c.self \in Vehicles /\ EntityOf(c.cmd, e) = << "vehicle", e.id >>
      BY <2>7, TheyCreate DEF EntityOf, NewInto
    <3> QED
      BY <2>5, <3>1, IDsOfOthers DEF IsObject, Kinds
  <2>8. CASE c.cmd = ":PLACED:CREATE:"
    <3>1. c.self \in Placed /\ EntityOf(c.cmd, e) = << "placed", e.id >>
      BY <2>8, TheyCreate DEF EntityOf, NewInto
    <3> QED
      BY <2>5, <3>1, IDsOfOthers DEF IsObject, Kinds
  <2> QED
    BY <1>4, <2>6, <2>7, <2>8 DEF Creates
<1> QED
    BY <1>3, <1>4

-----------------------------------------------------------------------------
(* What becomes of a call in good order *)

ObjectsInv == \A f \in cache \union game : IsObject(f)

\* What a lookup had to find out of the objects, it has found out.
Settled(l, found, objects) ==
    l.as # "none" =>
        \A kind \in {"soldier", "vehicle"} :
            << kind, l.id >> \in objects =>
                [as |-> l.as, id |-> l.id, kind |-> kind] \in found

\* The lookups that are not made any more have found out what was known.
SettledInv ==
    LET ls == Lookups(call.cmd, Parsed(call)) IN
    /\ stage = "lookup" =>
           \A l \in Steps(ls) : l \in Steps(todo) \/ Settled(l, resolved, known)
    /\ stage = "recorded" => \A l \in Steps(ls) : Settled(l, resolved, known)

\* A call in good order is refused for an object that was not known.
RefusedInv ==
    stage = "refused" /\ call.flaw = Whole => \E id \in Named : \A f \in known : f[2] # id

LossInv ==
    /\ ObjectsInv
    /\ known \subseteq cache
    /\ SettledInv
    /\ RefusedInv

\* No call was refused at the start.
LEMMA StartOfCalls == ASSUME Init PROVE LossInv
    BY DEF Init, LossInv, ObjectsInv, SettledInv, RefusedInv

\* Creations in which no call is followed.
LEMMA MoreObjects ==
    ASSUME LossInv, cache \subseteq cache', \A f \in cache' \union game' : IsObject(f),
           UNCHANGED << format, call, known, stage, todo, resolved >>
    PROVE  LossInv'
<1>1. PICK c, e, found, objects, ls :
        /\ c = call /\ e = Parsed(c) /\ found = resolved /\ objects = known
        /\ ls = Lookups(c.cmd, e)
    OBVIOUS
<1>2. Parsed(c)' = e
    BY <1>1, ParsedAlike
<1>3. SettledInv'
    BY <1>1, <1>2 DEF LossInv, SettledInv
<1>4. RefusedInv'
  <2>1. RefusedInv
    BY DEF LossInv
  <2> QED
    BY <2>1 DEF RefusedInv, Named
<1> QED
    BY <1>3, <1>4 DEF LossInv, ObjectsInv

\* The first half of a creation makes an object of the instance known.
LEMMA FirstHalfOf ==
    ASSUME NEW entity, FirstHalf(entity), LossInv, IsObject(entity)
    PROVE  cache \subseteq cache' /\ \A f \in cache' \union game' : IsObject(f)
    BY DEF FirstHalf, LossInv, ObjectsInv

\* Every step keeps it that a call in good order is refused only for an unknown object.
LEMMA CreateSceneryLosesNothing == ASSUME LossInv, CreateScenery PROVE LossInv'
<1>1. PICK c \in Scenery :
        /\ Understood(c) /\ FirstHalf(EntityOf(c.cmd, Parsed(c)))
        /\ UNCHANGED << format, call, known, stage, todo, resolved >>
    BY DEF CreateScenery
<1>2. IsObject(EntityOf(c.cmd, Parsed(c)))
    BY <1>1, SceneryIs, SceneryIsListed, EntitiesAreObjects
<1> QED
    BY <1>1, <1>2, FirstHalfOf, MoreObjects

LEMMA CreateLosesNothing == ASSUME LossInv, Create PROVE LossInv'
<1>1. PICK cmd \in Creates : \E c \in Calls(cmd) :
        /\ Understood(c) /\ stage' = "creating" /\ known' = Created
        /\ FirstHalf(EntityOf(cmd, Parsed(c)))
    BY DEF Create
<1>2. PICK c \in Calls(cmd) :
        /\ Understood(c) /\ stage' = "creating" /\ known' = Created
        /\ FirstHalf(EntityOf(cmd, Parsed(c)))
    BY <1>1
<1>3. c.cmd = cmd /\ Sent(c)
    BY CallsAreSent DEF AllCommands
<1>4. IsObject(EntityOf(cmd, Parsed(c)))
    BY <1>2, <1>3, SentIsListed, EntitiesAreObjects DEF Sent
<1>5. cache \subseteq cache' /\ \A f \in cache' \union game' : IsObject(f)
    BY <1>2, <1>4, FirstHalfOf
<1> QED
    BY <1>2, <1>5 DEF LossInv, ObjectsInv, SettledInv, RefusedInv, Created

LEMMA RefuseCreateLosesNothing == ASSUME IInv, LossInv, RefuseCreate PROVE LossInv'
<1>1. PICK cmd \in Creates : \E c \in Calls(cmd) :
        /\ ~Understood(c) /\ stage' = "refused" /\ known' = Created /\ call' = c
        /\ UNCHANGED << cache, game >>
    BY DEF RefuseCreate
<1>2. PICK c \in Calls(cmd) :
        /\ ~Understood(c) /\ stage' = "refused" /\ known' = Created /\ call' = c
        /\ UNCHANGED << cache, game >>
    BY <1>1
<1>3. Sent(c) /\ format \in {"int", "float"}
    BY CallsAreSent DEF AllCommands, IInv, CallInv
<1>4. c.flaw # Whole
    BY <1>2, <1>3, WholeIsUnderstood
<1> QED
    BY <1>2, <1>4 DEF LossInv, ObjectsInv, SettledInv, RefusedInv, Created

LEMMA CreateReturnsLosesNothing == ASSUME IInv, LossInv, CreateReturns PROVE LossInv'
<1>1. /\ cache \subseteq cache' /\ \A f \in cache' \union game' : IsObject(f)
      /\ UNCHANGED << format, call, known, todo, resolved >>
    BY DEF CreateReturns, LossInv, ObjectsInv
<1>2. CASE stage # "creating"
    BY <1>1, <1>2, MoreObjects DEF CreateReturns
<1>3. CASE stage = "creating"
  <2>1. stage' = "recorded" /\ call.cmd \in Creates
    BY <1>3 DEF CreateReturns, IInv, CallInv
  <2>2. \A e : Lookups(call.cmd, e) = << >>
    BY <2>1 DEF Creates, Lookups
  <2>3. PICK c : c = call
    OBVIOUS
  <2>4. Lookups(c.cmd, Parsed(c)') = << >>
    BY <2>2, <2>3
  <2>5. SettledInv'
    BY <1>1, <2>1, <2>3, <2>4, StepsAre DEF SettledInv
  <2> QED
    BY <1>1, <2>1, <2>5 DEF LossInv, ObjectsInv, RefusedInv
<1> QED
    BY <1>2, <1>3

LEMMA SendLosesNothing == ASSUME LossInv, Send PROVE LossInv'
    BY DEF Send, LossInv, ObjectsInv, SettledInv, RefusedInv, Created

LEMMA TakeLosesNothing == ASSUME LossInv, Take PROVE LossInv'
<1>1. PICK c, e, ls : c = call /\ e = Parsed(c) /\ ls = Lookups(c.cmd, e)
    OBVIOUS
<1>2. /\ stage' = "lookup" /\ todo' = ls /\ call' = c
      /\ UNCHANGED << format, cache, game, known, resolved >>
    BY <1>1 DEF Take
<1>3. Parsed(c)' = e
    BY <1>1, <1>2, ParsedAlike
<1>4. SettledInv'
    BY <1>1, <1>2, <1>3 DEF SettledInv
<1> QED
    BY <1>2, <1>4 DEF LossInv, ObjectsInv, RefusedInv

LEMMA RefuseParseLosesNothing == ASSUME IInv, LossInv, RefuseParse PROVE LossInv'
<1>1. Sent(call) /\ format \in {"int", "float"} /\ ~Understood(call)
    BY DEF RefuseParse, IInv, CallInv
<1>2. call.flaw # Whole
    BY <1>1, WholeIsUnderstood
<1> QED
    BY <1>2 DEF RefuseParse, LossInv, ObjectsInv, SettledInv, RefusedInv

\* A soldier hides no known vehicle.
LEMMA LookUpLosesNothing == ASSUME NoneHidden, IInv, LossInv, LookUp PROVE LossInv'
<1>1. PICK c, e, ls, l, T, objects, was :
        /\ c = call /\ e = Parsed(c) /\ ls = Lookups(c.cmd, e) /\ l = Head(todo)
        /\ T = cache /\ objects = known /\ was = resolved
    OBVIOUS
<1> DEFINE found == {kind \in l.kinds : << kind, l.id >> \in T}
           new == [as |-> l.as, id |-> l.id,
                   kind |-> IF "soldier" \in found THEN "soldier" ELSE "vehicle"]
           now == IF found = {} \/ l.as = "none" THEN was ELSE was \union {new}
<1>2. /\ stage = "lookup" /\ todo # << >> /\ todo' = Tail(todo) /\ resolved' = now
      /\ UNCHANGED << format, cache, game, call, known, stage >>
    BY <1>1 DEF LookUp
<1>3. /\ Sent(c) /\ Understood(c) /\ todo \in Seq(Steps(ls))
      /\ objects \subseteq T /\ \A f \in T : IsObject(f)
      /\ \A k \in Steps(ls) : k \in Steps(todo) \/ Settled(k, was, objects)
    BY <1>1, <1>2 DEF IInv, CallInv, LookupInv, LossInv, ObjectsInv, SettledInv
<1>4. l \in Steps(ls)
    BY <1>1, <1>2, <1>3
<1>5. l.as # "none" => l.kinds = {"soldier", "vehicle"}
    BY <1>1, <1>3, <1>4, LookupsAreOrderly DEF Orderly
<1>6. ~(<< "soldier", l.id >> \in T /\ << "vehicle", l.id >> \in T)
  <2>1. ASSUME NEW kind, << kind, l.id >> \in T
        PROVE  kind \in Kinds /\ l.id \in IDsOf(kind)
    BY <1>3, <2>1 DEF IsObject
  <2> QED
    BY <2>1, IDsAreOfOneKind
<1>7. Settled(l, now, objects)
  <2> SUFFICES ASSUME l.as # "none", NEW kind \in {"soldier", "vehicle"},
                      << kind, l.id >> \in objects
               PROVE  [as |-> l.as, id |-> l.id, kind |-> kind] \in now
    BY DEF Settled
  <2>1. kind \in found /\ << kind, l.id >> \in T
    BY <1>3, <1>5
  <2>2. kind = IF "soldier" \in found THEN "soldier" ELSE "vehicle"
    BY <1>6, <2>1
  <2>3. new = [as |-> l.as, id |-> l.id, kind |-> kind]
    BY <2>2
  <2>4. now = was \union {new}
    BY <2>1
  <2> QED
    BY <2>3, <2>4
<1>8. was \subseteq now
    OBVIOUS
<1> HIDE DEF found, new, now
<1>9. \A k \in Steps(ls) : k \in Steps(Tail(todo)) \/ Settled(k, now, objects)
  <2> SUFFICES ASSUME NEW k \in Steps(ls), k \notin Steps(Tail(todo))
               PROVE  Settled(k, now, objects)
    OBVIOUS
  <2>1. k = l \/ k \notin Steps(todo)
    BY <1>1, <1>2, <1>3, HeadAndTail
  <2> QED
    BY <1>3, <1>7, <1>8, <2>1 DEF Settled
<1>10. Parsed(c)' = e
    BY <1>1, <1>2, ParsedAlike
<1>11. SettledInv'
    BY <1>1, <1>2, <1>9, <1>10 DEF SettledInv
<1> QED
    BY <1>1, <1>2, <1>3, <1>11 DEF LossInv, ObjectsInv, RefusedInv

LEMMA RefuseUnknownLosesNothing ==
    ASSUME NoneHidden, IInv, LossInv, RefuseUnknown
    PROVE  LossInv'
<1> DEFINE l == Head(todo)
<1>1. /\ stage = "lookup" /\ stage' = "refused" /\ todo # << >> /\ l.must
      /\ \A kind \in l.kinds : << kind, l.id >> \notin cache
      /\ UNCHANGED << format, cache, game, call, known, todo, resolved >>
    BY DEF RefuseUnknown
<1>2. /\ Sent(call) /\ format \in {"int", "float"}
      /\ todo \in Seq(Steps(Lookups(call.cmd, Parsed(call))))
      /\ known \subseteq cache /\ \A f \in cache : IsObject(f)
    BY <1>1 DEF IInv, CallInv, LookupInv, LossInv, ObjectsInv
<1>3. l \in Steps(Lookups(call.cmd, Parsed(call)))
    BY <1>1, <1>2
<1>4. ASSUME call.flaw = Whole
      PROVE  \E id \in Named : \A f \in known : f[2] # id
  <2>1. NamedBy(call, l)
    BY <1>1, <1>2, <1>3, <1>4, LookupsAreNamed
  <2> HIDE DEF l
  <2>2. PICK x \in {call.self, call.other} : x # -1 /\ l.id = U16(x)
    BY <2>1 DEF NamedBy
  <2>3. PICK kind \in l.kinds \intersect Kinds : l.id \in IDsOf(kind)
    BY <2>1 DEF NamedBy
  <2>4. l.id \in Named
    BY <2>2 DEF Named, IDs16
  <2>5. ASSUME NEW f \in known, f[2] = l.id
        PROVE  FALSE
    <3>1. PICK j \in Kinds : \E id \in IDsOf(j) : f = << j, id >>
      BY <1>2 DEF IsObject
    <3>2. f = << j, l.id >> /\ l.id \in IDsOf(j)
      BY <2>5, <3>1
    <3>3. j = kind
      BY <2>3, <3>2, IDsAreOfOneKind
    <3> QED
      BY <1>1, <1>2, <2>3, <3>2, <3>3
  <2> QED
    BY <2>4, <2>5
<1> HIDE DEF l
<1>5. RefusedInv'
  <2>1. Named' = Named
    BY <1>1 DEF Named
  <2> QED
    BY <1>1, <1>4, <2>1 DEF RefusedInv
<1> QED
    BY <1>1, <1>2, <1>5 DEF LossInv, ObjectsInv, SettledInv

LEMMA RecordLosesNothing == ASSUME IInv, LossInv, Record PROVE LossInv'
<1>1. PICK c, e, found, objects, ls :
        /\ c = call /\ e = Parsed(c) /\ found = resolved /\ objects = known
        /\ ls = Lookups(c.cmd, e)
    OBVIOUS
<1>2. /\ stage = "lookup" /\ stage' = "recorded" /\ todo = << >>
      /\ UNCHANGED << format, cache, game, call, known, resolved >>
    BY DEF Record
<1>3. \A l \in Steps(ls) : Settled(l, found, objects)
    BY <1>1, <1>2, StepsAre DEF LossInv, SettledInv
<1>4. Parsed(c)' = e
    BY <1>1, <1>2, ParsedAlike
<1>5. SettledInv'
    BY <1>1, <1>2, <1>3, <1>4 DEF SettledInv
<1> QED
    BY <1>2, <1>5 DEF LossInv, ObjectsInv, RefusedInv

\* What was found for a column, if that was looked up for one ID.
LEMMA WhatIsFound ==
    ASSUME NEW found, NEW as, NEW kind, NEW id, [as |-> as, id |-> id, kind |-> kind] \in found,
           \A f \in found : f.as = as => f.id = id
    PROVE  FoundAs(found, as, kind) = id
<1> DEFINE its == {f \in found : f.as = as /\ f.kind = kind}
<1>1. FoundAs(found, as, kind) = IF its = {} THEN None ELSE (CHOOSE f \in its : TRUE).id
    BY DEF FoundAs
<1>2. its # {}
  <2>1. [as |-> as, id |-> id, kind |-> kind] \in its
    OBVIOUS
  <2> QED
    BY <2>1
<1>3. \A f \in its : f.id = id
    OBVIOUS
<1> HIDE DEF its
<1> QED
    BY <1>1, <1>2, <1>3

\* The victim and the killer a kill names, if they were known, are in its row.
LEMMA KillsAreWhole ==
    ASSUME Recorded(call, resolved), call.cmd = ":EVENT:KILL:", call.flaw = Whole,
           \A l \in Steps(Lookups(call.cmd, Parsed(call))) : Settled(l, resolved, known)
    PROVE  /\ << "soldier", U16(call.self) >> \in known =>
                  row.victimSoldierObjectID = U16(call.self)
           /\ << "vehicle", U16(call.self) >> \in known =>
                  row.victimVehicleObjectID = U16(call.self)
           /\ << "soldier", U16(call.other) >> \in known =>
                  row.killerSoldierObjectID = U16(call.other)
           /\ << "vehicle", U16(call.other) >> \in known =>
                  row.killerVehicleObjectID = U16(call.other)
<1> DEFINE of == Commands[call.cmd]
           e == Parsed(call)
           done == Completed(call.cmd, e, resolved)
<1>1. /\ Sent(call) /\ format \in {"int", "float"} /\ call.cmd \in AllCommands
      /\ row = RowOf(call.cmd, done) /\ FoundBy(call, resolved)
    BY DEF Recorded, Sent
<1>2. e.victimID = U16(call.self) /\ e.killerID = U16(call.other)
  <2>1. /\ 2 \in 1..Len(of.args) /\ of.args[2] = of.self
        /\ 3 \in 1..Len(of.args) /\ of.args[3] = of.other
    BY KillIs
  <2>2. ValueAt(call, 2) = call.self /\ ValueAt(call, 3) = call.other
    BY <1>1, <2>1, NamingArguments
  <2>3. /\ "victimID" \in DOMAIN of.parse.reads /\ of.parse.reads["victimID"].at + 1 = 2
        /\ of.parse.reads["victimID"].from = 0 /\ of.parse.reads["victimID"].as = "Uint16"
        /\ of.parse.reads["victimID"].asked = Always
        /\ "killerID" \in DOMAIN of.parse.reads /\ of.parse.reads["killerID"].at + 1 = 3
        /\ of.parse.reads["killerID"].from = 0 /\ of.parse.reads["killerID"].as = "Uint16"
        /\ of.parse.reads["killerID"].asked = Always
    BY KillIs
  <2>4. ASSUME NEW f \in DOMAIN of.parse.reads, NEW k, of.parse.reads[f].at + 1 = k,
               of.parse.reads[f].from = 0, of.parse.reads[f].as = "Uint16",
               of.parse.reads[f].asked = Always
        PROVE  e[f] = U16(ValueAt(call, k))
    <3>1. \A j : ~Flawed(call, j)
      BY WholeIsWhole
    <3> HIDE DEF e
    <3>2. Parsed(call)[f] = U16(ValueAt(call, k))
      BY <1>1, <2>4, <3>1, FieldIsID
    <3> QED
      BY <3>2 DEF e
  <2> HIDE DEF of, e
  <2>5. e["victimID"] = U16(ValueAt(call, 2)) /\ e["killerID"] = U16(ValueAt(call, 3))
    BY <2>3, <2>4
  <2> QED
    BY <2>2, <2>5
<1>3. /\ row.victimSoldierObjectID = FoundAs(resolved, "victim", "soldier")
      /\ row.victimVehicleObjectID = FoundAs(resolved, "victim", "vehicle")
      /\ row.killerSoldierObjectID = FoundAs(resolved, "killer", "soldier")
      /\ row.killerVehicleObjectID = FoundAs(resolved, "killer", "vehicle")
  <2>1. /\ done.victimSoldierID = FoundAs(resolved, "victim", "soldier")
        /\ done.victimVehicleID = FoundAs(resolved, "victim", "vehicle")
        /\ done.killerSoldierID = FoundAs(resolved, "killer", "soldier")
        /\ done.killerVehicleID = FoundAs(resolved, "killer", "vehicle")
    BY CompletedKill
  <2>2. row = RowOf(call.cmd, done)
    BY <1>1
  <2> HIDE DEF done
  <2>3. /\ RowOf(call.cmd, done).victimSoldierObjectID = done.victimSoldierID
        /\ RowOf(call.cmd, done).victimVehicleObjectID = done.victimVehicleID
        /\ RowOf(call.cmd, done).killerSoldierObjectID = done.killerSoldierID
        /\ RowOf(call.cmd, done).killerVehicleObjectID = done.killerVehicleID
    BY RowsOfEvents
  <2> QED
    BY <2>1, <2>2, <2>3
<1>4. \A g \in resolved : /\ g.as = "victim" => g.id = e.victimID
                          /\ g.as = "killer" => g.id = e.killerID
  <2> SUFFICES ASSUME NEW g \in resolved
               PROVE  /\ g.as = "victim" => g.id = e.victimID
                      /\ g.as = "killer" => g.id = e.killerID
    OBVIOUS
  <2>1. PICK l \in Steps(Lookups(call.cmd, e)) : l.as = g.as /\ l.id = g.id
    BY <1>1 DEF FoundBy
  <2> QED
    BY <2>1, KilledLookedUp
<1>5. \A kind \in {"soldier", "vehicle"} :
        /\ << kind, e.victimID >> \in known =>
              [as |-> "victim", id |-> e.victimID, kind |-> kind] \in resolved
        /\ << kind, e.killerID >> \in known =>
              [as |-> "killer", id |-> e.killerID, kind |-> kind] \in resolved
  <2> DEFINE victim == Classify("victim", e.victimID)
             killer == Classify("killer", e.killerID)
             ls == Lookups(call.cmd, e)
  <2>1. ls = << victim, killer >>
    BY DEF Lookups
  <2>2. /\ victim.as = "victim" /\ victim.id = e.victimID
        /\ killer.as = "killer" /\ killer.id = e.killerID
    BY DEF Classify
  <2>3. \A l \in Steps(ls) : Settled(l, resolved, known)
    OBVIOUS
  <2> HIDE DEF victim, killer, ls, e
  <2>a. Steps(<< victim, killer >>) = {victim, killer}
    BY StepsAre
  <2>4. Settled(victim, resolved, known) /\ Settled(killer, resolved, known)
    BY <2>1, <2>3, <2>a
  <2> QED
    BY <2>2, <2>4 DEF Settled
<1> HIDE DEF e
<1>6. \A kind \in {"soldier", "vehicle"} :
        /\ << kind, e.victimID >> \in known => FoundAs(resolved, "victim", kind) = e.victimID
        /\ << kind, e.killerID >> \in known => FoundAs(resolved, "killer", kind) = e.killerID
    BY <1>4, <1>5, WhatIsFound
<1> QED
    BY <1>2, <1>3, <1>6

\* The objects a projectile hit, if they were known, are in its row.
LEMMA HitsAreWhole ==
    ASSUME Recorded(call, resolved), call.cmd = ":EVENT:PROJECTILE:", call.flaw = Whole,
           \A l \in Steps(Lookups(call.cmd, Parsed(call))) : Settled(l, resolved, known),
           NEW i \in DOMAIN call.hits
    PROVE  /\ << "soldier", U16(call.hits[i]) >> \in known =>
                  U16(call.hits[i]) \in row.hitSoldiers
           /\ << "vehicle", U16(call.hits[i]) >> \in known =>
                  U16(call.hits[i]) \in row.hitVehicles
<1> DEFINE of == Commands[call.cmd]
           e == Parsed(call)
           done == Completed(call.cmd, e, resolved)
           Of(kind) == {f.id : f \in {g \in resolved : g.kind = kind}}
           l == Classify("hit", e.hitParts[i])
           ls == Lookups(call.cmd, e)
           id == U16(call.hits[i])
<1>1. /\ Sent(call) /\ format \in {"int", "float"} /\ row = RowOf(call.cmd, done)
    BY DEF Recorded
<1>2. e.hitParts = [j \in DOMAIN call.hits |-> U16(call.hits[j])]
  <2>1. /\ "hitParts" \in DOMAIN of.parse.reads /\ of.args[17] = "hitParts"
        /\ of.parse.reads["hitParts"].at + 1 = 17 /\ of.parse.reads["hitParts"].from = 0
        /\ of.parse.reads["hitParts"].asked = Always
    BY ProjectileIs
  <2>2. ~Flawed(call, 17)
    BY WholeIsWhole
  <2>3. e["hitParts"] = [j \in DOMAIN call.hits |-> U16(call.hits[j])]
    BY <1>1, <2>1, <2>2, FieldIs
  <2> QED
    BY <2>3
<1>3. i \in DOMAIN e.hitParts /\ e.hitParts[i] = id
    BY <1>2
<1>4. ls = [j \in DOMAIN e.hitParts |-> Classify("hit", e.hitParts[j])]
    BY DEF Lookups
<1>5. l \in Steps(ls)
    BY <1>3, <1>4 DEF Steps
<1>6. Settled(l, resolved, known)
    BY <1>5
<1>7. l.as = "hit" /\ l.id = id
    BY <1>3 DEF Classify
<1>8. row.hitSoldiers = Of("soldier") /\ row.hitVehicles = Of("vehicle")
  <2>1. done.hitSoldiers = Of("soldier") /\ done.hitVehicles = Of("vehicle")
    BY CompletedProjectile, Zenon
  <2>2. row = RowOf(call.cmd, done)
    BY <1>1
  <2> HIDE DEF done, Of
  <2>3. /\ RowOf(call.cmd, done).hitSoldiers = done.hitSoldiers
        /\ RowOf(call.cmd, done).hitVehicles = done.hitVehicles
    BY RowsOfEvents
  <2> QED
    BY <2>1, <2>2, <2>3
<1> HIDE DEF l, id
<1>9. \A kind \in {"soldier", "vehicle"} : << kind, id >> \in known => id \in Of(kind)
  <2> SUFFICES ASSUME NEW kind \in {"soldier", "vehicle"}, << kind, id >> \in known
               PROVE  id \in Of(kind)
    OBVIOUS
  <2>1. [as |-> "hit", id |-> id, kind |-> kind] \in resolved
    BY <1>6, <1>7 DEF Settled
  <2> QED
    BY <2>1
<1>10. /\ << "soldier", id >> \in known => id \in row.hitSoldiers
       /\ << "vehicle", id >> \in known => id \in row.hitVehicles
    BY <1>8, <1>9
<1> QED
    BY <1>10 DEF id

\* A call in good order about objects the game had created is recorded, and names
\* all of them, whatever is created while its handler looks them up, unless the low
\* 16 bits of a wide ID are the ID of another object (worker/dispatch.go:208-247, the
\* classifications, and the validations before each Record; the create handlers, which
\* the game waits for).
THEOREM NothingOfACallIsLost == ASSUME NoneHidden PROVE Spec => []NothingIsLost
<1>1. Init => LossInv
    BY StartOfCalls
<1>2. IInv /\ LossInv /\ [Next]_vars => LossInv'
  <2> SUFFICES ASSUME IInv, LossInv, [Next]_vars
               PROVE  LossInv'
    OBVIOUS
  <2>1. CASE UNCHANGED vars
    BY <2>1, MoreObjects DEF vars, LossInv, ObjectsInv
  <2>2. CASE Next
    BY <2>2, CreateSceneryLosesNothing, CreateLosesNothing, RefuseCreateLosesNothing,
       CreateReturnsLosesNothing, SendLosesNothing, TakeLosesNothing,
       RefuseParseLosesNothing, LookUpLosesNothing, RefuseUnknownLosesNothing,
       RecordLosesNothing DEF Next
  <2> QED
    BY <2>1, <2>2
<1>3. IInv /\ LossInv => NothingIsLost
  <2> SUFFICES ASSUME IInv, LossInv
               PROVE  NothingIsLost
    OBVIOUS
  <2>1. ASSUME stage = "recorded"
        PROVE  /\ Recorded(call, resolved)
               /\ \A l \in Steps(Lookups(call.cmd, Parsed(call))) : Settled(l, resolved, known)
    BY <2>1 DEF IInv, CallInv, LossInv, SettledInv
  <2>2. stage = "refused" /\ call.flaw = Whole => \E id \in Named : \A f \in known : f[2] # id
    BY DEF LossInv, RefusedInv
  <2> QED
    BY <2>1, <2>2, KillsAreWhole, HitsAreWhole DEF NothingIsLost
<1> QED
    BY <1>1, <1>2, <1>3, IntakeInvariant, PTL DEF Spec
=============================================================================
