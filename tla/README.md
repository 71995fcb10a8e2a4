# The OCAP recorder in TLA+

These modules specify the parts of the ArmA 3 recorder extension in which
several goroutines, queues and stores have to agree: how commands are
parsed, dispatched, recorded, saved, exported and sent.  TLC checks each module on
small instances; TLAPS proves theorems about the dispatcher, the memory backend,
the save workers, the recording handlers, the lifecycle, the export, the WebSocket
connection, the DB writer and the way of a call to its row for all of them.
`PROJECT.json` maps every definition to its lines, and lists the runs, the
mutants, the hazards and the theorems.

    tlc -workers 2 -config MCDispatcher.cfg MCDispatcher     (any MC*.cfg; the
    tlapm DispatcherProofs.tla                                module is its prefix)

## 1. The system and its parts

The game calls the extension from one thread.  Every call is a command with
arguments; the dispatcher finds its handler and either runs it in the game's
thread or puts the event into the channel of the command's own goroutine.
Handlers parse, look an entity or marker up in a cache, and call the storage
backend.  A mission is started and saved by commands too; saving exports one
JSON file and uploads it.

    game thread -> RVExtensionArgs -> Dispatcher --sync--> handler --+
                                        |                            |
                                        +-- channel -> goroutine ----+
                                                                     v
     :MISSION:START: --> caches reset, StartMission         EntityCache, MarkerCache
     :MISSION:SAVE:  --> worker: EndMission, upload,                 v
                         :MISSION:SAVED: callback            storage.Backend
                                                memory | postgres/sqlite | websocket

| component (source) | state | operations | what is hard | what makes it correct |
|---|---|---|---|---|
| Dispatcher (`internal/dispatcher`) | handler table, a channel and a goroutine per buffered registration, the gate | Register, Dispatch, send, drop or park, receive, handle, panic | many callers, full channels, a closed gate, handlers that panic, commands registered twice | each accepted event is handled once, in order, after the gate; none is both refused and handled; nothing stays in a channel |
| Memory backend (`internal/storage/memory`) | entities, markers by name and by ID, events, focus ranges, last path, last metadata | one method per kind of record, StartMission, EndMission, GetExportMetadata | long call sequences; exports that fail or panic half way | tables agree; nothing outlives its mission; metadata belongs to the file |
| v1 export (`export/v1`) | the recording, the file being written | Build, Stream | two implementations of one format, IDs of `uint16`, failing writes | Stream writes what Build returns; no position, shot or event is lost or out of place |
| Mission save (`cmd/.../mission_save.go`) | the in-flight flag, one goroutine per save | trigger, EndMission, path, metadata, upload, report | four calls that take the backend's lock one by one while missions start | one report per save, the file goes with its own metadata, the flag is cleared |
| Argument parser (`internal/parser`) and model conversion (`internal/model/convert`) | none | one parse function per command, one conversion per row | twenty places per call, each with a conversion of its own; numbers written as 7 or 7.00, IDs beyond 16 bits, empty and missing arguments | a row holds what the game sent; nothing well-formed is refused |
| Recording handlers and caches (`internal/worker`, `internal/cache`) | two caches; a goroutine per command | create, state, delete, event, marker commands, mission start | check-then-act over a cache and a backend that are reset in three steps | no sample lost or in the wrong mission or marker, caches and backend agree |
| Lifecycle (`cmd/.../main.go`, `storage.go`) | global backend, gate, registered handlers | `:STORAGE:INIT:`, `:MISSION:START:`, `:MISSION:SAVE:` | asynchronous initialisation, blocking sends by the game thread | an OK means ready; one backend; no hang |
| WebSocket backend (`internal/storage/websocket`) | connection, send channel, loops, reconnect flag, cached start | send, sendAndWait, acknowledgements, dial, loops, reconnect, replay, close | two loops and any number of reconnects share one connection, all calls share one channel of acknowledgements | at most once, in order, always served, failures noticed, an OK means received, ends after close |
| Database backend (`internal/storage/postgres`, `internal/queue`) | sixteen queues, mission ID, tables, writer goroutine | push, start, batches in transactions, markers, close | rows are stamped when written, not when recorded; failed batches come back | each row in one place, with its mission's ID, written in the end |
| SQLite backend | the same, and a periodic dump | dump | crash between remove and VACUUM | see section 7 |
| Upload client | none | one HTTP request | it fails, or panics, while missions start | see `MissionSave` |
| Geometry, logging, telemetry, configuration, C glue | none, or none that others depend on | | | not modelled, but for `Position3DFromString` |

In this version `createStorageBackend` accepts only `memory`
(`storage.go:57-65`): the database, SQLite and WebSocket backends are libraries
with tests, which no setting reaches yet.  Their modules describe them as their
callers in the interface `storage.Backend` would use them.

## 2. The modules

| module | models | builds on |
|---|---|---|
| `OrderedDelivery` | the promise of a buffered registration: streams that take each item once and handle it in order, a gated one after the gate | |
| `Dispatcher` | the dispatcher at the grain of channel operations | refines `OrderedDelivery` |
| `MemoryBackend` | every method of the backend; each holds its mutex, so each is one action | |
| `MissionSave` | save workers, mission starts and recording, between any two calls of the backend | extends `MemoryBackend` |
| `Recording` | the promise of the recorder: what becomes of a sample the game sends | |
| `Recorder` | handlers, caches, mission start and end, one step per call of a cache or the backend | extends `MemoryBackend`, refines `Recording` |
| `Lifecycle` | storage initialisation, gate, start and save commands | |
| `ExportV1` | the recording as Build and Stream see it, Build as an operator, Stream as a sequence of writes | |
| `WsConnection` | one connection object with its loops, reconnects and callers | |
| `DBWriter` | queues, writer, database | |
| `Parser` | the parse functions: for each field the argument it reads and the conversion it applies | |
| `GormModel` | the conversion of core structs to rows, and what each column is for | extends `Parser` |
| `Intake` | one call of any command from its arguments to its row, while the game creates objects | extends `GormModel` |
| `DispatcherProofs`, `MissionSaveProofs`, `RecorderProofs`, `LifecycleProofs`, `ExportV1Proofs`, `WsConnectionProofs`, `DBWriterProofs`, `IntakeProofs` | the theorems about the module they are named after; those about `MemoryBackend` are in `MissionSaveProofs` | that module, TLAPS |
| `MC*` | constants of the instances | |

State and actions.  A variable has the name of its field or variable in the
source where TLA+ allows it.  `\* history:` marks variables that the code does
not have and the properties need; `\* bound:` marks constants that cap what the
game does.  An action is one step of one goroutine: what it does under a mutex,
between two channel operations, or in one call of another component.  Definitions
introduced by "(As it would be ...)" are not part of any specification; they are
the plausible bugs that show that each property can fail.

What each module abstracts:

* `Dispatcher`: an event is its caller and the number of its call; the handler
  may panic, its result is left out.  A receive from a full channel moves the
  oldest parked sender's event into it, as the Go runtime does.
* `MemoryBackend`: entities are soldiers, vehicles and placed objects by ID;
  samples, events and payloads are counted or are elements of small sets.  Of the
  exported file three parts are kept: its mission, the end frame the exporter
  writes, and the frames of the samples of its entities (`ExportV1` has its
  contents).  The frames of its event rows and marker states are not: neither end
  frame looks at them.
* `MissionSave`: an upload succeeds, fails or panics; so does EndMission.
* `Recorder`: every item carries the mission it was sent in, which the code does
  not have; arguments parse.  Chat, radio, hit and kill handlers, which differ
  only in what they look up first, are in `Intake`; the instance has ACE3.
* `Parser`, `GormModel`: an argument is the form its text has ("7", "7.00", "7.5",
  an array, empty, ...) and the value it stands for; a conversion is the forms it
  accepts, what it makes of the value (the low 16 bits, nobody for -1), and what
  becomes of its error.  Conversions to `uint8`, `int8` and `uint16` keep the low
  bits, a chat channel becomes its name.  A list is accepted for an argument if Go
  would unmarshal it into the type of that argument: any array where the type is
  one of numbers or of anything, two numbers for a position, nothing but the
  right shape where it is nested.  The scores are read of players only, and a
  trajectory of fewer than two points gives no positions.  Server times, and
  elevations, which repeat a position, are left out.  The names of a command's
  arguments and of what the columns are for come from the comments of the parse functions and of `model.go`, the places
  of the arguments and the columns they end in from the code.
* `Intake`: the value of an argument that is no ID is its place in the call, or 300
  more than that, so that a column holding another argument shows, and one that
  has no room for its argument is met.  Handlers share nothing but the
  caches, so it follows one call only, among the creations that the game thread
  makes before, during and after it.  Markers are no polylines.
* `Lifecycle`: a backend is the number of the `:STORAGE:INIT:` that made it.
* `ExportV1`: a row of the file is where it comes from in the recording; two
  event slices stand for the five that Build visits in turn.  Frames and IDs are
  small, and `IdMax` stands for 65535 with its wrap-around (`maxID + 1`).
  Shots are within one frame.  Entities, markers and placed objects may be created
  again, which replaces their records, and one ID may be a soldier's and a
  vehicle's.  Events and markers are collected by `buildEvents` and `buildMarkers` for
  Build, and by `aggregateEvents` and `aggregateMarkers` for Stream, as by the two
  copies of that code; what each appends in its turn (`SliceEvents`, `PlacedHits`,
  `ProjectileHits`, the three kinds of marker rows) is stated once.
  `MissionData` collects what Build and Stream are given; their
  operators take it as a parameter `d`, as the functions do in the code.
* `WsConnection`: messages are numbered.  An acknowledgement names the kind of
  message it answers, as in the code, and no more; the server sends one for each
  start and end it receives, in order, and may be slow.  Three variables are
  history.  `crowded`: a write loop was running when a reconnect installed its
  connection; it is a fact about the loops at that moment, which no other step
  looks at or has to keep.  `surplus`: the kinds of calls that have an
  acknowledgement too many under way.  `missed`: the failure of the connection that
  is installed now was noticed while its own reconnect still held the flag, and
  skipped; the next dial clears it.
* `DBWriter`: a row is its object and number, plus the mission ID it is stamped
  with; an insert fails when a key of the tables would be broken, or at will.
  `Insert` and `Commit` are one step: nothing else reads the tables.  With keys
  as PostgreSQL enforces them; SQLite does not, which only removes failures.

## 3. The runs

Nine runs pass; three show a statement of the repository that the code does not
keep.

| run | instance | shows |
|---|---|---|
| `dispatcher` | 2 callers with 2 calls each, 2 commands, 3 registrations: buffered 2, blocking, gated; buffered 1; synchronous and gated. One command is registered twice | `ExactlyOnceInOrder`, `NothingBeforeGate`, `CallOrder` (two events of a caller to one registration are handled in call order), `OneFate` (handled, waiting, dropped or unknown, never two), refinement `ImplementsOrderedDelivery`, and live: `QueuedIsHandled`, `CallsReturn` |
| `memory` | 2 missions, 1 object, 2 marker names, frames 0-3, 1 sample, 2 ranges, 3 markers | `MarkerTablesAgree`, `RecordsPersist` (a record disappears only with its mission), `FocusOrdered`, `PathMatchesMetadata` (the published path is that of the last file, the metadata is that file's and ends no earlier than the exporter says, however missions end) |
| `save` | 2 saves, 3 starts, 2 missions | `ReportedOnceInOrder`, `QuietUploadMatchesFile`, live: `SavesAreReported` |
| `recorder` | 2 missions, soldiers and placed objects with 1 ID, 2 markers, 4 commands, 1 save | `NoSampleLost`, `CachesMatchBackend`, `MissionIsolation`, `DrainedCacheIsCurrent`, `ImplementsRecording` (a sample is recorded at most once, in order, and where it belongs) |
| `lifecycle` | 2 inits, 3 starts, 3 other commands, 2 recording commands | `OkMeansReady`, `OneBackend`, live: `StartDoesNotHang` |
| `export` | 4 recorded calls, 3 frames, IDs 0-2, 1 marker, 1 placed object, 3 shapes of shots | `StreamMatchesBuild` (also as a prefix, up to a failing write), `PositionsFollowStates`, `EntitiesAtTheirIndex` (and a soldier's fired events and bullets with it, each once), `EventsInOrder` |
| `websocket` | send channel of 1, acknowledgement channel of 1, 2 connections, 2 attempts per reconnect, 2 messages | `AtMostOnce`, `SendOrder` (nothing overtakes the queue, however many write loops there are; unless `crowded`, the replay comes first and all else in order), `ConnectionIsServed` (by its own two loops), `BreakIsNoticed` (the failure of an installed connection has something that will notice it), `AckMeansReceived` (a start or end that returns no error was received), live: `CloseEnds` |
| `dbwriter` | 3 queues (soldiers, their states, marker states), 2 missions, 3 rows, 1 failure | `RowsOnceInOrder`, `StampIsItsMission`, live: `AllWritten` |
| `intake` | every command of the recorder; soldiers 33, a player, and 65569 (which is 33 in 16 bits), vehicle 37, placed object 39, marker 41; small values and values of 300 and more | `RowsAreTheGames` (a column that has room for it holds the argument it is for), `NothingIsLost` (no well-formed call about created objects is refused, no object it names left out), `ReferencesResolve` (a reference of a row that its handler looked up, the last damage source of a death included, is to an object the recording has) |
| `save_upload_race` | as `save` | violates `UploadMatchesFile` |
| `websocket_writers` | as `websocket` | violates `OneWriteLoop` |
| `intake_actual_firer` | as `intake` | violates `ActualFirerIsTheGames` |

Only `dispatcher` has a type invariant among its invariants; the types the other
proofs need are part of their inductive invariants.

Why these bounds.  Every hazard needs few actors: two events to be out of order,
two missions for one to reach into the other, a channel of one to be full, one
failure to leave something behind.

* `dispatcher`: with a capacity of two and two callers a channel is empty, half
  full, full, and full with a parked sender; both goroutines of the command that
  is registered twice run at once.
* `memory`: the constraint `OneConcern` leaves successors of states unexplored
  that mix concerns which share no variable (focus ranges with deletions or
  markers, entities with markers).  Three markers are a name created again and
  another one; frames 0 to 3 have the special value 0, a range, and what lies on
  either side of it.
* `save`: the second save and the third start are the first that meet the state
  which an earlier one left behind.
* `recorder`: `WaitsForOk` restricts the game to record only after
  `:MISSION:OK:`, as the callback is there for.  Without it, samples sent during
  the reset are lost by design.  `drains` is chosen at the start: one game waits
  for empty channels before the next mission, the other does not.
* `lifecycle`: `SerialInits`: storage is initialised again only after
  `:STORAGE:OK:`.
* `export`: four calls are enough for an entity with two states and a shot, an
  entity created twice with states in between, a soldier and a vehicle of one ID, a
  placeholder, a hit between two entities, and every pair of events.  The constraint
  `OneConcern` leaves successors of states unexplored that mix entities with slices,
  markers or placed objects, which they meet in no list of the file; projectiles,
  whose bullets, hits and paths go into all lists, are mixed with both.
* `websocket`: two connections are needed for a reconnect; a third would only
  repeat the second.  Two calls are needed for one to take the other's
  acknowledgement, and a channel of one (16 in the code, `connection.go`) to be full.
* `intake`: one object of each kind is enough for every lookup to find or miss
  what it looks for, and the wide ID for it to find another soldier; the one that
  is a player has scores, the other has none.  The values of a call all fit into a
  byte, or all do not.  A trajectory has one to three points.  A call is whole, or
  has one argument garbled, empty or an array, or lacks its last ones;
  flawed calls are tried with one choice of IDs, and when none or all of the objects
  exist.  Numbers are all written as integers, or all as floats.
* `dbwriter`: a soldier, its state and one more row; the second mission may start
  at any point of the cycle.

Deadlock is not checked in any run: the game may stop sending at any time, and
after close everything is meant to end.

## 4. Fairness

All fairness is weak and is about goroutines: the Go scheduler runs a goroutine
that stays runnable, a handler, an export, an upload (it has a timeout), a dial
and a database call return, a timer expires.  Where a goroutine waits in a
`select` with two ready cases Go picks at random, so in general each case would
need strong fairness; the number of messages is finite here, so that weak
fairness of the loop as a whole is enough for `CloseEnds`.  Nothing makes the
game send a command, storage be initialised, the server answer, the network fail
or a mission start; none of these has fairness.  A call that waits for an
acknowledgement ends with it, with close or with its timer (`TimeOut`).  In `dbwriter` the database fails
finitely often: a database that always fails writes nothing.

## 5. What is proved

Each proof is for any values of the constants that satisfy the assumption of the
module (`...Assumption`), bounds included: any number of missions, objects, rows,
connections, callers, channel sizes.

### The dispatcher

`DispatcherProofs` proves, for any sets of commands, registrations and callers,
any number of events and any channel sizes, under the assumption
`DispatcherAssumption` about the constants alone:

| theorem | states |
|---|---|
| `TypeCorrect` | `Spec => []TypeOK` |
| `DeliveryIsExactlyOnce` | `Spec => []ExactlyOnceInOrder`: accepted = handled, then in hand, then in the channel |
| `CapacityIsRespected` | a channel never holds more than its capacity, and senders are parked only on a full one |
| `GateIsRespected` | `Spec => []NothingBeforeGate` |
| `CallOrderIsKept` | `Spec => []CallOrder` |
| `Refinement` | `Spec => ImplementsOrderedDelivery` |
| `FateIsUnique` | `Spec => []OneFate` |

The argument.  None of these is inductive alone.  `TInv` is `TypeOK` with
`Parked`: a receive from a full channel takes the event of the oldest parked
caller, so that even the type of the channel depends on that caller being
blocked in a send to it.  `Safe` adds `SyncCalls` (a caller runs
handlers of synchronous registrations and sends to buffered ones only),
`GateClosed` (before the gate opens, no goroutine of a gated registration is past
its wait for it),
`ExactlyOnceInOrder`, `CapacityRespected` and `NothingBeforeGate`.
`Order` adds what `CallOrder` and the refinement need, that an event is newer than
all events of its caller that were taken before it: a busy caller holds the event
of its last call (`HoldsLast`), what the registrations have taken is older
(`LogsPast`) and in order (`LogsOrdered`), and only buffered registrations have an
event in hand (`InHandBuffered`).  Each has one step per action of `Next`; the refinement maps
`taken` to the accepted and `done` to the handled events, and each action to
`TakeItem`, `Handle`, `Open` or a stutter.  `Fates` says that a call that has ended was
taken by one registration or refused for one reason; a step decides the fate of one
event at most (`FateShape`), and `LogsPast` shows that it had none before.

### The memory backend

| theorem of `MissionSaveProofs` | states |
|---|---|
| `TablesAgree` | `BSpec => []MarkerTablesAgree` |
| `RangesAreOrdered` | `BSpec => []FocusOrdered` |
| `NothingIsForgotten` | `BSpec => RecordsPersist` |
| `PublishedTogether` | `BSpec => []PathMatchesMetadata` |

`MemoryInv` is the types of markers and ranges with `MarkerTablesAgree`, the order of
the ranges and that of the cached metadata.  `AddMarker` keeps the first because the
new ID is greater than all others (`AddMarkerInv`), the changes of a record because
they keep its name (`SameNamesInv`).  A range keeps the order wherever it is closed,
by `SetFocusEnd` or for an upload, by the same lemma (`RangeAppended`), whatever the
end frame is.  `NothingIsForgotten` follows step by step from `MemoryInv`.

`PublishInv` is `PathMatchesMetadata` with the types of what a publication is made
from and that a mission that runs has no path yet.  The steps that matter are
those of `EndMission`: when it succeeds, path, file and metadata are of one mission,
and the end frame of the metadata, which looks at placed objects too, is no earlier
than the one the exporter writes, which does not (`MetadataDescribesFile`); when it
fails or panics, a metadata may stay without a file, but no path does.
The assumption `None \notin UploadMetadata` says that nil is not a metadata: `GetExportMetadata` tells them apart.

### The save workers

| theorem of `MissionSaveProofs` | states |
|---|---|
| `SavesAreReportedInOrder` | `SSpec => []ReportedOnceInOrder` |
| `QuietUploadsMatch` | `SSpec => []QuietUploadMatchesFile` |

Neither is inductive: a second worker could report first, and an upload is right only
if the path and the metadata read before it were.  `OneWorker` says that between the
compare-and-swap and the store that clears the flag exactly one goroutine exists,
that of the save accepted last; `AllReported` counts the reports by it.
`QuietWorker` follows a save without a mission start in between from call to call:
the last path is the file it wrote, the last metadata describes it, and what it has
read is what it finds.

### The recording handlers

| theorem of `RecorderProofs` | states |
|---|---|
| `SamplesAreAssociated` | `WaitsForOk => (RSpec => []NoSampleLost)` |
| `CachesAreUsable` | `WaitsForOk => (RSpec => []CachesMatchBackend)` |
| `CacheIsOfItsMission` | `WaitsForOk => (RSpec => []DrainedCacheIsCurrent)` |
| `MissionsAreIsolated` | `WaitsForOk => (RSpec => []MissionIsolation)` |
| `MarkersGetTheirStates` | `WaitsForOk => (RSpec => []MarkerStatesAreItsOwn)` |
| `RecordsAsPromised` | `WaitsForOk => (RSpec => ImplementsRecording)` |

All are about a game that waits for `:MISSION:OK:`, as the run is.  The properties look at
the tables; what makes them true is on its way there, so `IInv` says for every
place an item can be in what the later steps need of it.  `Phases` relates the
mission of the game, of the start command and of the backend: they are the same
unless the start has not reached the backend or the mission has ended.  `Sources`:
nothing that is cached, queued or in hand is of a mission whose start is under way.
`EntitiesCached` and `MarkersCached` follow an entry from the command that creates it
through the cache to a goroutine that may put it back; `Associated` follows a
sample from the game to its record.  `Drained` adds that for a game that drains,
all of it is of the mission of the backend, and that the ID a marker state was
looked up by has a record of that name; `Isolated` is what the records then hold.
The first section of the module says what each call of the backend does to the
tables, so that no step looks into a record twice.

*The refinement.*  `Recording` knows no caches, commands or IDs: per stream (a STATE
channel with its goroutine) it has the samples that are pending and the records of
the running mission.  `Recorder` maps `pending` to what the goroutine has in hand
followed by what is in its channel, each message taken for the sample it becomes,
and `recorded` to the tables of the backend, of which nothing counts while no
mission is active.  `Announce` is `:MISSION:START:`, `Begin` and `End` are StartMission
and EndMission, `MakeRecord` is a CREATE command that reaches the backend during a
mission; a handler that looks its event up and keeps it, a takeover, a deletion and a
reset of a cache are stutters.  The first lemmas are about sequences (`ItemsAppended`,
`ItemsTaken`, `QueueSteps`) and tables (`EntitySampled`, `MarkerRecordAdded`, ...) alone;
then there is one lemma per action.  `IInv` comes in where Recording has a guard: a refused
or discarded sample does not matter because `Associated` holds after the step (`lost`
stays empty), a recorded one belongs to its record because of `Drained`, and a record
is made in the running mission because of `Phases`.  `MarkerStatesAreItsOwn`, which no run
checks on its own, is part of what `Recording` says of a record.

### The lifecycle

| theorem of `LifecycleProofs` | states |
|---|---|
| `OksAreTrue` | `LSpec => []OkMeansReady` |
| `BackendIsShared` | `LSpec => [](SerialInits => OneBackend)` |

`StagesDone` says of each stage of `initStorage` what it has behind it: the backend
before the manager, a handler for every command it has done, the callback before
the gate.  It is inductive also for initialisations that overlap, because a backend and a
handler are replaced but never taken away.  `Alone` is its counterpart for one
initialisation at a time: everything done so far is done with its own backend.

### The WebSocket connection

| theorem of `WsConnectionProofs` | states |
|---|---|
| `WorkingConnectionIsServed` | `Spec => []ConnectionIsServed` |
| `FailuresAreNoticed` | `Spec => []BreakIsNoticed` |

`IInv`: `Installed` says which connection may be installed while a reconnect dials
or replays; `Watched` says of what `BreakIsNoticed` promises that it is there while
a finished reconnect still has the flag, too, which is what a failure skipped then
leaves out.  `ConnectionIsServed` is about the connection's own two loops
(`writer[conn]`, `reader[conn]`): a loop of an old connection may take a message for
it, but does not count.  With the other three it is inductive, because a loop that
serves the installed connection ends only by an error of that connection, by close,
or when it finds another connection, or none, in place of its own.

| theorem of `WsConnectionProofs` | states |
|---|---|
| `NothingArrivesTwice` | `Spec => []AtMostOnce` |
| `OrderOfSendIsKept` | `Spec => []SendOrder` |

A message is in one of three places: the channel, the hands of one write loop, or
the server.  `Numbered` says so of the numbers of the messages, with those in the
channel growing and newer than all others; `Dialled` that a connection receives its
replay before anything else.  For the order, `HeldIsNewest` adds that the message a
lone write loop holds is newer than all that arrived and goes to the newest
connection that has received any, and `OneWriter` that it is alone, and that none
runs before the start is replayed.  With `crowded` an old loop can overtake the
replay or a younger one, which is the run `websocket_writers`; that nothing overtakes
the queue holds with it as well.

| theorem of `WsConnectionProofs` | states |
|---|---|
| `AcksAreTrue` | `Spec => []AckMeansReceived` |

An acknowledgement names a kind of message and no message.  `AckInv` says, for a kind
that is not in `surplus`, what makes that enough: a message of the kind that is
still on its way is the one its call waits for (`Awaited`), so is the one that an
acknowledgement on its way back answers, and the server has it (`Acked`), and there is
one such acknowledgement at most, on the connections and in the channel together
(`OneAck`).  `surplus` is given up to exactly where one of the three fails: a
call that stops waiting, and a replayed start.

### The DB writer

| theorem of `DBWriterProofs` | states |
|---|---|
| `StampsAreRight` | `Spec => []StampIsItsMission` |
| `RowsAreOnceInOrder` | `Spec => []RowsOnceInOrder` |

`StampInv` follows a row on its way: one that waits and does not straddle two
missions is of the mission the writer has read or will read
(`WaitingIsCurrent`), the batch is stamped with it (`BatchIsStamped`), and so are the
tables.  A failed insert brings a row back to where it waited.

The rows of one table form a line: those in the table, then the batch that the
writer has taken, then those in its queue (`Line`).  `RowsOnceInOrder` is about the
lines, and inductive with `StampInv` (`LineInv`): a step adds one row at the end of
one line (`GrowLine`), moves rows from one part of a line to the next (`KeepLine`),
or puts a failed batch behind the queue, by which its rows become `requeued`.
`DBWriterAssumption` says that `Markers` is none of the queues: `AddMarker` inserts
at once, and nothing pushes to the queue that the code has for markers.

### The export

| theorem of `ExportV1Proofs` | states |
|---|---|
| `StreamWritesBuild` | `Spec => []StreamMatchesBuild` |
| `EntitiesAreAtTheirIndex` | `Spec => []EntitiesAtTheirIndex` |
| `EventsAreInOrder` | `Spec => []EventsInOrder` |
| `PositionsFollowTheStates` | `Spec => []PositionsFollowStates` |

These are for recordings of any length with any IDs, frames, markers, slices and shots.
Three invariants carry them: `Recorded` (the types, and that the fired events of a
record are its soldier's),
`StreamInv` (Stream has written the entities of the first IDs, one by one, and is in
the loop only while one is left), and `Timely` (the states of a unit and the events of
a slice are in the order of their frames).  The rest is about what the operators of
the export compute:

* The greatest of a finite set is one of its numbers (`MaxIsGreatest`); numbers
  can be put in order (`CanBeOrdered`, `InOrderIs`); a list of lists, laid end
  to end, is in order and has each item once (`FlattenIs`, `EndToEndAppend`).
  These are proved by induction although the induction rules of the
  library, which take an operator, cannot be used: the natural numbers are well-founded
  and `WFMin` gives the least number for which a concrete statement fails
  (`LeastNumber`).  In the same way the function inside `FlattenSeq`, which
  is defined by recursion, is shown to exist (`FlattenExists`).
* Build and Stream find the same last frame and the same greatest ID
  (`SameAggregates`) and make the same entity of an ID (`SameEntity`), as long as
  the ID is one unit's and a bullet was not fired by something else; the two
  collectors append the same rows in the same order (`BuildCollectsTheSame`); `BuildLength` is the arithmetic of
  `uint16`, where the greatest ID wraps around.
* The fired events and the bullets of a soldier are drawn once (`ShotsOnce`); the collected events have each
  event of the recording once, those of a slice in order (`Collected`), and the sort
  by frame, which is stable, keeps both (`SortStableSorts`).
* Of the states of a unit, in the order of their frames, exactly one shows in a frame
  between the first and the end (`OneStateShows`); from this come the
  ranges of a vehicle and the positions of a soldier, whose list has no gap.

`ExportAssumption` demands what the code has by its types: placed objects have
`uint16` IDs like entities, and the slices are a list of different fields of
`MissionData`, none of which is that of the placed objects or the projectiles.

### A call and its row

| theorem of `IntakeProofs` | states |
|---|---|
| `ReferencesAreResolved` | `Spec => []ReferencesResolve` |
| `RowsAreTheirGames` | `Spec => []RowsAreTheGames` |
| `NothingOfACallIsLost` | `NoneHidden` implies `Spec => []NothingIsLost` |

The objects of the mission are any sets of IDs, with any players and any number of
soldiers whose IDs do not fit in 16 bits but in the 32 of an integer column
(`IDsAreDistinct`); the values of a call are any up to 65535, which a `float32` holds
exactly (`SizesAreSmall`).

*What a row refers to.*  `IInv` follows the lookups of a handler: every one that must
succeed is still to be made or has found its object (`LookupInv`), so that when
none is left all have; what optional lookups have found is in the caches
(`FoundInCache`); the caches only grow, and hold what the backend has or is
being given.  That the row refers to what was looked up, and to nothing else, is
`RowsRefer`, one lemma per kind of command; a death has two such lookups, of the
victim and of the last damage source (`DeathsRefer`).

*What its columns hold.*  `CallInv` keeps a recorded row equal to what the parser, the
handler and the conversion make of the call and of what its lookups found
(`Recorded`), and what they found is what `Lookups` asked for (`FoundBy`).  The rest is
about one such row.  Whatever is particular to a command is read off the tables first,
one command a step: that a parse function reads arguments the command has, with a
conversion for them (`TheReads`), that the field of a column reads the argument the
column is for (`TheColumns`), that the conversion narrows its value no more than the
column does (`TheWidths`), that the row takes the field over (`TheRows`).  Then, for
any command: a conversion in its place accepts the argument however the game writes its
numbers, and what it returns stands for the number, for its low bits or for nobody
(`ConvertStands`); so does a field that is read and not flawed, whatever else of the call is flawed
(`FieldStands`, and `ScoresAreOfPlayers` for the field that is read of players only);
and the column does (`CopiedHolds`; `PositionsHold` for trajectories, `KillsHold` and
`HitsHold` for the columns that are filled from lookups).

*What becomes of a call in good order.*  Such a call is understood
(`WholeIsUnderstood`), and a lookup that must succeed is for an object it names, of a
kind the lookup finds (`LookupsAreNamed`).  `LossInv` says that the caches hold objects
of the mission, those known when the call was sent among them, that the lookups
already made have found whatever of these they were for (`SettledInv`), and that a call
in good order is refused only for an object that was not known (`RefusedInv`).

`NoneHidden` is the hypothesis that no soldier whose ID needs more than 16 bits has
the low bits of another kind of object.  The property is false without it, in the code as in the
model: with soldier 65573 and vehicle 37, `EntityCache` has both under 37, and
`classifyEntity` finds the soldier.  The instance of the run satisfies it.

### Only model-checked

* Liveness (`QueuedIsHandled`, `CallsReturn`, `SavesAreReported`, `StartDoesNotHang`,
  `CloseEnds`, `AllWritten`): fairness and ENABLED are beyond the prover.

Every safety property of a passing run is a theorem as well.

No module declares a RECURSIVE operator.

## 6. Where the code and its documents disagree

With a run:

* `save_upload_race`: the worker reads path and metadata in two calls
  (`mission_save.go:90`); a mission that starts in between has its live metadata
  uploaded with the old file.  `GetExportMetadata` "returns metadata about the last
  export", and live data only "while a mission is still active"
  (`memory.go:495-497`): the comment describes both answers, but not that the worker
  may get the second one for the file of the first.
* `websocket_writers`: a read error starts a reconnect while the write loop waits
  in its select and goes on living ("Only one writeLoop runs at a time",
  `connection.go:92`).
* `intake_actual_firer`: `ParseProjectileEvent` never reads the remote controller
  (`parse_events.go:36` and following), so the row of every projectile names soldier
  0 as "OCAP ID of actual controller" (`model.go:340`).  The foreign key to the
  soldiers refuses it, with its whole batch, unless a soldier 0 exists.  The parser
  dropped the field on purpose (`parse_events_test.go:432-438`); the column and its
  comment are still there.

Without one, because a property about them would restate a line, or because
nothing in the repository says what should happen:

* `:MISSION:START:` is buffered, blocking and gated (`main.go:406`): before the gate
  opens a second one parks the game thread, which alone could send
  `:STORAGE:INIT:` ("don't block ArmA's game loop", `README.md:71`).
  `StartDoesNotHang` is therefore about what happens after `:STORAGE:OK:`.
* Stream gives the lines of an ID to soldiers only, Build to whatever stands there
  (`stream.go:86` against `stream.go:22`).  `StreamMatchesBuild` excepts recordings
  in which anything else fires.
* Of a soldier and a vehicle with one ID, Build keeps the vehicle (`builder.go:151-159`),
  Stream the soldier.  `StreamMatchesBuild` excepts such recordings,
  `EntitiesAtTheirIndex` says which of them is in the file.
* The end frame of the metadata looks at the samples of entities only, as the one of
  the file does but for placed objects; event rows and marker states may be later
  (`memory.go:584-631`).  `PathMatchesMetadata` claims nothing of those.
* Bearings, life states, scores, the owner of a marker and the vehicle a soldier is
  in are read with `Atoi`, its error dropped: 12.00, the form `parser.go:12-13` says the
  game may use, becomes 0, and a soldier who is in no vehicle is in vehicle 0.
  `RowsAreTheGames` excepts these columns for a game that writes floats.
* A score beyond 255 wraps (`parse_soldier.go:156`), and so does a life state
  (`:128`) and the channel of a radio beyond 127 (`parse_chat.go:106`); a bearing and
  the IDs of entities keep 16 bits.  `RowsAreTheGames` states the 16 bits, and of
  the smaller columns only the values they have room for.
* Chat and radio events look up the low 16 bits of the sender and keep the whole ID
  (`dispatch.go:317`), and so does the last damage source of a death
  (`dispatch.go:372-379`).  Of these `ReferencesResolve` says that the low bits are
  those of an object: the whole ID may name nobody, and the check may pass for another.
* A kill whose objects are unknown is recorded with neither of the two columns set,
  where `model.go` says that one will be.
* Buffered recording handlers are registered without `Gated` and only after
  `:STORAGE:INIT:`; events sent before are "unknown command", not queued
  (`dispatch.go:19` against the README's "events queue in channels until the
  storage backend is ready").
* The in-flight flag is cleared after the `:MISSION:SAVED:` callback
  (`mission_save.go:50`).
* `SetFocusStart` and `SetFocusEnd` return nil where their comments say error
  (`memory.go:456`, `476`).
* `:MISSION:SAVE:` does not wait for queued events (`mission_save.go:74`).
* A takeover writes a soldier back that was read before the caches were reset
  (`dispatch.go:145`): `DrainedCacheIsCurrent` holds only for a game that drains.
* A reconnect that was dialling during close installs a connection that nobody
  closes (`connection.go:201`).  A failure noticed while a finished reconnect still
  holds its flag starts none (`connection.go:165`): `BreakIsNoticed` excepts it by
  `missed`.  An acknowledgement that comes too late, or that of a replayed start,
  answers a later call (`connection.go:238-247`): `AckMeansReceived` excepts it by
  `surplus`.  Without its exception TLC refutes either.
* The error of the deferred `Close` of the gzip writer is lost, so a failing flush
  of the last bytes counts as success (`export.go`).
* Database rows are stamped when they are written.  A soldier written under one
  mission whose state is still queued when the next one starts leaves a state that
  breaks the key of its table in every later cycle, and every state after it is
  put back with it.  A commit error is ignored, with the same effect on the rows
  about the lost entity.  `AllWritten` is therefore stated for
  behaviours without such rows (`straddling`, `lost`).  A mission start that fails leaves the old mission's ID in
  place while the caches are empty, so that entities sent again break the key of
  their table in the same way.

## 7. What is not modelled

* `parse_mission.go`, `CoreToMission` and `CoreToWorld`: the fields of a mission are
  copied from the JSON of the game to a row, and nothing else reads them.
* Polylines of markers, quoting, number formatting, the texts a handler puts together
  from its arguments: stateless conversion of text.
* The SQLite dump: removing the old file and `VACUUM INTO` are two calls without
  other state; a crash between them leaves no dump.  No document promises one.
* The names of export files, which hold a second of the clock.
* HTTP, the payload of WebSocket messages and the marker IDs of that backend.
* Logging, OTel, configuration, module paths, the C entry points: no state the
  recorder depends on afterwards.

## 8. Plan

Written, in this order: `Dispatcher` with `OrderedDelivery` and its proofs (all
else rests on delivery), `MemoryBackend`, `MissionSave` and `Recorder` on top of
it, `Lifecycle`, `WsConnection`, `ExportV1`, `DBWriter`; then the
acknowledgements of `WsConnection`, `Parser`, `GormModel` and `Intake`, and the
proofs about all modules but `Parser` and `GormModel`, which are proved about
in those of `Intake`; and `Recording`, which `Recorder` implements.

Left: `DBWriter` under `Recorder`'s mission start, with the resets as steps, and the
proofs of what that module will state.
