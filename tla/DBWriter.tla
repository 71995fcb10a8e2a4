------------------------------- MODULE DBWriter -------------------------------
(***************************************************************************)
(* The database backend (internal/storage/postgres, which the SQLite       *)
(* backend embeds): recording methods push rows to one queue per table,    *)
(* and a goroutine, the DB writer, takes the queues one after the other    *)
(* every two seconds, stamps the rows with the mission ID it read at the   *)
(* start of the cycle and inserts each queue in a transaction.             *)
(*                                                                         *)
(* A row is the object it is about and its place in the order of all       *)
(* calls.  The database is external: an insert fails when it breaks a key  *)
(* of the tables, and an insert or a commit may fail for any other reason  *)
(* up to MaxFailures times.                                                *)
(***************************************************************************)
EXTENDS Integers, Sequences, FiniteSets, SequencesExt

CONSTANTS
    Order,          \* the queues, in the order the writer takes them
    Entities,       \* queues of rows that are keyed by mission and object
    Parent,         \* queue of rows about an entity |-> queue of the entity
    Objs,           \* object IDs and marker names
    MaxMissions,    \* bound: missions that start
    MaxRows,        \* bound: rows recorded
    MaxFailures     \* bound: failures of the database besides broken keys

Queues  == Range(Order)
Tables  == Queues \union {"Markers"}      \* markers are inserted at once

\* There is a queue for markers too, but nothing pushes to it (AddMarker needs
\* the ID that the insert returns).
ASSUME DBWriterAssumption ==
    /\ Order \in Seq(STRING) /\ IsInjective(Order)
    /\ "Markers" \notin Queues
    /\ Entities \subseteq Queues
    /\ Parent \in [DOMAIN Parent -> Entities \union {"Markers"}]
    /\ DOMAIN Parent \subseteq Queues \ Entities
    /\ MaxMissions \in Nat /\ MaxRows \in Nat /\ MaxFailures \in Nat

VARIABLES
    missionID,      \* Backend.missionID, 0 before the first mission
    known,          \* entities and markers of the mission in the two caches
    queues,         \* the rows waiting for each table
    table,          \* the rows of each table, in the order of insertion
    deleted,        \* markers with is_deleted set
    stopped,        \* is stopChan closed?
    pc,             \* the writer: "top", "cycle", "insert" or "stopped"
    cursor,         \* the queue it is at, as an index of Order
    cycleID,        \* the mission ID it has read for this cycle
    batch,          \* the rows it has taken
    failures,       \* bound: failures so far
    rows,           \* history: number of rows recorded
    requeued,       \* history: rows that a failed insert put back
    lost,           \* history: rows whose commit failed
    current,        \* history: is missionID that of the mission played?
    straddling      \* history: rows waiting when a mission started, or
                    \* recorded while missionID or cycleID is of another one

writer  == <<pc, cursor, cycleID, batch>>
history == <<rows, requeued, lost, current, straddling>>
vars == <<missionID, known, queues, table, deleted, stopped, writer,
          failures, history>>

NoRows == [k \in Queues |-> <<>>]
NewRow(o) == [n |-> rows + 1, obj |-> o, mission |-> missionID,
              stamp |-> missionID]
NumbersOf(rs) == {rs[i].n : i \in DOMAIN rs}
Waiting == NumbersOf(batch) \union UNION {NumbersOf(queues[k]) : k \in Queues}
InCycle == pc \in {"cycle", "insert"}

\* Init has created the queues, migrated the schema and started the writer.
Init ==
    /\ missionID = 0 /\ known = {}
    /\ queues = NoRows /\ table = [t \in Tables |-> <<>>] /\ deleted = {}
    /\ stopped = FALSE
    /\ pc = "top" /\ cursor = 1 /\ cycleID = 0 /\ batch = <<>>
    /\ failures = 0
    /\ rows = 0 /\ requeued = {} /\ lost = {}
    /\ current = FALSE /\ straddling = {}

-----------------------------------------------------------------------------
(* The callers *)

\* handleNewMission resets the caches; the backend inserts the mission and
\* stores its ID for the writer, whatever is still queued.
StartMission ==
    /\ missionID < MaxMissions
    /\ missionID' = missionID + 1
    /\ known' = {}
    /\ current' = TRUE
    /\ straddling' = straddling \union Waiting
    /\ UNCHANGED <<queues, table, deleted, stopped, writer, failures, rows,
                   requeued, lost>>

\* An addon, the world or the mission could not be inserted: the caches are
\* empty, the old mission goes on.
StartMissionFails ==
    /\ failures < MaxFailures
    /\ failures' = failures + 1
    /\ known' = {}
    /\ current' = FALSE
    /\ UNCHANGED <<missionID, queues, table, deleted, stopped, writer, rows,
                   requeued, lost, straddling>>

\* (As it would be if rows were put before those that wait.)
PushedInFront(q, rs) == rs \o q

\* The end of the queue, for new rows and for those of a failed insert.
Pushed(q, rs) == q \o rs

Push(k, o) ==
    /\ rows < MaxRows
    /\ rows' = rows + 1
    /\ queues' = [queues EXCEPT ![k] = Pushed(@, <<NewRow(o)>>)]
    /\ straddling' = IF current /\ (InCycle => cycleID = missionID)
                     THEN straddling ELSE straddling \union {rows + 1}
    /\ UNCHANGED <<missionID, table, stopped, writer, failures, requeued,
                   lost, current>>

\* AddSoldier, AddVehicle, AddPlacedObject: the game numbers them.
AddEntity(k, o) ==
    /\ <<k, o>> \notin known
    /\ known' = known \union {<<k, o>>}
    /\ Push(k, o)
    /\ UNCHANGED deleted

\* The other recording methods: the handlers have found the entity or the
\* marker the row is about in a cache.
RecordRow(k, o) ==
    /\ k \in DOMAIN Parent => <<Parent[k], o>> \in known
    /\ Push(k, o)
    /\ UNCHANGED <<known, deleted>>

\* AddMarker inserts at once, to know the ID; the caller caches it.
AddMarker(o) ==
    /\ rows < MaxRows
    /\ missionID # 0
    /\ rows' = rows + 1
    /\ table' = [table EXCEPT !["Markers"] = Append(@, NewRow(o))]
    /\ known' = known \union {<<"Markers", o>>}
    /\ straddling' = IF current THEN straddling
                     ELSE straddling \union {rows + 1}
    /\ UNCHANGED <<missionID, queues, deleted, stopped, writer, failures,
                   requeued, lost, current>>

\* DeleteMarker queues a last state of the marker and sets is_deleted at
\* once; an error of the update is ignored.
DeleteMarker(k, o) ==
    /\ <<"Markers", o>> \in known
    /\ deleted' \in {deleted, deleted \union {o}}
    /\ Push(k, o)
    /\ UNCHANGED known

Close ==
    /\ ~stopped
    /\ stopped' = TRUE
    /\ UNCHANGED <<missionID, known, queues, table, deleted, writer, failures,
                   history>>

-----------------------------------------------------------------------------
(* The DB writer *)

\* Only here, between two cycles, does the writer look at stopChan.
StopWriter ==
    /\ pc = "top" /\ stopped
    /\ pc' = "stopped"
    /\ UNCHANGED <<missionID, known, queues, table, deleted, stopped, cursor,
                   cycleID, batch, failures, history>>

\* (As it would be if the ID were read once, before the loop.)
ReadMissionIDOnce == IF cycleID = 0 THEN missionID ELSE cycleID

ReadMissionID == missionID

BeginCycle ==
    /\ pc = "top" /\ ~stopped
    /\ pc' = "cycle"
    /\ cycleID' = ReadMissionID
    /\ cursor' = 1
    /\ UNCHANGED <<missionID, known, queues, table, deleted, stopped, batch,
                   failures, history>>

SkipEmpty ==
    /\ pc = "cycle" /\ cursor <= Len(Order)
    /\ queues[Order[cursor]] = <<>>
    /\ cursor' = cursor + 1
    /\ UNCHANGED <<missionID, known, queues, table, deleted, stopped, pc,
                   cycleID, batch, failures, history>>

\* prepare: rows that come back are stamped anew.
Stamped(rs) == [i \in DOMAIN rs |-> [rs[i] EXCEPT !.stamp = cycleID]]

\* The transaction is open; GetAndEmpty.
TakeBatch ==
    /\ pc = "cycle" /\ cursor <= Len(Order)
    /\ queues[Order[cursor]] # <<>>
    /\ batch' = Stamped(queues[Order[cursor]])
    /\ queues' = [queues EXCEPT ![Order[cursor]] = <<>>]
    /\ pc' = "insert"
    /\ UNCHANGED <<missionID, known, table, deleted, stopped, cursor, cycleID,
                   failures, history>>

SameKey(r, s) == r.obj = s.obj /\ r.stamp = s.stamp

\* The keys of the tables (model.go): a row belongs to a mission, an entity is
\* unique in it, and a row about a soldier or a vehicle refers to one of the
\* same mission.  Rows about a marker refer to it by its own ID.
KeysHold ==
    LET k == Order[cursor] IN
    \A i \in DOMAIN batch :
        /\ batch[i].stamp # 0
        /\ k \in Entities =>
              /\ \A r \in Range(table[k]) : ~SameKey(r, batch[i])
              /\ \A j \in DOMAIN batch : j # i => ~SameKey(batch[j], batch[i])
        /\ k \in DOMAIN Parent /\ Parent[k] # "Markers" =>
              \E r \in Range(table[Parent[k]]) : SameKey(r, batch[i])

NextQueue ==
    /\ pc' = "cycle"
    /\ cursor' = cursor + 1
    /\ batch' = <<>>
    /\ UNCHANGED cycleID

Written ==
    /\ pc = "insert" /\ KeysHold
    /\ table' = [table EXCEPT ![Order[cursor]] = @ \o batch]
    /\ NextQueue
    /\ UNCHANGED <<missionID, known, queues, deleted, stopped, failures,
                   history>>

\* The insert is rolled back and the rows go to the end of their queue.
InsertFails ==
    /\ pc = "insert"
    /\ \/ ~KeysHold /\ UNCHANGED failures
       \/ failures < MaxFailures /\ failures' = failures + 1
    /\ queues' = [queues EXCEPT ![Order[cursor]] = Pushed(@, batch)]
    /\ requeued' = requeued \union NumbersOf(batch)
    /\ NextQueue
    /\ UNCHANGED <<missionID, known, table, deleted, stopped, rows, lost,
                   current, straddling>>

\* The error of Commit is not looked at: the rows are gone.
CommitFails ==
    /\ pc = "insert" /\ KeysHold
    /\ failures < MaxFailures
    /\ failures' = failures + 1
    /\ lost' = lost \union NumbersOf(batch)
    /\ NextQueue
    /\ UNCHANGED <<missionID, known, queues, table, deleted, stopped, rows,
                   requeued, current, straddling>>

\* (As it would be if the goroutine ended when rows are left.)
SleepUnlessRowsAreLeft ==
    /\ pc = "cycle" /\ cursor > Len(Order)
    /\ pc' = IF queues = NoRows THEN "top" ELSE "stopped"
    /\ UNCHANGED <<missionID, known, queues, table, deleted, stopped, cursor,
                   cycleID, batch, failures, history>>

\* All queues have been visited: two seconds of sleep.
Sleep ==
    /\ pc = "cycle" /\ cursor > Len(Order)
    /\ pc' = "top"
    /\ UNCHANGED <<missionID, known, queues, table, deleted, stopped, cursor,
                   cycleID, batch, failures, history>>

Callers ==
    \/ StartMission \/ StartMissionFails \/ Close
    \/ \E o \in Objs : AddMarker(o)
    \/ \E k \in Entities, o \in Objs : AddEntity(k, o)
    \/ \E k \in Queues \ Entities, o \in Objs : RecordRow(k, o)
    \/ \E k \in Queues, o \in Objs :
          k \in DOMAIN Parent /\ Parent[k] = "Markers" /\ DeleteMarker(k, o)

Writer == StopWriter \/ BeginCycle \/ SkipEmpty \/ TakeBatch \/ Written
          \/ InsertFails \/ CommitFails \/ Sleep

Next == Callers \/ Writer

Spec == Init /\ [][Next]_vars

\* The writer is a goroutine that never waits for anything but the database.
FairSpec == Spec /\ WF_vars(Writer)

-----------------------------------------------------------------------------
(* Properties *)

\* The rows of a table, in the order in which they were or will be inserted:
\* those in it, those the writer has taken for it, those in its queue.
Taken(t)  == IF cursor \in DOMAIN Order /\ Order[cursor] = t THEN batch ELSE <<>>
Queued(t) == IF t \in Queues THEN queues[t] ELSE <<>>
Line      == [t \in Tables |-> table[t] \o Taken(t) \o Queued(t)]

\* Every row that was recorded is in its queue, with the writer, in the table
\* or lost by a failed commit, and in one of them only, once; rows stand in the
\* order of the calls, but for those an insert put back into the queue
\* (writeQueue takes a queue while its callers go on pushing).
RowsOnceInOrder ==
    /\ \A n \in (1..rows) \ lost :
          \E t \in Tables : \E i \in DOMAIN Line[t] : Line[t][i].n = n
    /\ \A t \in Tables : \A i \in DOMAIN Line[t] :
          /\ Line[t][i].n \in (1..rows) \ lost
          /\ \A u \in Tables : \A j \in DOMAIN Line[u] :
                Line[u][j].n = Line[t][i].n => u = t /\ j = i
          /\ \A j \in DOMAIN Line[t] :
                i < j /\ Line[t][i].n > Line[t][j].n => Line[t][j].n \in requeued

\* A row carries the mission it was recorded in, unless it was still waiting
\* when the next mission started or was recorded in a cycle that had read the
\* mission ID before (the ID is read once per cycle, not per row).
StampIsItsMission ==
    \A t \in Tables : \A r \in Range(table[t]) :
        r.n \notin straddling => r.stamp = r.mission

\* As long as no commit fails and no row straddles two missions, every row is
\* written in the end, also one that was taken before the entity it refers to
\* and one whose insert failed (the test's "all queued records should be
\* written to DB").  One straddling or lost entity is enough to refute it: the
\* rows about it are refused in every cycle, and with them their whole queue.
AllWritten ==
    \A n \in 1..MaxRows :
        rows >= n ~> \/ \E t \in Tables : n \in NumbersOf(table[t])
                     \/ stopped
                     \/ lost # {} \/ straddling # {}
=============================================================================
