---------------------------- MODULE DBWriterProofs ----------------------------
(***************************************************************************)
(* Proofs about DBWriter, for any queues, objects, missions, rows and      *)
(* failures of the database.                                               *)
(***************************************************************************)
EXTENDS DBWriter, TLAPS

Row == [n : Nat, obj : Objs, mission : Nat, stamp : Nat]

\* The types of what the rows pass through.
WTypes ==
    /\ missionID \in Nat /\ cycleID \in Nat /\ rows \in Nat
    /\ cursor \in Nat \ {0}
    /\ queues \in [Queues -> Seq(Row)]
    /\ table \in [Tables -> Seq(Row)]
    /\ batch \in Seq(Row)

\* A row that waits and does not straddle two missions is of the mission that
\* the writer has read, or will read.
WaitingIsCurrent ==
    \A k \in Queues : \A i \in DOMAIN queues[k] :
        queues[k][i].n \notin straddling =>
            /\ queues[k][i].mission = missionID
            /\ InCycle => cycleID = missionID

\* The rows the writer has taken are stamped already.
BatchIsStamped ==
    \A i \in DOMAIN batch :
        /\ batch[i].stamp = cycleID
        /\ batch[i].n \notin straddling =>
              /\ batch[i].mission = missionID
              /\ cycleID = missionID

\* Only a writer that is to insert it has a batch, and it knows the queue.
BatchInHand == IF pc = "insert" THEN cursor <= Len(Order) ELSE batch = <<>>

TablesAreStamped ==
    \A t \in Tables : \A i \in DOMAIN table[t] :
        table[t][i].n \notin straddling => table[t][i].stamp = table[t][i].mission

StampInv == WTypes /\ WaitingIsCurrent /\ BatchIsStamped /\ BatchInHand /\ TablesAreStamped

-----------------------------------------------------------------------------
\* The elements of a concatenation are those of its parts.
LEMMA ConcatRows ==
    ASSUME NEW a \in Seq(Row), NEW b \in Seq(Row)
    PROVE  /\ a \o b \in Seq(Row)
           /\ \A i \in DOMAIN (a \o b) :
                 \/ i \in DOMAIN a /\ (a \o b)[i] = a[i]
                 \/ \E j \in DOMAIN b : (a \o b)[i] = b[j]
<1>1. a \o b \in Seq(Row)
    OBVIOUS
<1>2. ASSUME NEW i \in DOMAIN (a \o b), i > Len(a)
      PROVE  \E j \in DOMAIN b : (a \o b)[i] = b[j]
  <2>1. i - Len(a) \in DOMAIN b /\ (a \o b)[i] = b[i - Len(a)]
    BY <1>2
  <2> QED
    BY <2>1
<1>3. ASSUME NEW i \in DOMAIN (a \o b), i <= Len(a)
      PROVE  i \in DOMAIN a /\ (a \o b)[i] = a[i]
    BY <1>3
<1> QED
    BY <1>1, <1>2, <1>3

\* Where the rows of an appended queue come from.
LEMMA AppendRow ==
    ASSUME NEW a \in Seq(Row), NEW r \in Row
    PROVE  /\ Append(a, r) \in Seq(Row) /\ a \o <<r>> \in Seq(Row)
           /\ \A i \in DOMAIN Append(a, r) :
                 \/ i \in DOMAIN a /\ Append(a, r)[i] = a[i]
                 \/ Append(a, r)[i] = r
           /\ \A i \in DOMAIN (a \o <<r>>) :
                 \/ i \in DOMAIN a /\ (a \o <<r>>)[i] = a[i]
                 \/ (a \o <<r>>)[i] = r
    OBVIOUS

\* The queues are named in the order in which a cycle writes them.
LEMMA QueueNames == \A c \in DOMAIN Order : Order[c] \in Queues /\ Order[c] \in Tables
    BY DEF Queues, Tables, Range

\* A caller pushes a row, which enters at the end of its queue.
LEMMA PushStep ==
    ASSUME StampInv, NEW k \in Queues, NEW o \in Objs, Push(k, o)
    PROVE  StampInv'
<1> USE DEF StampInv, WTypes
<1>1. NewRow(o) \in Row /\ NewRow(o).n = rows + 1 /\ NewRow(o).mission = missionID
    BY DEF NewRow, Row
<1>2. /\ queues' = [queues EXCEPT ![k] = @ \o <<NewRow(o)>>]
      /\ UNCHANGED <<missionID, cycleID, pc, cursor, batch, table>>
      /\ rows' = rows + 1
      /\ straddling \subseteq straddling'
      /\ rows + 1 \in straddling' \/ (InCycle => cycleID = missionID)
    BY DEF Push, Pushed, writer
<1>3. WTypes'
    BY <1>1, <1>2, AppendRow
<1>4. WaitingIsCurrent'
  <2> SUFFICES ASSUME NEW q \in Queues, NEW i \in DOMAIN queues'[q],
                      queues'[q][i].n \notin straddling'
               PROVE  /\ queues'[q][i].mission = missionID
                      /\ InCycle => cycleID = missionID
    BY <1>2 DEF WaitingIsCurrent, InCycle
  <2>1. CASE q # k \/ (q = k /\ i \in DOMAIN queues[k] /\ queues'[q][i] = queues[k][i])
    BY <1>2, <2>1 DEF WaitingIsCurrent
  <2>2. CASE q = k /\ queues'[q][i] = NewRow(o)
    BY <1>1, <1>2, <2>2
  <2> QED
    BY <1>1, <1>2, <2>1, <2>2, AppendRow
<1>5. BatchIsStamped' /\ BatchInHand' /\ TablesAreStamped'
    BY <1>2 DEF BatchIsStamped, BatchInHand, TablesAreStamped
<1> QED
    BY <1>3, <1>4, <1>5

\* A marker row is stamped at once, with the mission that runs (AddMarker).
LEMMA AddMarkerStep ==
    ASSUME StampInv, NEW o \in Objs, AddMarker(o)
    PROVE  StampInv'
<1> USE DEF StampInv, WTypes
<1>1. NewRow(o) \in Row /\ NewRow(o).stamp = NewRow(o).mission
    BY DEF NewRow, Row
<1>2. /\ table' = [table EXCEPT !["Markers"] = Append(@, NewRow(o))]
      /\ UNCHANGED <<missionID, cycleID, pc, cursor, batch, queues>>
      /\ rows' = rows + 1
      /\ straddling \subseteq straddling'
    BY DEF AddMarker, writer
<1>3. "Markers" \in Tables
    BY DEF Tables
<1>4. WTypes'
    BY <1>1, <1>2, <1>3, AppendRow
<1>5. TablesAreStamped'
  <2> SUFFICES ASSUME NEW t \in Tables, NEW i \in DOMAIN table'[t],
                      table'[t][i].n \notin straddling'
               PROVE  table'[t][i].stamp = table'[t][i].mission
    BY DEF TablesAreStamped
  <2> QED
    BY <1>1, <1>2, <1>3, AppendRow DEF TablesAreStamped
<1>6. WaitingIsCurrent' /\ BatchIsStamped' /\ BatchInHand'
    BY <1>2 DEF WaitingIsCurrent, BatchIsStamped, BatchInHand, InCycle
<1> QED
    BY <1>4, <1>5, <1>6

\* Whatever waits when a mission starts straddles.
LEMMA StartStep ==
    ASSUME StampInv, StartMission
    PROVE  StampInv'
<1> USE DEF StampInv, WTypes
<1>1. /\ missionID' = missionID + 1
      /\ straddling' = straddling \union Waiting
      /\ UNCHANGED <<queues, table, cycleID, pc, cursor, batch, rows>>
    BY DEF StartMission, writer
<1>2. ASSUME NEW k \in Queues, NEW i \in DOMAIN queues[k]
      PROVE  queues[k][i].n \in Waiting
  <2>1. queues[k][i].n \in NumbersOf(queues[k])
    BY Zenon DEF NumbersOf
  <2> QED
    BY <2>1, Zenon DEF Waiting
<1>3. ASSUME NEW i \in DOMAIN batch
      PROVE  batch[i].n \in Waiting
  <2> DEFINE inQueues == UNION {NumbersOf(queues[k]) : k \in Queues}
  <2>1. batch[i].n \in NumbersOf(batch)
    BY Zenon DEF NumbersOf
  <2>2. Waiting = inQueues \union NumbersOf(batch)
    BY DEF Waiting
  <2> HIDE DEF inQueues
  <2> QED
    BY <2>1, <2>2
<1>4. WTypes'
    BY <1>1
<1>5. WaitingIsCurrent'
    BY <1>1, <1>2 DEF WaitingIsCurrent
<1>6. BatchIsStamped'
    BY <1>1, <1>3 DEF BatchIsStamped
<1>7. BatchInHand' /\ TablesAreStamped'
    BY <1>1 DEF BatchInHand, TablesAreStamped
<1> QED
    BY <1>4, <1>5, <1>6, <1>7

\* GetAndEmpty moves the rows of a queue to the batch and stamps none.
LEMMA TakeStep ==
    ASSUME StampInv, TakeBatch
    PROVE  StampInv'
<1> USE DEF StampInv, WTypes
<1> DEFINE k == Order[cursor]
<1>1. k \in Queues
    BY QueueNames, DBWriterAssumption DEF TakeBatch
<1>2. /\ batch' = Stamped(queues[k])
      /\ queues' = [queues EXCEPT ![k] = <<>>]
      /\ pc = "cycle" /\ pc' = "insert" /\ cursor <= Len(Order)
      /\ UNCHANGED <<missionID, table, cycleID, cursor, rows, straddling>>
    BY DEF TakeBatch, history
<1>3. /\ batch' \in Seq(Row) /\ DOMAIN batch' = DOMAIN queues[k]
      /\ \A i \in DOMAIN batch' : /\ batch'[i].n = queues[k][i].n
                                  /\ batch'[i].mission = queues[k][i].mission
                                  /\ batch'[i].stamp = cycleID
  <2> DEFINE q == queues[k]
  <2>1. q \in Seq(Row)
    BY <1>1
  <2>2. batch' = [i \in DOMAIN q |-> [q[i] EXCEPT !.stamp = cycleID]]
    BY <1>2 DEF Stamped
  <2> HIDE DEF q
  <2>3. ASSUME NEW i \in DOMAIN q
        PROVE  /\ [q[i] EXCEPT !.stamp = cycleID] \in Row
               /\ [q[i] EXCEPT !.stamp = cycleID].n = q[i].n
               /\ [q[i] EXCEPT !.stamp = cycleID].mission = q[i].mission
               /\ [q[i] EXCEPT !.stamp = cycleID].stamp = cycleID
    <3>1. q[i] \in Row
      BY <2>1
    <3> QED
      BY <3>1 DEF Row
  <2>4. DOMAIN q = 1..Len(q) /\ Len(q) \in Nat
    BY <2>1
  <2>5. batch' \in Seq(Row) /\ DOMAIN batch' = DOMAIN q
    BY <2>2, <2>3, <2>4
  <2> QED
    BY <2>2, <2>3, <2>5 DEF q
<1>4. WTypes'
    BY <1>1, <1>2, <1>3
<1>5. WaitingIsCurrent'
  <2> SUFFICES ASSUME NEW q \in Queues, NEW i \in DOMAIN queues'[q],
                      queues'[q][i].n \notin straddling
               PROVE  /\ queues'[q][i].mission = missionID
                      /\ cycleID = missionID
    BY <1>2 DEF WaitingIsCurrent
  <2>1. q # k /\ queues'[q] = queues[q]
    BY <1>1, <1>2
  <2> QED
    BY <1>2, <2>1 DEF WaitingIsCurrent, InCycle
<1>6. BatchIsStamped'
  <2> SUFFICES ASSUME NEW i \in DOMAIN batch'
               PROVE  /\ batch'[i].stamp = cycleID
                      /\ batch'[i].n \notin straddling =>
                            /\ batch'[i].mission = missionID
                            /\ cycleID = missionID
    BY <1>2 DEF BatchIsStamped
  <2> QED
    BY <1>1, <1>2, <1>3 DEF WaitingIsCurrent, InCycle
<1>7. BatchInHand' /\ TablesAreStamped'
    BY <1>2 DEF BatchInHand, TablesAreStamped
<1> QED
    BY <1>4, <1>5, <1>6, <1>7

\* The three ends of an insert.
LEMMA InsertStep ==
    ASSUME StampInv, Written \/ InsertFails \/ CommitFails
    PROVE  StampInv'
<1> USE DEF StampInv, WTypes
<1> DEFINE k == Order[cursor]
<1>1. k \in Queues /\ k \in Tables
    BY QueueNames, DBWriterAssumption DEF BatchInHand, Written, InsertFails, CommitFails
<1>2. /\ pc = "insert" /\ pc' = "cycle" /\ batch' = <<>> /\ cursor' = cursor + 1
      /\ UNCHANGED <<missionID, cycleID, rows, straddling>>
    BY DEF Written, InsertFails, CommitFails, NextQueue, history
<1>3. BatchIsStamped' /\ BatchInHand'
    BY <1>2 DEF BatchIsStamped, BatchInHand
<1>4. CASE Written
  <2>1. table' = [table EXCEPT ![k] = @ \o batch] /\ UNCHANGED queues
    BY <1>4 DEF Written
  <2>2. WTypes'
    BY <1>1, <1>2, <2>1, ConcatRows
  <2>3. TablesAreStamped'
    <3> SUFFICES ASSUME NEW t \in Tables, NEW i \in DOMAIN table'[t],
                        table'[t][i].n \notin straddling
                 PROVE  table'[t][i].stamp = table'[t][i].mission
      BY <1>2 DEF TablesAreStamped
    <3>1. CASE t # k
      BY <1>1, <2>1, <3>1 DEF TablesAreStamped
    <3>2. CASE t = k
      <4>1. \/ i \in DOMAIN table[k] /\ table'[t][i] = table[k][i]
            \/ \E j \in DOMAIN batch : table'[t][i] = batch[j]
        BY <1>1, <2>1, <3>2, ConcatRows
      <4> QED
        BY <1>1, <4>1 DEF TablesAreStamped, BatchIsStamped
    <3> QED
      BY <3>1, <3>2
  <2>4. WaitingIsCurrent'
    BY <1>2, <2>1 DEF WaitingIsCurrent, InCycle
  <2> QED
    BY <1>3, <2>2, <2>3, <2>4
<1>5. CASE InsertFails
  <2>1. queues' = [queues EXCEPT ![k] = @ \o batch] /\ UNCHANGED table
    BY <1>5 DEF InsertFails, Pushed
  <2>2. WTypes'
    BY <1>1, <1>2, <2>1, ConcatRows
  <2>3. WaitingIsCurrent'
    <3> SUFFICES ASSUME NEW q \in Queues, NEW i \in DOMAIN queues'[q],
                        queues'[q][i].n \notin straddling
                 PROVE  /\ queues'[q][i].mission = missionID
                        /\ cycleID = missionID
      BY <1>2 DEF WaitingIsCurrent
    <3>1. CASE q # k
      BY <1>1, <1>2, <2>1, <3>1 DEF WaitingIsCurrent, InCycle
    <3>2. CASE q = k
      <4>1. \/ i \in DOMAIN queues[k] /\ queues'[q][i] = queues[k][i]
            \/ \E j \in DOMAIN batch : queues'[q][i] = batch[j]
        BY <1>1, <2>1, <3>2, ConcatRows
      <4> QED
        BY <1>1, <1>2, <4>1 DEF WaitingIsCurrent, BatchIsStamped, InCycle
    <3> QED
      BY <3>1, <3>2
  <2>4. TablesAreStamped'
    BY <1>2, <2>1 DEF TablesAreStamped
  <2> QED
    BY <1>3, <2>2, <2>3, <2>4
<1>6. CASE CommitFails
  <2>1. UNCHANGED <<queues, table>>
    BY <1>6 DEF CommitFails
  <2> QED
    BY <1>2, <1>3, <2>1 DEF WaitingIsCurrent, TablesAreStamped, InCycle
<1> QED
    BY <1>4, <1>5, <1>6

-----------------------------------------------------------------------------
\* No row exists at the start.
LEMMA InitStamp == Init => StampInv
    BY DEF Init, StampInv, WTypes, WaitingIsCurrent, BatchIsStamped, BatchInHand,
           TablesAreStamped, NoRows

\* The steps that move no row.
LEMMA QuietStep ==
    ASSUME StampInv,
           \/ StartMissionFails \/ Close \/ StopWriter \/ BeginCycle
           \/ SkipEmpty \/ Sleep \/ UNCHANGED vars
    PROVE  StampInv'
<1> USE DEF StampInv, WTypes
<1>1. UNCHANGED <<missionID, queues, table, batch, rows, straddling>>
    BY DEF StartMissionFails, Close, StopWriter, BeginCycle, SkipEmpty, Sleep, vars,
           writer, history
<1>2. /\ cursor' \in Nat \ {0} /\ cycleID' \in Nat
      /\ IF BeginCycle THEN cycleID' = missionID ELSE cycleID' = cycleID
    BY DEF StartMissionFails, Close, StopWriter, BeginCycle, ReadMissionID, SkipEmpty,
           Sleep, vars, writer, history
<1>3. /\ pc' = "insert" => pc = "insert" /\ cursor' = cursor
      /\ pc = "insert" => pc' = "insert"
      /\ BeginCycle => pc = "top"
      /\ InCycle' => InCycle \/ BeginCycle
    BY DEF StartMissionFails, Close, StopWriter, BeginCycle, SkipEmpty, Sleep, vars,
           writer, history, InCycle
<1>4. BatchIsStamped'
    BY <1>1, <1>2, <1>3 DEF BatchIsStamped, BatchInHand
<1>5. WaitingIsCurrent'
    BY <1>1, <1>2, <1>3 DEF WaitingIsCurrent
<1> QED
    BY <1>1, <1>2, <1>3, <1>4, <1>5 DEF BatchInHand, TablesAreStamped

\* Every step keeps the stamps what they should be.
LEMMA StampStep ==
    ASSUME StampInv, [Next]_vars
    PROVE  StampInv'
<1>1. ASSUME NEW k \in Entities, NEW o \in Objs, AddEntity(k, o)
      PROVE  StampInv'
    BY <1>1, PushStep, DBWriterAssumption DEF AddEntity
<1>2. ASSUME NEW k \in Queues \ Entities, NEW o \in Objs, RecordRow(k, o)
      PROVE  StampInv'
    BY <1>2, PushStep DEF RecordRow
<1>3. ASSUME NEW k \in Queues, NEW o \in Objs, DeleteMarker(k, o)
      PROVE  StampInv'
    BY <1>3, PushStep DEF DeleteMarker
<1>4. ASSUME Callers
      PROVE  StampInv'
    BY <1>1, <1>2, <1>3, <1>4, AddMarkerStep, StartStep, QuietStep DEF Callers
<1>5. ASSUME Writer
      PROVE  StampInv'
    BY <1>5, TakeStep, InsertStep, QuietStep DEF Writer
<1> QED
    BY <1>4, <1>5, QuietStep DEF Next

\* A row of a table carries the mission it was recorded in, unless it was still
\* waiting when the next mission started or was recorded in a cycle that had
\* read the mission ID before (writeQueue stamps every row of a cycle with the
\* ID read at its start).
THEOREM StampsAreRight == Spec => []StampIsItsMission
<1>1. StampInv => StampIsItsMission
    BY DEF StampInv, TablesAreStamped, StampIsItsMission, Range
<1> QED
    BY <1>1, InitStamp, StampStep, PTL DEF Spec

-----------------------------------------------------------------------------
(* Rows once, and in order *)

\* RowsOnceInOrder of any lines of rows: n rows are recorded, those of lo are
\* lost and those of rq were put back.
Good(L, n, lo, rq) ==
    /\ lo \subseteq 1..n
    /\ \A m \in (1..n) \ lo :
          \E t \in Tables : \E i \in DOMAIN L[t] : L[t][i].n = m
    /\ \A t \in Tables : \A i \in DOMAIN L[t] :
          /\ L[t][i].n \in (1..n) \ lo
          /\ \A u \in Tables : \A j \in DOMAIN L[u] :
                L[u][j].n = L[t][i].n => u = t /\ j = i
          /\ \A j \in DOMAIN L[t] :
                i < j /\ L[t][i].n > L[t][j].n => L[t][j].n \in rq

\* What makes RowsOnceInOrder inductive: a row that is lost was recorded, and
\* the types and the writer's batch.
LineInv == StampInv /\ lost \subseteq 1..rows /\ RowsOnceInOrder

\* A row passes from one part of its line to the next.
LEMMA KeepLine ==
    ASSUME NEW L, NEW M, NEW n \in Nat, NEW lo, NEW rq, Good(L, n, lo, rq),
           \A t \in Tables : /\ DOMAIN M[t] = DOMAIN L[t]
                             /\ \A i \in DOMAIN L[t] : M[t][i].n = L[t][i].n
    PROVE  Good(M, n, lo, rq)
    BY DEF Good

\* A new row at the end of a line.
LEMMA GrowLine ==
    ASSUME NEW L, NEW M, NEW n \in Nat, NEW lo, NEW rq, Good(L, n, lo, rq),
           NEW k \in Tables, \A t \in Tables : t # k => M[t] = L[t],
           NEW e \in Nat \ {0}, DOMAIN L[k] = 1..(e - 1), DOMAIN M[k] = 1..e,
           \A i \in DOMAIN L[k] : M[k][i] = L[k][i],
           M[k][e].n = n + 1
    PROVE  Good(M, n + 1, lo, rq)
<1>1. /\ DOMAIN L[k] \subseteq DOMAIN M[k] /\ e \in DOMAIN M[k]
      /\ \A i \in DOMAIN M[k] : i = e \/ (i \in DOMAIN L[k] /\ i < e)
    OBVIOUS
<1>2. \A t \in Tables : \A i \in DOMAIN M[t] :
          \/ t = k /\ i = e /\ M[t][i].n = n + 1
          \/ i \in DOMAIN L[t] /\ M[t][i] = L[t][i] /\ M[t][i].n \in (1..n) \ lo
    BY <1>1 DEF Good
<1>3. \A t \in Tables : \A i \in DOMAIN L[t] : i \in DOMAIN M[t] /\ M[t][i] = L[t][i]
    BY <1>1
<1>4. lo \subseteq 1..(n + 1) /\ n + 1 \notin lo
    BY DEF Good
<1>5. ASSUME NEW m \in (1..(n + 1)) \ lo
      PROVE  \E t \in Tables : \E i \in DOMAIN M[t] : M[t][i].n = m
  <2>1. CASE m = n + 1
    BY <1>1, <2>1
  <2>2. CASE m \in 1..n
    <3>1. PICK t \in Tables : \E i \in DOMAIN L[t] : L[t][i].n = m
      BY <2>2 DEF Good
    <3> QED
      BY <1>3, <3>1
  <2> QED
    BY <2>1, <2>2
<1>6. ASSUME NEW t \in Tables, NEW i \in DOMAIN M[t]
      PROVE  /\ M[t][i].n \in (1..(n + 1)) \ lo
             /\ \A u \in Tables : \A j \in DOMAIN M[u] :
                   M[u][j].n = M[t][i].n => u = t /\ j = i
             /\ \A j \in DOMAIN M[t] :
                   i < j /\ M[t][i].n > M[t][j].n => M[t][j].n \in rq
  <2>1. M[t][i].n \in (1..(n + 1)) \ lo
    BY <1>2, <1>4
  <2>2. \A u \in Tables : \A j \in DOMAIN M[u] :
            M[u][j].n = M[t][i].n => u = t /\ j = i
    BY <1>2 DEF Good
  <2>3. \A j \in DOMAIN M[t] :
            i < j /\ M[t][i].n > M[t][j].n => M[t][j].n \in rq
    BY <1>1, <1>2 DEF Good
  <2> QED
    BY <2>1, <2>2, <2>3
<1> QED
    BY <1>4, <1>5, <1>6 DEF Good

\* A line that is rearranged: row i was row e[i].  A row that has gone is lost,
\* and one that has been overtaken was put back.
Rearranged(l, m, e, lo, lo2, rq2) ==
    /\ e \in [DOMAIN m -> DOMAIN l]
    /\ \A i, j \in DOMAIN m : e[i] = e[j] => i = j
    /\ \A i \in DOMAIN m : m[i].n = l[e[i]].n
    /\ \A i, j \in DOMAIN m : i < j => e[i] < e[j] \/ m[j].n \in rq2
    /\ \A x \in lo2 \ lo : \E p \in DOMAIN l : l[p].n = x /\ \A i \in DOMAIN m : e[i] # p
    /\ \A p \in DOMAIN l : l[p].n \in lo2 \/ \E i \in DOMAIN m : e[i] = p

\* A line stays good when one table's part of it is rearranged in order.
LEMMA RearrangeLine ==
    ASSUME NEW L, NEW M, NEW n \in Nat, NEW lo, NEW rq, Good(L, n, lo, rq),
           NEW k \in Tables, \A t \in Tables : t # k => M[t] = L[t],
           NEW lo2, NEW rq2, rq \subseteq rq2, lo \subseteq lo2,
           NEW e, Rearranged(L[k], M[k], e, lo, lo2, rq2)
    PROVE  Good(M, n, lo2, rq2)
<1>0. /\ e \in [DOMAIN M[k] -> DOMAIN L[k]]
      /\ \A i, j \in DOMAIN M[k] : e[i] = e[j] => i = j
      /\ \A i \in DOMAIN M[k] : M[k][i].n = L[k][e[i]].n
      /\ \A i, j \in DOMAIN M[k] : i < j => e[i] < e[j] \/ M[k][j].n \in rq2
      /\ \A x \in lo2 \ lo : \E m \in DOMAIN L[k] :
            L[k][m].n = x /\ \A i \in DOMAIN M[k] : e[i] # m
      /\ \A m \in DOMAIN L[k] :
            L[k][m].n \in lo2 \/ \E i \in DOMAIN M[k] : e[i] = m
    BY DEF Rearranged
<1> USE <1>0
<1>1. lo2 \subseteq 1..n
    BY DEF Good
<1>2. ASSUME NEW m \in (1..n) \ lo2
      PROVE  \E t \in Tables : \E i \in DOMAIN M[t] : M[t][i].n = m
  <2>1. PICK t \in Tables : \E i \in DOMAIN L[t] : L[t][i].n = m
    BY DEF Good
  <2>2. PICK i \in DOMAIN L[t] : L[t][i].n = m
    BY <2>1
  <2>3. CASE t # k
    BY <2>2, <2>3
  <2>4. CASE t = k
    <3>1. PICK j \in DOMAIN M[k] : e[j] = i
      BY <2>2, <2>4
    <3>2. M[k][j].n = m
      BY <2>2, <2>4, <3>1
    <3> QED
      BY <3>2
  <2> QED
    BY <2>3, <2>4
<1>3. \A t \in Tables : \A i \in DOMAIN M[t] :
          \/ t # k /\ i \in DOMAIN L[t] /\ M[t][i].n = L[t][i].n
          \/ t = k /\ e[i] \in DOMAIN L[k] /\ M[t][i].n = L[k][e[i]].n
    OBVIOUS
<1>4. ASSUME NEW t \in Tables, NEW i \in DOMAIN M[t]
      PROVE  M[t][i].n \in (1..n) \ lo2
  <2>1. M[t][i].n \in (1..n) \ lo
    BY <1>3 DEF Good
  <2>2. ASSUME M[t][i].n \in lo2 \ lo
        PROVE  FALSE
    <3>1. PICK m \in DOMAIN L[k] :
              L[k][m].n = M[t][i].n /\ \A j \in DOMAIN M[k] : e[j] # m
      BY <2>2
    <3> QED
      BY <1>3, <3>1 DEF Good
  <2> QED
    BY <2>1, <2>2
<1>5. ASSUME NEW t \in Tables, NEW i \in DOMAIN M[t], NEW u \in Tables,
             NEW j \in DOMAIN M[u], M[u][j].n = M[t][i].n
      PROVE  u = t /\ j = i
    BY <1>3, <1>5 DEF Good
<1>6. ASSUME NEW t \in Tables, NEW i \in DOMAIN M[t], NEW j \in DOMAIN M[t],
             i < j, M[t][i].n > M[t][j].n
      PROVE  M[t][j].n \in rq2
  <2>1. CASE t # k
    BY <1>6, <2>1 DEF Good
  <2>2. CASE t = k
    BY <1>3, <1>6, <2>2 DEF Good
  <2> QED
    BY <2>1, <2>2
<1> QED
    BY <1>1, <1>2, <1>4, <1>5, <1>6 DEF Good

\* The parts of a line are rows, before and after a step.
LEMMA LineRows ==
    ASSUME WTypes, WTypes'
    PROVE  /\ Line \in [Tables -> Seq(Row)] /\ Line' \in [Tables -> Seq(Row)]
           /\ \A t \in Tables : /\ table[t] \in Seq(Row) /\ table'[t] \in Seq(Row)
                                /\ Taken(t) \in Seq(Row) /\ Taken(t)' \in Seq(Row)
                                /\ Queued(t) \in Seq(Row) /\ Queued(t)' \in Seq(Row)
                                /\ Line[t] = table[t] \o Taken(t) \o Queued(t)
                                /\ Line'[t] = table'[t] \o Taken(t)' \o Queued(t)'
<1>1. ASSUME NEW t \in Tables
      PROVE  /\ table[t] \in Seq(Row) /\ Taken(t) \in Seq(Row) /\ Queued(t) \in Seq(Row)
             /\ table'[t] \in Seq(Row) /\ Taken(t)' \in Seq(Row) /\ Queued(t)' \in Seq(Row)
    BY DEF WTypes, Taken, Queued
<1>2. \A a, b, c \in Seq(Row) : a \o b \o c \in Seq(Row)
    BY ConcatRows
<1> QED
    BY <1>1, <1>2 DEF Line

\* Where the rows of three parts stand.
LEMMA ThreeParts ==
    ASSUME NEW a \in Seq(Row), NEW b \in Seq(Row), NEW c \in Seq(Row)
    PROVE  /\ a \o b \o c \in Seq(Row)
           /\ Len(a \o b \o c) = Len(a) + Len(b) + Len(c)
           /\ \A i \in 1..(Len(a) + Len(b) + Len(c)) :
                 (a \o b \o c)[i] = IF i <= Len(a) THEN a[i]
                                    ELSE IF i <= Len(a) + Len(b) THEN b[i - Len(a)]
                                    ELSE c[i - Len(a) - Len(b)]
    OBVIOUS

\* Rows that get another stamp keep their numbers.
SameNumbers(r, s) == DOMAIN r = DOMAIN s /\ \A i \in DOMAIN s : r[i].n = s[i].n

\* The items of a concatenation, place by place.
LEMMA ConcatAt ==
    ASSUME NEW a \in Seq(Row), NEW b \in Seq(Row), NEW i \in 1..(Len(a) + Len(b))
    PROVE  (a \o b)[i] = IF i <= Len(a) THEN a[i] ELSE b[i - Len(a)]
    OBVIOUS

\* The length of a concatenation of rows.
LEMMA ConcatLen ==
    ASSUME NEW a \in Seq(Row), NEW b \in Seq(Row)
    PROVE  a \o b \in Seq(Row) /\ Len(a \o b) = Len(a) + Len(b)
    OBVIOUS

\* Stamping a batch keeps the numbers of its rows, so the line stays as it was.
LEMMA Restamped ==
    ASSUME NEW a \in Seq(Row), NEW q \in Seq(Row), NEW b \in Seq(Row),
           Len(b) = Len(q), \A i \in 1..Len(q) : b[i].n = q[i].n
    PROVE  SameNumbers(a \o b \o <<>>, a \o <<>> \o q)
<1> DEFINE s == a \o <<>> \o q
           r == a \o b \o <<>>
<1>1. <<>> \in Seq(Row) /\ Len(<<>>) = 0 /\ Len(a) \in Nat /\ Len(q) \in Nat
    OBVIOUS
<1>2. /\ s \in Seq(Row) /\ Len(s) = Len(a) + Len(q)
      /\ \A i \in 1..(Len(a) + Len(q)) : s[i] = IF i <= Len(a) THEN a[i] ELSE q[i - Len(a)]
    BY <1>1, ThreeParts
<1>3. /\ r \in Seq(Row) /\ Len(r) = Len(a) + Len(q)
      /\ \A i \in 1..(Len(a) + Len(q)) : r[i] = IF i <= Len(a) THEN a[i] ELSE b[i - Len(a)]
  <2>2. a \o b \in Seq(Row) /\ Len(a \o b) = Len(a) + Len(b)
    BY ConcatLen, Zenon
  <2>1. r = a \o b
    BY <2>2
  <2>3. \A i \in 1..(Len(a) + Len(b)) : (a \o b)[i] = IF i <= Len(a) THEN a[i] ELSE b[i - Len(a)]
    BY ConcatAt, Zenon
  <2> QED
    BY <2>1, <2>2, <2>3
<1> HIDE DEF s, r
<1>4. DOMAIN s = 1..(Len(a) + Len(q)) /\ DOMAIN r = 1..(Len(a) + Len(q))
    BY <1>2, <1>3
<1>5. ASSUME NEW i \in 1..(Len(a) + Len(q))
      PROVE  r[i].n = s[i].n
  <2>1. CASE i <= Len(a)
    BY <1>2, <1>3, <2>1
  <2>2. CASE ~(i <= Len(a))
    <3>1. i - Len(a) \in 1..Len(q)
      BY <1>1, <2>2
    <3>2. s[i] = q[i - Len(a)] /\ r[i] = b[i - Len(a)]
      BY <1>2, <1>3, <2>2
    <3> QED
      BY <3>1, <3>2
  <2> QED
    BY <2>1, <2>2
<1> QED
    BY <1>4, <1>5 DEF s, r, SameNumbers

\* The places of the rows when the last two of three parts, x, y and z long, are
\* swapped.
SwapPlace(e, x, y, z) ==
    \A i \in 1..(x + z + y) :
        e[i] = IF i <= x THEN i ELSE IF i <= x + z THEN i + y ELSE i - z

SwapIsOrdered(e, x, y, z) ==
    /\ \A i \in 1..(x + z + y) : e[i] \in 1..(x + y + z)
    /\ \A i, j \in 1..(x + z + y) : e[i] = e[j] => i = j
    /\ \A i, j \in 1..(x + z + y) : i < j => e[i] < e[j] \/ j > x + z
    /\ \A m \in 1..(x + y + z) : \E i \in 1..(x + z + y) : e[i] = m

\* Exchanging two neighbouring parts keeps the order within each.
LEMMA SwapPlaces ==
    ASSUME NEW x \in Nat, NEW y \in Nat, NEW z \in Nat, NEW e, SwapPlace(e, x, y, z)
    PROVE  SwapIsOrdered(e, x, y, z)
<1>1. \A i \in 1..(x + z + y) :
          e[i] = IF i <= x THEN i ELSE IF i <= x + z THEN i + y ELSE i - z
    BY DEF SwapPlace
<1>2. \A i \in 1..(x + z + y) : e[i] \in 1..(x + y + z)
  <2>1. \A i \in 1..(x + z + y) :
            (IF i <= x THEN i ELSE IF i <= x + z THEN i + y ELSE i - z) \in 1..(x + y + z)
    OBVIOUS
  <2> QED
    BY <1>1, <2>1
<1>3. ASSUME NEW m \in 1..(x + y + z)
      PROVE  \E i \in 1..(x + z + y) : e[i] = m
  <2> DEFINE i == IF m <= x THEN m ELSE IF m <= x + y THEN m + z ELSE m - y
  <2>1. i \in 1..(x + z + y)
    OBVIOUS
  <2>2. (IF i <= x THEN i ELSE IF i <= x + z THEN i + y ELSE i - z) = m
    OBVIOUS
  <2> HIDE DEF i
  <2>3. e[i] = m
    BY <1>1, <2>1, <2>2
  <2> QED
    BY <2>1, <2>3
<1>4. ASSUME NEW i \in 1..(x + z + y), NEW j \in 1..(x + z + y)
      PROVE  /\ e[i] = e[j] => i = j
             /\ i < j => e[i] < e[j] \/ j > x + z
  <2>1. /\ e[i] = IF i <= x THEN i ELSE IF i <= x + z THEN i + y ELSE i - z
        /\ e[j] = IF j <= x THEN j ELSE IF j <= x + z THEN j + y ELSE j - z
    BY <1>1
  <2> QED
    BY <2>1
<1> QED
    BY <1>2, <1>3, <1>4 DEF SwapIsOrdered

\* Row i of r was row e[i] of s; only rows of b are overtaken.
Swaps(e, s, r, b) ==
    /\ e \in [DOMAIN r -> DOMAIN s]
    /\ \A i, j \in DOMAIN r : e[i] = e[j] => i = j
    /\ \A i \in DOMAIN r : r[i] = s[e[i]]
    /\ \A i, j \in DOMAIN r : i < j => e[i] < e[j] \/ \E m \in DOMAIN b : r[j] = b[m]
    /\ \A m \in DOMAIN s : \E i \in DOMAIN r : e[i] = m

\* A batch put back behind its queue: only its own rows are overtaken.
LEMMA Swapped ==
    ASSUME NEW a \in Seq(Row), NEW b \in Seq(Row), NEW q \in Seq(Row)
    PROVE  \E e : Swaps(e, a \o b \o q, a \o q \o b, b)
<1> DEFINE s == a \o b \o q
           r == a \o q \o b
           x == Len(a)
           y == Len(b)
           z == Len(q)
           e == [i \in 1..(x + z + y) |-> IF i <= x THEN i
                                          ELSE IF i <= x + z THEN i + y ELSE i - z]
<1>1. x \in Nat /\ y \in Nat /\ z \in Nat
    OBVIOUS
<1>2. /\ s \in Seq(Row) /\ Len(s) = x + y + z
      /\ \A i \in 1..(x + y + z) :
            s[i] = IF i <= x THEN a[i] ELSE IF i <= x + y THEN b[i - x] ELSE q[i - x - y]
    BY ThreeParts
<1>3. /\ r \in Seq(Row) /\ Len(r) = x + z + y
      /\ \A i \in 1..(x + z + y) :
            r[i] = IF i <= x THEN a[i] ELSE IF i <= x + z THEN q[i - x] ELSE b[i - x - z]
    BY ThreeParts
<1>4. DOMAIN s = 1..(x + y + z) /\ DOMAIN r = 1..(x + z + y) /\ DOMAIN b = 1..y
    BY <1>2, <1>3
<1> HIDE DEF s, r, x, y, z
<1>5. \A i \in 1..(x + z + y) :
          e[i] = IF i <= x THEN i ELSE IF i <= x + z THEN i + y ELSE i - z
    OBVIOUS
<1>0. DOMAIN e = 1..(x + z + y) /\ e = [i \in DOMAIN e |-> e[i]]
    OBVIOUS
<1> HIDE DEF e
<1>6. /\ \A i \in 1..(x + z + y) : e[i] \in 1..(x + y + z)
      /\ \A i, j \in 1..(x + z + y) : e[i] = e[j] => i = j
      /\ \A i, j \in 1..(x + z + y) : i < j => e[i] < e[j] \/ j > x + z
      /\ \A m \in 1..(x + y + z) : \E i \in 1..(x + z + y) : e[i] = m
  <2>1. SwapPlace(e, x, y, z)
    BY <1>5 DEF SwapPlace
  <2>2. SwapIsOrdered(e, x, y, z)
    BY <1>1, <2>1, SwapPlaces
  <2> QED
    BY <2>2 DEF SwapIsOrdered
<1>7. ASSUME NEW i \in 1..(x + z + y)
      PROVE  r[i] = s[e[i]]
  <2>1. e[i] \in 1..(x + y + z)
    BY <1>6
  <2>2. CASE i <= x
    BY <1>1, <1>2, <1>3, <1>5, <2>1, <2>2
  <2>3. CASE ~(i <= x) /\ i <= x + z
    <3>1. e[i] = i + y /\ ~(i + y <= x) /\ ~(i + y <= x + y) /\ (i + y) - x - y = i - x
      BY <1>1, <1>5, <2>3
    <3> QED
      BY <1>2, <1>3, <2>1, <2>3, <3>1
  <2>4. CASE ~(i <= x) /\ ~(i <= x + z)
    <3>1. e[i] = i - z /\ ~(i - z <= x) /\ i - z <= x + y /\ (i - z) - x = i - x - z
      BY <1>1, <1>5, <2>4
    <3> QED
      BY <1>2, <1>3, <2>1, <2>4, <3>1
  <2> QED
    BY <2>2, <2>3, <2>4
<1>8. ASSUME NEW j \in 1..(x + z + y), j > x + z
      PROVE  \E m \in 1..y : r[j] = b[m]
  <2>1. j - x - z \in 1..y /\ ~(j <= x) /\ ~(j <= x + z)
    BY <1>1, <1>8
  <2>2. r[j] = b[j - x - z]
    BY <1>3, <2>1
  <2> QED
    BY <2>1, <2>2
<1>9. \A i, j \in DOMAIN r : i < j => e[i] < e[j] \/ \E m \in DOMAIN b : r[j] = b[m]
    BY <1>4, <1>6, <1>8
<1>10. /\ e \in [DOMAIN r -> DOMAIN s]
       /\ \A i, j \in DOMAIN r : e[i] = e[j] => i = j
       /\ \A m \in DOMAIN s : \E i \in DOMAIN r : e[i] = m
  <2>1. e \in [DOMAIN r -> DOMAIN s]
    BY <1>0, <1>4, <1>6
  <2> QED
    BY <2>1, <1>4, <1>6, Zenon
<1>11. \A i \in DOMAIN r : r[i] = s[e[i]]
    BY <1>4, <1>7, Zenon
<1>15. Swaps(e, s, r, b)
    BY <1>9, <1>10, <1>11 DEF Swaps
<1> QED
    BY <1>15 DEF s, r

\* Row i of r was row e[i] of s; exactly the rows of b have gone.
Drops(e, s, r, b) ==
    /\ e \in [DOMAIN r -> DOMAIN s]
    /\ \A i, j \in DOMAIN r : e[i] = e[j] => i = j
    /\ \A i \in DOMAIN r : r[i] = s[e[i]]
    /\ \A i, j \in DOMAIN r : i < j => e[i] < e[j]
    /\ \A l \in DOMAIN b : \E m \in DOMAIN s : s[m] = b[l] /\ \A i \in DOMAIN r : e[i] # m
    /\ \A m \in DOMAIN s :
          (\E i \in DOMAIN r : e[i] = m) \/ \E l \in DOMAIN b : s[m] = b[l]

\* A batch lost by a commit: exactly its rows go, and the others keep their order.
LEMMA Dropped ==
    ASSUME NEW a \in Seq(Row), NEW b \in Seq(Row), NEW q \in Seq(Row)
    PROVE  \E e : Drops(e, a \o b \o q, a \o <<>> \o q, b)
<1> DEFINE s == a \o b \o q
           r == a \o <<>> \o q
           x == Len(a)
           y == Len(b)
           z == Len(q)
           e == [i \in 1..(x + z) |-> IF i <= x THEN i ELSE i + y]
<1>1. x \in Nat /\ y \in Nat /\ z \in Nat /\ <<>> \in Seq(Row) /\ Len(<<>>) = 0
    OBVIOUS
<1>2. /\ s \in Seq(Row) /\ Len(s) = x + y + z
      /\ \A i \in 1..(x + y + z) :
            s[i] = IF i <= x THEN a[i] ELSE IF i <= x + y THEN b[i - x] ELSE q[i - x - y]
    BY ThreeParts
<1>3. /\ r \in Seq(Row) /\ Len(r) = x + z
      /\ \A i \in 1..(x + z) : r[i] = IF i <= x THEN a[i] ELSE q[i - x]
    BY <1>1, ThreeParts
<1>4. DOMAIN s = 1..(x + y + z) /\ DOMAIN r = 1..(x + z) /\ DOMAIN b = 1..y
    BY <1>2, <1>3
<1> HIDE DEF s, r, x, y, z
<1>5. \A i \in 1..(x + z) : e[i] = IF i <= x THEN i ELSE i + y
    OBVIOUS
<1>6. e \in [1..(x + z) -> 1..(x + y + z)]
  <2>1. \A i \in 1..(x + z) : (IF i <= x THEN i ELSE i + y) \in 1..(x + y + z)
    BY <1>1
  <2> QED
    BY <2>1
<1> HIDE DEF e
<1>7. ASSUME NEW i \in 1..(x + z)
      PROVE  r[i] = s[e[i]]
  <2>1. e[i] \in 1..(x + y + z)
    BY <1>6
  <2>2. CASE i <= x
    BY <1>1, <1>2, <1>3, <1>5, <2>1, <2>2
  <2>3. CASE ~(i <= x)
    <3>1. e[i] = i + y /\ ~(i + y <= x) /\ ~(i + y <= x + y) /\ (i + y) - x - y = i - x
      BY <1>1, <1>5, <2>3
    <3> QED
      BY <1>2, <1>3, <2>1, <2>3, <3>1
  <2> QED
    BY <2>2, <2>3
<1>8. ASSUME NEW i \in 1..(x + z), NEW j \in 1..(x + z)
      PROVE  (e[i] = e[j] => i = j) /\ (i < j => e[i] < e[j])
  <2>1. /\ e[i] = IF i <= x THEN i ELSE i + y
        /\ e[j] = IF j <= x THEN j ELSE j + y
    BY <1>5
  <2> QED
    BY <1>1, <2>1
<1>9. ASSUME NEW l \in 1..y
      PROVE  \E m \in 1..(x + y + z) : s[m] = b[l] /\ \A i \in 1..(x + z) : e[i] # m
  <2>1. x + l \in 1..(x + y + z) /\ ~(x + l <= x) /\ x + l <= x + y /\ (x + l) - x = l
    BY <1>1
  <2>2. s[x + l] = b[l]
    BY <1>2, <2>1
  <2>3. \A i \in 1..(x + z) : e[i] # x + l
    BY <1>1, <1>5
  <2> QED
    BY <2>1, <2>2, <2>3
<1>10. ASSUME NEW m \in 1..(x + y + z)
       PROVE  (\E i \in 1..(x + z) : e[i] = m) \/ \E l \in 1..y : s[m] = b[l]
  <2>1. CASE m <= x
    <3>1. m \in 1..(x + z) /\ e[m] = m
      BY <1>1, <1>5, <2>1
    <3> QED
      BY <3>1
  <2>2. CASE ~(m <= x) /\ m <= x + y
    <3>1. m - x \in 1..y
      BY <1>1, <2>2
    <3>2. s[m] = b[m - x]
      BY <1>2, <2>2
    <3> QED
      BY <3>1, <3>2
  <2>3. CASE ~(m <= x) /\ ~(m <= x + y)
    <3>1. m - y \in 1..(x + z) /\ ~(m - y <= x) /\ (m - y) + y = m
      BY <1>1, <2>3
    <3>2. e[m - y] = m
      BY <1>5, <3>1
    <3> QED
      BY <3>1, <3>2
  <2> QED
    BY <2>1, <2>2, <2>3
<1>11. e \in [DOMAIN r -> DOMAIN s]
    BY <1>4, <1>6
<1>12. /\ \A i, j \in DOMAIN r : e[i] = e[j] => i = j
       /\ \A i \in DOMAIN r : r[i] = s[e[i]]
       /\ \A i, j \in DOMAIN r : i < j => e[i] < e[j]
    BY <1>4, <1>7, <1>8, Zenon
<1>13. /\ \A l \in DOMAIN b : \E m \in DOMAIN s :
             s[m] = b[l] /\ \A i \in DOMAIN r : e[i] # m
       /\ \A m \in DOMAIN s :
             (\E i \in DOMAIN r : e[i] = m) \/ \E l \in DOMAIN b : s[m] = b[l]
  <2>1. \A l \in DOMAIN b : \E m \in DOMAIN s :
             s[m] = b[l] /\ \A i \in DOMAIN r : e[i] # m
    BY <1>4, <1>9, Zenon
  <2>2. \A m \in DOMAIN s :
             (\E i \in DOMAIN r : e[i] = m) \/ \E l \in DOMAIN b : s[m] = b[l]
    BY <1>4, <1>10, Zenon
  <2> QED
    BY <2>1, <2>2, Zenon
<1>15. Drops(e, s, r, b)
    BY <1>11, <1>12, <1>13 DEF Drops
<1> QED
    BY <1>15 DEF s, r

\* A line whose parts have not changed.
LEMMA SameLine ==
    ASSUME WTypes, WTypes', NEW t \in Tables,
           table'[t] = table[t], Taken(t)' = Taken(t), Queued(t)' = Queued(t)
    PROVE  Line'[t] = Line[t]
    BY LineRows

\* The rows a writer has taken belong to the queue it is at.
LEMMA TakenFor ==
    ASSUME WTypes, NEW t, cursor \in DOMAIN Order
    PROVE  Taken(t) = IF t = Order[cursor] THEN batch ELSE <<>>
    BY DEF Taken

\* What the steps use of the invariant.
LEMMA InvFacts ==
    ASSUME LineInv
    PROVE  WTypes /\ BatchInHand /\ Good(Line, rows, lost, requeued) /\ rows \in Nat
<1>1. WTypes /\ BatchInHand /\ rows \in Nat
    BY DEF LineInv, StampInv, WTypes
<1>2. Good(Line, rows, lost, requeued)
    BY DEF LineInv, RowsOnceInOrder, Good
<1> QED
    BY <1>1, <1>2

\* A writer that takes a queue has none in hand, and one that inserts has.
LEMMA AtQueue ==
    ASSUME LineInv, TakeBatch \/ pc = "insert"
    PROVE  /\ cursor \in DOMAIN Order
           /\ Order[cursor] \in Queues /\ Order[cursor] \in Tables
           /\ \A t \in Tables : Taken(t) = IF t = Order[cursor] THEN batch ELSE <<>>
           /\ TakeBatch => batch = <<>>
<1>1. cursor \in DOMAIN Order
    BY InvFacts, DBWriterAssumption DEF BatchInHand, TakeBatch, WTypes
<1>2. TakeBatch => batch = <<>>
    BY InvFacts DEF BatchInHand, TakeBatch
<1> QED
    BY <1>1, <1>2, QueueNames, InvFacts, TakenFor

\* A new row goes to the end of its line with the next number.
LEMMA PushLine ==
    ASSUME LineInv, WTypes', NEW k \in Queues, NEW o \in Objs, Push(k, o)
    PROVE  Good(Line', rows', lost', requeued')
<1>1. NewRow(o) \in Row /\ NewRow(o).n = rows + 1
    BY DEF NewRow, Row, LineInv, StampInv, WTypes
<1>2. /\ queues' = [queues EXCEPT ![k] = @ \o <<NewRow(o)>>]
      /\ UNCHANGED <<cursor, batch, table, lost, requeued>>
      /\ rows' = rows + 1
    BY DEF Push, Pushed, writer
<1>3. k \in Tables /\ WTypes /\ Good(Line, rows, lost, requeued) /\ rows \in Nat
    BY DEF Tables, LineInv, StampInv, WTypes, RowsOnceInOrder, Good
<1>4. /\ \A t \in Tables : Taken(t)' = Taken(t)
      /\ \A t \in Tables : t # k => Queued(t)' = Queued(t)
      /\ Queued(k)' = Queued(k) \o <<NewRow(o)>>
    BY <1>2, <1>3 DEF Taken, Queued, WTypes
<1>5. \A t \in Tables : t # k => Line'[t] = Line[t]
    BY <1>2, <1>3, <1>4, LineRows
<1> DEFINE e == Len(Line[k]) + 1
<1>6. /\ e \in Nat \ {0} /\ DOMAIN Line[k] = 1..(e - 1) /\ DOMAIN Line'[k] = 1..e
      /\ \A i \in DOMAIN Line[k] : Line'[k][i] = Line[k][i]
      /\ Line'[k][e] = NewRow(o)
  <2> DEFINE a == table[k] \o Taken(k)
             q == Queued(k)
             r == NewRow(o)
  <2>1. a \in Seq(Row) /\ q \in Seq(Row)
    BY <1>3, LineRows, ConcatRows
  <2>2. Line[k] = a \o q /\ Line'[k] = a \o (q \o <<r>>)
    BY <1>2, <1>3, <1>4, LineRows
  <2> HIDE DEF a, q, r
  <2>3. r \in Row
    BY <1>1 DEF r
  <2>4. a \o (q \o <<r>>) = Append(a \o q, r)
    BY <2>1, <2>3
  <2>5. a \o q \in Seq(Row)
    BY <2>1
  <2>6. Line[k] \in Seq(Row) /\ Line'[k] = Append(Line[k], r)
    BY <2>2, <2>4, <2>5
  <2> QED
    BY <2>3, <2>6 DEF r
<1> HIDE DEF e
<1> QED
    BY <1>1, <1>2, <1>3, <1>5, <1>6, GrowLine

\* A marker enters the table at once: nothing is taken or queued for it.
LEMMA AddMarkerLine ==
    ASSUME LineInv, WTypes', NEW o \in Objs, AddMarker(o)
    PROVE  Good(Line', rows', lost', requeued')
<1>1. NewRow(o) \in Row /\ NewRow(o).n = rows + 1
    BY DEF NewRow, Row, LineInv, StampInv, WTypes
<1>2. /\ table' = [table EXCEPT !["Markers"] = Append(@, NewRow(o))]
      /\ UNCHANGED <<cursor, batch, queues, lost, requeued>>
      /\ rows' = rows + 1
    BY DEF AddMarker, writer
<1>3. WTypes /\ Good(Line, rows, lost, requeued) /\ rows \in Nat
    BY DEF LineInv, StampInv, WTypes, RowsOnceInOrder, Good
<1>4. "Markers" \in Tables /\ "Markers" \notin Queues
    BY DBWriterAssumption DEF Tables
<1>5. /\ \A t \in Tables : Taken(t)' = Taken(t) /\ Queued(t)' = Queued(t)
      /\ Taken("Markers") = <<>> /\ Queued("Markers") = <<>>
    BY <1>2, <1>4, QueueNames DEF Taken, Queued
<1>6. \A t \in Tables : t # "Markers" => Line'[t] = Line[t]
    BY <1>2, <1>3, <1>5, LineRows DEF WTypes
<1>7. Line["Markers"] = table["Markers"] /\ Line'["Markers"] = Append(table["Markers"], NewRow(o))
  <2>1. /\ Line["Markers"] = table["Markers"] \o <<>> \o <<>>
        /\ Line'["Markers"] = table'["Markers"] \o <<>> \o <<>>
    BY <1>3, <1>4, <1>5, LineRows
  <2>2. table["Markers"] \in Seq(Row) /\ table'["Markers"] \in Seq(Row)
    BY <1>3, <1>4, LineRows
  <2>3. table'["Markers"] = Append(table["Markers"], NewRow(o))
    BY <1>2, <1>3, <1>4 DEF WTypes
  <2>4. \A s \in Seq(Row) : s \o <<>> \o <<>> = s
    OBVIOUS
  <2> QED
    BY <2>1, <2>2, <2>3, <2>4
<1> DEFINE e == Len(Line["Markers"]) + 1
<1>8. /\ e \in Nat \ {0}
      /\ DOMAIN Line["Markers"] = 1..(e - 1) /\ DOMAIN Line'["Markers"] = 1..e
      /\ \A i \in DOMAIN Line["Markers"] : Line'["Markers"][i] = Line["Markers"][i]
      /\ Line'["Markers"][e] = NewRow(o)
  <2>1. table["Markers"] \in Seq(Row)
    BY <1>3, <1>4, LineRows
  <2> QED
    BY <1>1, <1>7, <2>1
<1> HIDE DEF e
<1> QED
    BY <1>1, <1>2, <1>3, <1>4, <1>6, <1>8, GrowLine

\* The writer takes a queue: only the stamps of its rows change.
LEMMA TakeLine ==
    ASSUME LineInv, WTypes', TakeBatch
    PROVE  Good(Line', rows', lost', requeued')
<1>0. PICK k \in Queues : k = Order[cursor]
    BY AtQueue
<1> DEFINE a == table[k]
           q == queues[k]
<1>1. /\ WTypes /\ Good(Line, rows, lost, requeued) /\ rows \in Nat
      /\ \A t \in Tables : Taken(t) = IF t = k THEN batch ELSE <<>>
      /\ batch = <<>>
    BY <1>0, InvFacts, AtQueue
<1>2. k \in Queues /\ k \in Tables /\ cursor \in DOMAIN Order
    BY <1>0, AtQueue
<1>3. /\ batch' = [i \in DOMAIN q |-> [q[i] EXCEPT !.stamp = cycleID]]
      /\ queues' = [queues EXCEPT ![k] = <<>>]
      /\ UNCHANGED <<cursor, table, rows, lost, requeued>>
    BY <1>0 DEF TakeBatch, history, Stamped
<1>4. \A t \in Tables : Taken(t)' = IF t = k THEN batch' ELSE <<>>
    BY <1>0, <1>2, <1>3 DEF Taken
<1>5. /\ \A t \in Tables : t # k => Queued(t)' = Queued(t)
      /\ Queued(k) = q /\ Queued(k)' = <<>>
  <2>1. queues'[k] = <<>> /\ \A t \in Queues : t # k => queues'[t] = queues[t]
    BY <1>1, <1>2, <1>3 DEF WTypes
  <2> QED
    BY <1>2, <2>1 DEF Queued
<1>6. \A t \in Tables : t # k => Line'[t] = Line[t]
    BY <1>1, <1>3, <1>4, <1>5, SameLine
<1>7. a \in Seq(Row) /\ q \in Seq(Row) /\ batch' \in Seq(Row)
    BY <1>1, <1>2 DEF WTypes
<1>8. Line[k] = a \o <<>> \o q /\ Line'[k] = a \o batch' \o <<>>
  <2>1. Taken(k) = <<>> /\ Taken(k)' = batch' /\ table'[k] = table[k]
    BY <1>1, <1>2, <1>3, <1>4
  <2>2. /\ Line[k] = table[k] \o Taken(k) \o Queued(k)
        /\ Line'[k] = table'[k] \o Taken(k)' \o Queued(k)'
    BY <1>1, <1>2, LineRows
  <2> QED
    BY <1>5, <2>1, <2>2
<1> HIDE DEF a, q
<1>9. Len(batch') = Len(q) /\ \A i \in 1..Len(q) : batch'[i].n = q[i].n
  <2>1. DOMAIN q = 1..Len(q) /\ Len(q) \in Nat
    BY <1>7
  <2>2. \A r \in Row : [r EXCEPT !.stamp = cycleID].n = r.n
    BY DEF Row
  <2>3. \A i \in 1..Len(q) : q[i] \in Row /\ batch'[i] = [q[i] EXCEPT !.stamp = cycleID]
    BY <1>3, <1>7, <2>1
  <2>4. Len(batch') = Len(q)
    BY <1>3, <1>7, <2>1
  <2> QED
    BY <2>2, <2>3, <2>4
<1>10. /\ DOMAIN Line'[k] = DOMAIN Line[k]
       /\ \A i \in DOMAIN Line[k] : Line'[k][i].n = Line[k][i].n
  <2> DEFINE l == Line[k]
             m == Line'[k]
             b == batch'
  <2>1. l = a \o <<>> \o q /\ m = a \o b \o <<>> /\ b \in Seq(Row)
        /\ Len(b) = Len(q) /\ \A i \in 1..Len(q) : b[i].n = q[i].n
    BY <1>7, <1>8, <1>9
  <2> HIDE DEF l, m, b
  <2>a. SameNumbers(a \o b \o <<>>, a \o <<>> \o q)
    BY <1>7, <2>1, Restamped
  <2>2. DOMAIN m = DOMAIN l /\ \A i \in DOMAIN l : m[i].n = l[i].n
    BY <2>1, <2>a, Zenon DEF SameNumbers
  <2> QED
    BY <2>2 DEF l, m
<1>11. \A t \in Tables : /\ DOMAIN Line'[t] = DOMAIN Line[t]
                         /\ \A i \in DOMAIN Line[t] : Line'[t][i].n = Line[t][i].n
    BY <1>6, <1>10
<1> QED
    BY <1>1, <1>3, <1>11, KeepLine

\* The batch ends a table's rows already.
LEMMA WrittenLine ==
    ASSUME LineInv, WTypes', Written
    PROVE  Good(Line', rows', lost', requeued')
<1>0. PICK k \in Queues : k = Order[cursor]
    BY AtQueue DEF Written
<1>1. /\ WTypes /\ Good(Line, rows, lost, requeued) /\ rows \in Nat
      /\ \A t \in Tables : Taken(t) = IF t = k THEN batch ELSE <<>>
    BY <1>0, InvFacts, AtQueue DEF Written
<1>2. k \in Queues /\ k \in Tables
    BY <1>0, AtQueue DEF Written
<1>3. /\ table' = [table EXCEPT ![k] = @ \o batch]
      /\ batch' = <<>>
      /\ UNCHANGED <<queues, rows, lost, requeued>>
    BY <1>0 DEF Written, NextQueue, history
<1>4. /\ \A t \in Tables : Taken(t)' = <<>>
      /\ \A t \in Tables : Queued(t)' = Queued(t)
  <2>1. \A t \in Tables : Taken(t)' = <<>>
    BY <1>3 DEF Taken
  <2>2. \A t \in Tables : Queued(t)' = Queued(t)
    BY <1>3 DEF Queued
  <2> QED
    BY <2>1, <2>2
<1>5. ASSUME NEW t \in Tables
      PROVE  Line'[t] = Line[t]
  <2>1. table'[t] = table[t] \o Taken(t)
    <3>1. CASE t = k
      BY <1>1, <1>2, <1>3, <3>1 DEF WTypes
    <3>2. CASE t # k
      <4>1. table[t] \in Seq(Row)
        BY <1>1 DEF WTypes
      <4>2. table[t] \o <<>> = table[t]
        BY <4>1
      <4> QED
        BY <1>1, <1>2, <1>3, <3>2, <4>2 DEF WTypes
    <3> QED
      BY <3>1, <3>2
  <2>2. Line'[t] = table'[t] \o <<>> \o Queued(t) /\ Line[t] = table[t] \o Taken(t) \o Queued(t)
    BY <1>1, <1>4, LineRows
  <2>3. table'[t] \in Seq(Row)
    BY <1>1, LineRows
  <2>4. table'[t] \o <<>> = table'[t]
    BY <2>3
  <2> QED
    BY <2>1, <2>2, <2>4
<1> QED
    BY <1>1, <1>3, <1>5, KeepLine

\* The batch goes behind what has been queued meanwhile: it is overtaken, and
\* every row of it counts as put back.
LEMMA InsertFailsLine ==
    ASSUME LineInv, WTypes', InsertFails
    PROVE  Good(Line', rows', lost', requeued')
<1>0. PICK k \in Queues : k = Order[cursor]
    BY AtQueue DEF InsertFails
<1> DEFINE a == table[k]
           b == batch
           q == queues[k]
<1>1. /\ WTypes /\ Good(Line, rows, lost, requeued) /\ rows \in Nat
      /\ \A t \in Tables : Taken(t) = IF t = k THEN b ELSE <<>>
    BY <1>0, InvFacts, AtQueue DEF InsertFails
<1>2. k \in Queues /\ k \in Tables
    BY <1>0, AtQueue DEF InsertFails
<1>3. /\ queues' = [queues EXCEPT ![k] = @ \o b]
      /\ batch' = <<>>
      /\ requeued' = requeued \union NumbersOf(b)
      /\ UNCHANGED <<table, rows, lost>>
    BY <1>0 DEF InsertFails, NextQueue, Pushed
<1>4. \A t \in Tables : Taken(t)' = <<>>
    BY <1>3 DEF Taken
<1>5. /\ \A t \in Tables : t # k => Queued(t)' = Queued(t)
      /\ Queued(k) = q /\ Queued(k)' = q \o b
  <2>1. queues'[k] = q \o b /\ \A t \in Queues : t # k => queues'[t] = queues[t]
    BY <1>1, <1>2, <1>3 DEF WTypes
  <2> QED
    BY <1>2, <2>1 DEF Queued
<1>6. \A t \in Tables : t # k => Line'[t] = Line[t]
    BY <1>1, <1>3, <1>4, <1>5, SameLine
<1>7. a \in Seq(Row) /\ b \in Seq(Row) /\ q \in Seq(Row)
    BY <1>1, <1>2 DEF WTypes
<1>8. Line[k] = a \o b \o q /\ Line'[k] = a \o q \o b
  <2>1. Line[k] = a \o b \o q /\ Line'[k] = a \o <<>> \o (q \o b)
    <3>1. Taken(k) = b /\ Taken(k)' = <<>> /\ table'[k] = table[k]
      BY <1>1, <1>2, <1>3, <1>4
    <3>2. /\ Line[k] = table[k] \o Taken(k) \o Queued(k)
          /\ Line'[k] = table'[k] \o Taken(k)' \o Queued(k)'
      BY <1>1, <1>2, LineRows
    <3> QED
      BY <1>5, <3>1, <3>2
  <2> HIDE DEF a, b, q
  <2>2. a \o <<>> \o (q \o b) = a \o q \o b
    BY <1>7
  <2> QED
    BY <2>1, <2>2
<1>9. \A m \in DOMAIN b : b[m].n \in requeued'
    BY <1>3, Zenon DEF NumbersOf
<1> HIDE DEF a, b, q
<1>10. PICK e : Swaps(e, Line[k], Line'[k], b)
  <2>1. \E e : Swaps(e, a \o b \o q, a \o q \o b, b)
    BY <1>7, Swapped
  <2> QED
    BY <1>8, <2>1
<1>11. Rearranged(Line[k], Line'[k], e, lost, lost, requeued')
    BY <1>9, <1>10 DEF Swaps, Rearranged
<1>12. requeued \subseteq requeued' /\ rows' = rows /\ lost' = lost
    BY <1>3
<1>13. Good(Line', rows, lost, requeued')
    BY <1>1, <1>2, <1>6, <1>11, <1>12, RearrangeLine
<1> QED
    BY <1>12, <1>13

\* The batch is gone, and lost.
LEMMA CommitFailsLine ==
    ASSUME LineInv, WTypes', CommitFails
    PROVE  Good(Line', rows', lost', requeued')
<1>0. PICK k \in Queues : k = Order[cursor]
    BY AtQueue DEF CommitFails
<1> DEFINE a == table[k]
           b == batch
           q == queues[k]
<1>1. /\ WTypes /\ Good(Line, rows, lost, requeued) /\ rows \in Nat
      /\ \A t \in Tables : Taken(t) = IF t = k THEN b ELSE <<>>
    BY <1>0, InvFacts, AtQueue DEF CommitFails
<1>2. k \in Queues /\ k \in Tables
    BY <1>0, AtQueue DEF CommitFails
<1>3. /\ batch' = <<>>
      /\ lost' = lost \union NumbersOf(b)
      /\ UNCHANGED <<queues, table, rows, requeued>>
    BY DEF CommitFails, NextQueue
<1>4. \A t \in Tables : Taken(t)' = <<>>
    BY <1>3 DEF Taken
<1>5. (\A t \in Tables : Queued(t)' = Queued(t)) /\ Queued(k) = q
    BY <1>2, <1>3 DEF Queued
<1>6. \A t \in Tables : t # k => Line'[t] = Line[t]
    BY <1>1, <1>3, <1>4, <1>5, SameLine
<1>7. a \in Seq(Row) /\ b \in Seq(Row) /\ q \in Seq(Row)
    BY <1>1, <1>2 DEF WTypes
<1>8. Line[k] = a \o b \o q /\ Line'[k] = a \o <<>> \o q
    BY <1>1, <1>2, <1>3, <1>4, <1>5, LineRows
<1>9. /\ \A l \in DOMAIN b : b[l].n \in lost'
      /\ \A x \in lost' \ lost : \E l \in DOMAIN b : b[l].n = x
  <2>1. lost' = lost \union {b[l].n : l \in DOMAIN b}
    BY <1>3 DEF NumbersOf
  <2> HIDE DEF b
  <2> QED
    BY <2>1
<1> HIDE DEF a, b, q
<1>10. PICK e : Drops(e, Line[k], Line'[k], b)
  <2>1. \E e : Drops(e, a \o b \o q, a \o <<>> \o q, b)
    BY <1>7, Dropped
  <2> QED
    BY <1>8, <2>1
<1>11. Rearranged(Line[k], Line'[k], e, lost, lost', requeued)
    BY <1>9, <1>10 DEF Drops, Rearranged
<1>12. requeued \subseteq requeued
    OBVIOUS
<1>13. lost \subseteq lost' /\ rows' = rows /\ requeued' = requeued
    BY <1>3
<1>14. Good(Line', rows, lost', requeued)
    BY <1>1, <1>2, <1>6, <1>11, <1>12, <1>13, RearrangeLine
<1> QED
    BY <1>13, <1>14

\* The steps that move no row: those of the writer between two queues have no
\* batch in hand.
LEMMA QuietLine ==
    ASSUME LineInv, WTypes',
           \/ StartMission \/ StartMissionFails \/ Close \/ StopWriter \/ BeginCycle
           \/ SkipEmpty \/ Sleep \/ UNCHANGED vars
    PROVE  Good(Line', rows', lost', requeued')
<1>1. UNCHANGED <<queues, table, batch, rows, lost, requeued>>
    BY DEF StartMission, StartMissionFails, Close, StopWriter, BeginCycle, SkipEmpty,
           Sleep, vars, writer, history
<1>2. batch = <<>> \/ cursor' = cursor
    BY DEF StartMission, StartMissionFails, Close, StopWriter, BeginCycle, SkipEmpty,
           Sleep, vars, writer, LineInv, StampInv, BatchInHand
<1>3. \A t \in Tables : Taken(t)' = Taken(t) /\ Queued(t)' = Queued(t)
    BY <1>1, <1>2 DEF Taken, Queued
<1>4. \A t \in Tables : Line'[t] = Line[t]
    BY <1>1, <1>3, LineRows DEF LineInv, StampInv
<1>5. WTypes /\ Good(Line, rows, lost, requeued) /\ rows \in Nat
    BY DEF LineInv, StampInv, WTypes, RowsOnceInOrder, Good
<1> QED
    BY <1>1, <1>4, <1>5, LineRows, KeepLine

\* The lines are empty at the start.
LEMMA InitLine == Init => LineInv
<1> SUFFICES ASSUME Init
             PROVE  LineInv
    OBVIOUS
<1>1. StampInv /\ lost \subseteq 1..rows /\ rows = 0
    BY InitStamp DEF Init
<1>2. \A t \in Tables : Line[t] = <<>>
  <2>1. \A t \in Tables : Line[t] = <<>> \o <<>> \o <<>>
    BY DEF Init, Line, Taken, Queued, NoRows
  <2> QED
    BY <2>1
<1> QED
    BY <1>1, <1>2 DEF LineInv, RowsOnceInOrder

\* Every step pushes, moves, puts back or loses rows without reordering the others.
LEMMA LineStep ==
    ASSUME LineInv, [Next]_vars
    PROVE  LineInv'
<1>1. StampInv' /\ WTypes'
    BY StampStep DEF LineInv, StampInv
<1>2. ASSUME NEW k \in Entities, NEW o \in Objs, AddEntity(k, o)
      PROVE  Good(Line', rows', lost', requeued')
    BY <1>1, <1>2, PushLine, DBWriterAssumption DEF AddEntity
<1>3. ASSUME NEW k \in Queues \ Entities, NEW o \in Objs, RecordRow(k, o)
      PROVE  Good(Line', rows', lost', requeued')
    BY <1>1, <1>3, PushLine DEF RecordRow
<1>4. ASSUME NEW k \in Queues, NEW o \in Objs, DeleteMarker(k, o)
      PROVE  Good(Line', rows', lost', requeued')
    BY <1>1, <1>4, PushLine DEF DeleteMarker
<1>5. ASSUME Callers
      PROVE  Good(Line', rows', lost', requeued')
    BY <1>1, <1>2, <1>3, <1>4, <1>5, AddMarkerLine, QuietLine DEF Callers
<1>6. ASSUME Writer
      PROVE  Good(Line', rows', lost', requeued')
    BY <1>1, <1>6, TakeLine, WrittenLine, InsertFailsLine, CommitFailsLine, QuietLine
       DEF Writer
<1>7. Good(Line', rows', lost', requeued')
    BY <1>1, <1>5, <1>6, QuietLine DEF Next
<1> QED
    BY <1>1, <1>7 DEF Good, LineInv, RowsOnceInOrder

\* A row that was recorded is in one place only, its queue, the batch of the
\* writer or its table, unless its commit failed, and rows stand there in the
\* order of the calls but for those that a failed insert put back (writeQueue
\* takes a queue while its callers go on pushing).
THEOREM RowsAreOnceInOrder == Spec => []RowsOnceInOrder
<1>1. LineInv => RowsOnceInOrder
    BY DEF LineInv
<1> QED
    BY <1>1, InitLine, LineStep, PTL DEF Spec
=============================================================================
