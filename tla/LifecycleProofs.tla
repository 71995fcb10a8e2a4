--------------------------- MODULE LifecycleProofs ---------------------------
(***************************************************************************)
(* Proofs about Lifecycle, for any set of recording commands and any       *)
(* number of commands of the game.                                         *)
(***************************************************************************)
EXTENDS Lifecycle, TLAPS

Pcs == {"none", "create", "manager", "register", "gate", "done"}

\* The types of what the commands and the initialisation share.
LTypes ==
    /\ supported \in BOOLEAN
    /\ storageBackend \in Backends
    /\ inits \in 0..MaxInits
    /\ init \in [Inits -> [pc : Pcs, backend : Backends, left : SUBSET RecordingCommands]]
    /\ handlers \in [RecordingCommands -> Backends]
    /\ storageOK \in BOOLEAN
    /\ gate \in BOOLEAN

\* What each stage of initStorage has behind it: the backend before the manager,
\* a handler for every command that is no longer to do, and the callback before
\* the gate.  A backend is never taken away.
StagesDone ==
    /\ \A i \in Inits :
          /\ i > inits => init[i].pc = "none"
          /\ init[i].pc \in {"none", "create", "manager"} => init[i].left = RecordingCommands
          /\ init[i].pc \in {"manager", "register", "gate"} => supported /\ storageBackend # 0
          /\ init[i].pc = "register" =>
                \A c \in RecordingCommands \ init[i].left : handlers[c] # 0
          /\ init[i].pc = "gate" => storageOK
    /\ gate => storageOK
    /\ storageOK => /\ supported
                    /\ storageBackend # 0
                    /\ \A c \in RecordingCommands : handlers[c] # 0
    /\ starting # 0 => gate

\* One initialisation at a time: the last one sent, and all it has done so far
\* is done with its own backend.
Alone ==
    /\ \A i \in Inits :
          /\ init[i].pc \notin {"none", "done"} => i = inits
          /\ init[i].pc \in {"manager", "register", "gate"} => storageBackend = i
          /\ init[i].pc \in {"register", "gate"} =>
                /\ init[i].backend = i
                /\ \A c \in RecordingCommands \ init[i].left : handlers[c] = i
          /\ init[i].pc = "gate" => init[i].left = {}
    /\ OneBackend

-----------------------------------------------------------------------------
\* Nothing is ready, and nothing was said to be, at the start.
LEMMA InitReady == LInit => LTypes /\ StagesDone /\ OkMeansReady
<1> SUFFICES ASSUME LInit PROVE LTypes /\ StagesDone /\ OkMeansReady
    OBVIOUS
<1>1. LTypes
  <2>1. init \in [Inits -> [pc : Pcs, backend : Backends, left : SUBSET RecordingCommands]]
    BY LifecycleAssumption DEF LInit, Inits, Backends, Pcs
  <2>2. supported \in BOOLEAN /\ storageOK \in BOOLEAN /\ gate \in BOOLEAN
    BY DEF LInit
  <2>3. 0 \in 0..MaxInits /\ 0 \in Backends
    BY LifecycleAssumption DEF Inits, Backends
  <2>4. /\ storageBackend \in Backends /\ inits \in 0..MaxInits
        /\ handlers \in [RecordingCommands -> Backends]
    BY <2>3 DEF LInit
  <2> QED
    BY <2>1, <2>2, <2>4 DEF LTypes
<1>2. /\ \A i \in Inits : init[i].pc = "none" /\ init[i].left = RecordingCommands
      /\ ~gate /\ ~storageOK /\ starting = 0
    BY DEF LInit
<1>3. StagesDone
    BY <1>2 DEF StagesDone
<1>4. OkMeansReady
    BY DEF LInit, OkMeansReady
<1> QED
    BY <1>1, <1>3, <1>4

Stage == [pc : Pcs, backend : Backends, left : SUBSET RecordingCommands]

\* One goroutine changes its own entry of init.
Becomes(i, p, b, l) ==
    /\ init' \in [Inits -> Stage]
    /\ \A j \in Inits : j # i => init'[j] = init[j]
    /\ init'[i].pc = p
    /\ init'[i].backend = b
    /\ init'[i].left = l

\* What each step of initStorage makes of its entry.
LEMMA StageSteps ==
    ASSUME LTypes, NEW i \in Inits
    PROVE  LET e == init[i] IN
           /\ CreateBackend(i) =>
                  Becomes(i, IF supported THEN "manager" ELSE "done", e.backend, e.left)
           /\ NewManager(i) => Becomes(i, "register", storageBackend, e.left)
           /\ RegisterOne(i) => \E c \in e.left :
                                   /\ Becomes(i, "register", e.backend, e.left \ {c})
                                   /\ handlers' = [handlers EXCEPT ![c] = i]
           /\ StorageOK(i) => Becomes(i, "gate", e.backend, e.left)
           /\ OpenGate(i) => Becomes(i, "done", e.backend, e.left)
<1> USE DEF LTypes, Pcs, Stage, At, Goto, Becomes
<1>1. ASSUME CreateBackend(i)
      PROVE  Becomes(i, IF supported THEN "manager" ELSE "done", init[i].backend, init[i].left)
    BY <1>1 DEF CreateBackend
<1>2. ASSUME NewManager(i) PROVE Becomes(i, "register", storageBackend, init[i].left)
    BY <1>2 DEF NewManager
<1>3. ASSUME RegisterOne(i)
      PROVE  \E c \in init[i].left :
                /\ Becomes(i, "register", init[i].backend, init[i].left \ {c})
                /\ handlers' = [handlers EXCEPT ![c] = i]
  <2>1. PICK c \in init[i].left : /\ handlers' = [handlers EXCEPT ![c] = i]
                                  /\ init' = [init EXCEPT ![i].left = @ \ {c}]
    BY <1>3 DEF RegisterOne
  <2>2. Becomes(i, "register", init[i].backend, init[i].left \ {c})
    BY <1>3, <2>1 DEF RegisterOne
  <2> QED
    BY <2>1, <2>2
<1>4. ASSUME StorageOK(i) PROVE Becomes(i, "gate", init[i].backend, init[i].left)
    BY <1>4 DEF StorageOK
<1>5. ASSUME OpenGate(i) PROVE Becomes(i, "done", init[i].backend, init[i].left)
    BY <1>5 DEF OpenGate
<1> HIDE DEF Becomes
<1> QED
    BY <1>1, <1>2, <1>3, <1>4, <1>5

\* Every step keeps the types.
LEMMA TypesStep == LTypes /\ [LNext]_vars => LTypes'
<1> SUFFICES ASSUME LTypes, [LNext]_vars PROVE LTypes'
    OBVIOUS
<1> USE LifecycleAssumption DEF LTypes, Inits, Backends
<1>1. CASE SendInit
  <2>1. inits + 1 \in Inits /\ inits' \in 0..MaxInits
    BY <1>1 DEF SendInit
  <2>2. init' \in [Inits -> Stage]
    BY <1>1, <2>1 DEF SendInit, Stage, Pcs
  <2> QED
    BY <1>1, <2>1, <2>2 DEF SendInit, Stage
<1>2. ASSUME \/ SendStart \/ SendSave \/ StartTake \/ StartMission \/ EndMission
             \/ \E c \in RecordingCommands : SendRecord(c)
      PROVE  LTypes'
    BY <1>2 DEF SendStart, SendSave, SendRecord, StartTake, StartMission, EndMission,
                ivars, gvars
<1>3. ASSUME NEW i \in Inits, InitStorage(i) PROVE LTypes'
  <2>1. init' \in [Inits -> Stage]
    BY <1>3, StageSteps DEF InitStorage, Becomes
  <2>2. /\ supported' \in BOOLEAN /\ storageBackend' \in Backends
        /\ inits' \in 0..MaxInits /\ handlers' \in [RecordingCommands -> Backends]
        /\ storageOK' \in BOOLEAN /\ gate' \in BOOLEAN
    <3>1. CASE CreateBackend(i)
      BY <3>1 DEF CreateBackend, UNCHANGED_but_init, gvars
    <3>2. CASE NewManager(i) \/ StorageOK(i) \/ OpenGate(i)
      BY <3>2 DEF NewManager, StorageOK, OpenGate, UNCHANGED_but_init, gvars
    <3>3. CASE RegisterOne(i)
      BY <3>3 DEF RegisterOne, UNCHANGED_but_init, gvars
    <3> QED
      BY <1>3, <3>1, <3>2, <3>3 DEF InitStorage
  <2> QED
    BY <2>1, <2>2 DEF Stage
<1>4. CASE UNCHANGED vars
    BY <1>4 DEF vars, ivars, gvars
<1> QED
    BY <1>1, <1>2, <1>3, <1>4 DEF LNext, StartHandler

\* Every stage of initStorage leaves behind it what the next one relies on.
LEMMA StagesStep == LTypes /\ StagesDone /\ [LNext]_vars => StagesDone'
<1> SUFFICES ASSUME LTypes, StagesDone, [LNext]_vars PROVE StagesDone'
    OBVIOUS
<1> USE DEF StagesDone
<1>1. CASE SendInit
  <2>1. inits + 1 \in Inits
    BY <1>1, LifecycleAssumption DEF SendInit, LTypes, Inits
  <2>2. /\ init'[inits + 1].pc = "create"
        /\ init'[inits + 1].left = init[inits + 1].left
        /\ \A i \in Inits : i # inits + 1 => init'[i] = init[i]
    BY <1>1, <2>1 DEF SendInit, LTypes
  <2>3. init[inits + 1].pc = "none"
    BY <2>1, LifecycleAssumption DEF LTypes, Inits
  <2> QED
    BY <1>1, <2>1, <2>2, <2>3, LifecycleAssumption DEF SendInit, mvars, LTypes, Inits
<1>2. ASSUME \/ SendStart \/ SendSave \/ EndMission
             \/ \E c \in RecordingCommands : SendRecord(c)
      PROVE  StagesDone'
    BY <1>2 DEF SendStart, SendSave, SendRecord, EndMission, ivars, gvars, mvars
<1>3. CASE StartTake \/ StartMission
    BY <1>3 DEF StartTake, StartMission, StartGate, ivars, gvars
<1>4. ASSUME NEW i \in Inits, InitStorage(i) PROVE StagesDone'
  <2> USE LifecycleAssumption DEF At, UNCHANGED_but_init, mvars, gvars, Becomes, Inits
  <2>1. CASE CreateBackend(i)
    <3>1. Becomes(i, IF supported THEN "manager" ELSE "done", init[i].backend, init[i].left)
      BY <1>4, <2>1, StageSteps
    <3>2. /\ supported => storageBackend' = i
          /\ ~supported => storageBackend' = storageBackend
      BY <2>1 DEF CreateBackend
    <3> QED
      BY <1>4, <2>1, <3>1, <3>2 DEF CreateBackend
  <2>2. CASE NewManager(i)
    <3>1. Becomes(i, "register", storageBackend, init[i].left)
      BY <1>4, <2>2, StageSteps
    <3> QED
      BY <1>4, <2>2, <3>1 DEF NewManager
  <2>3. CASE RegisterOne(i)
    <3>1. PICK c \in init[i].left :
             /\ Becomes(i, "register", init[i].backend, init[i].left \ {c})
             /\ handlers' = [handlers EXCEPT ![c] = i]
      BY <1>4, <2>3, StageSteps
    <3>2. \A d \in RecordingCommands : handlers'[d] = IF d = c THEN i ELSE handlers[d]
      BY <3>1 DEF LTypes
    <3> QED
      BY <1>4, <2>3, <3>1, <3>2 DEF RegisterOne
  <2>4. CASE StorageOK(i)
    <3>1. Becomes(i, "gate", init[i].backend, init[i].left)
      BY <1>4, <2>4, StageSteps
    <3>2. /\ init[i].pc = "register" /\ init[i].left = {} /\ storageOK'
          /\ UNCHANGED <<supported, storageBackend, handlers, gate, starting, inits>>
      BY <2>4 DEF StorageOK
    <3> QED
      BY <1>4, <3>1, <3>2
  <2>5. CASE OpenGate(i)
    <3>1. Becomes(i, "done", init[i].backend, init[i].left)
      BY <1>4, <2>5, StageSteps
    <3> QED
      BY <1>4, <2>5, <3>1 DEF OpenGate
  <2> QED
    BY <1>4, <2>1, <2>2, <2>3, <2>4, <2>5 DEF InitStorage
<1>5. CASE UNCHANGED vars
    BY <1>5 DEF vars, ivars, mvars, gvars
<1> QED
    BY <1>1, <1>2, <1>3, <1>4, <1>5 DEF LNext, StartHandler

\* A callback is sent only with a backend and all handlers in place.
LEMMA ReadyStep == StagesDone /\ OkMeansReady /\ [LNext]_vars => OkMeansReady'
<1> SUFFICES ASSUME StagesDone, OkMeansReady, [LNext]_vars PROVE OkMeansReady'
    OBVIOUS
<1> USE DEF OkMeansReady
<1>1. ASSUME UNCHANGED <<acked, refused>> PROVE OkMeansReady'
    BY <1>1
<1>2. ASSUME \/ SendInit \/ SendStart \/ StartTake \/ EndMission
             \/ \E i \in Inits : InitStorage(i)
      PROVE  UNCHANGED <<acked, refused>>
    BY <1>2 DEF SendInit, SendStart, StartTake, EndMission, InitStorage, CreateBackend,
        NewManager, RegisterOne, StorageOK, OpenGate, UNCHANGED_but_init, mvars, gvars
<1>3. CASE SendSave \/ \E c \in RecordingCommands : SendRecord(c)
    BY <1>3 DEF SendSave, SendRecord, StagesDone, mvars
<1>4. CASE StartMission
    BY <1>4 DEF StartMission, StagesDone, gvars
<1>5. CASE UNCHANGED vars
    BY <1>1, <1>5 DEF vars, mvars, gvars
<1> QED
    BY <1>1, <1>2, <1>3, <1>4, <1>5 DEF LNext, StartHandler

\* The stages are in order in every reachable state.
LEMMA AlwaysStages == LSpec => [](LTypes /\ StagesDone /\ OkMeansReady)
<1>1. LTypes /\ StagesDone /\ OkMeansReady /\ [LNext]_vars
          => LTypes' /\ StagesDone' /\ OkMeansReady'
    BY TypesStep, StagesStep, ReadyStep
<1> QED
    BY <1>1, InitReady, PTL DEF LSpec

\* The two OK callbacks mean what they say, for any number of initialisations,
\* also of overlapping ones (initStorage, handleNewMission, triggerMissionSave).
THEOREM OksAreTrue == LSpec => []OkMeansReady
    BY AlwaysStages, PTL

-----------------------------------------------------------------------------
\* No initialisation runs at the start.
LEMMA InitAlone == LInit => (SerialInits => Alone)
    BY DEF LInit, Alone, OneBackend

\* An initialisation that waits for the one before it finds its work complete.
LEMMA AloneStep ==
    LTypes /\ StagesDone /\ SerialInits /\ Alone /\ [LNext]_vars => Alone'
<1> SUFFICES ASSUME LTypes, StagesDone, SerialInits, Alone, [LNext]_vars PROVE Alone'
    OBVIOUS
<1> USE DEF Alone, OneBackend, Initialising
<1>1. ASSUME UNCHANGED ivars, UNCHANGED inits PROVE Alone'
    BY <1>1 DEF ivars
<1>2. ASSUME \/ SendStart \/ SendSave \/ EndMission \/ StartTake \/ StartMission
             \/ \E c \in RecordingCommands : SendRecord(c)
      PROVE  UNCHANGED ivars /\ UNCHANGED inits
    BY <1>2 DEF SendStart, SendSave, SendRecord, EndMission, StartTake, StartMission,
                ivars, gvars
<1>3. CASE SendInit
  <2>1. inits + 1 \in Inits /\ inits' = inits + 1
    BY <1>3, LifecycleAssumption DEF SendInit, LTypes, Inits
  <2>2. /\ init'[inits + 1].pc = "create"
        /\ \A i \in Inits : i # inits + 1 => init'[i] = init[i]
    BY <1>3, <2>1 DEF SendInit, LTypes
  <2>3. \A i \in Inits : init[i].pc \in {"none", "done"}
    BY <1>3 DEF SendInit
  <2> QED
    BY <2>1, <2>2, <2>3
<1>4. ASSUME NEW i \in Inits, InitStorage(i) PROVE Alone'
  <2> USE DEF At, UNCHANGED_but_init, mvars, gvars, Becomes
  <2>0. i = inits /\ inits' = inits
    BY <1>4 DEF InitStorage, CreateBackend, NewManager, RegisterOne, StorageOK, OpenGate
  <2>1. CASE CreateBackend(i)
    <3>1. Becomes(i, IF supported THEN "manager" ELSE "done", init[i].backend, init[i].left)
      BY <2>1, StageSteps
    <3>2. /\ supported => storageBackend' = i
          /\ ~supported => ~storageOK
          /\ UNCHANGED <<storageOK, handlers>>
      BY <2>1 DEF CreateBackend, StagesDone
    <3>3. CASE supported
      BY <2>0, <3>1, <3>2, <3>3
    <3>4. CASE ~supported
      BY <2>0, <3>1, <3>2, <3>4
    <3> QED
      BY <3>3, <3>4
  <2>2. CASE NewManager(i)
    <3>1. Becomes(i, "register", storageBackend, init[i].left)
      BY <2>2, StageSteps
    <3>2. init[i].left = RecordingCommands /\ storageBackend = i
      BY <2>2 DEF NewManager, StagesDone
    <3>3. UNCHANGED <<storageBackend, handlers, storageOK>>
      BY <2>2 DEF NewManager
    <3> QED
      BY <2>0, <3>1, <3>2, <3>3
  <2>3. CASE RegisterOne(i)
    <3>1. PICK c \in init[i].left :
             /\ Becomes(i, "register", init[i].backend, init[i].left \ {c})
             /\ handlers' = [handlers EXCEPT ![c] = i]
      BY <2>3, StageSteps
    <3>2. \A d \in RecordingCommands : handlers'[d] = IF d = c THEN i ELSE handlers[d]
      BY <3>1 DEF LTypes
    <3>3. init[i].pc = "register" /\ UNCHANGED <<storageBackend, storageOK>>
      BY <2>3 DEF RegisterOne
    <3> QED
      BY <2>0, <3>1, <3>2, <3>3
  <2>4. CASE StorageOK(i)
    <3>1. Becomes(i, "gate", init[i].backend, init[i].left)
      BY <2>4, StageSteps
    <3>2. /\ init[i].pc = "register" /\ init[i].left = {}
          /\ UNCHANGED <<storageBackend, handlers>>
      BY <2>4 DEF StorageOK
    <3> QED
      BY <2>0, <3>1, <3>2
  <2>5. CASE OpenGate(i)
    <3>1. Becomes(i, "done", init[i].backend, init[i].left)
      BY <2>5, StageSteps
    <3>2. /\ init[i].pc = "gate"
          /\ UNCHANGED <<storageBackend, handlers, storageOK>>
      BY <2>5 DEF OpenGate
    <3>3. \A c \in RecordingCommands : handlers[c] = i
      BY <3>2
    <3>4. init'[i].backend = storageBackend /\ i # 0
      BY <3>1, <3>2, LifecycleAssumption DEF Inits
    <3> QED
      BY <2>0, <3>1, <3>2, <3>3, <3>4
  <2> QED
    BY <1>4, <2>1, <2>2, <2>3, <2>4, <2>5 DEF InitStorage
<1>5. CASE UNCHANGED vars
    BY <1>1, <1>5 DEF vars, gvars
<1> QED
    BY <1>1, <1>2, <1>3, <1>4, <1>5 DEF LNext, StartHandler

\* When storage is initialised again only after :STORAGE:OK:, missions are
\* started in, recorded to and saved from the same backend (initStorage,
\* NewManager, RegisterHandlers).
THEOREM BackendIsShared == LSpec => [](SerialInits => OneBackend)
<1>1. LTypes /\ StagesDone /\ (SerialInits => Alone) /\ [LNext]_vars
          => (SerialInits' => Alone')
    BY AloneStep
<1>2. (SerialInits => Alone) => (SerialInits => OneBackend)
    BY DEF Alone
<1> QED
    BY <1>1, <1>2, InitAlone, AlwaysStages, PTL DEF LSpec
=============================================================================
