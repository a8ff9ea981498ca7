----------------------------- MODULE MCProgress -----------------------------
(***************************************************************************)
(* What must happen in the end, component by component: part names the one *)
(* that a behaviour is of, and the others keep the state they began with.  *)
(* The fairness of each component is the one its own module states; the    *)
(* conjuncts are lined up, so that one formula serves them all.            *)
(***************************************************************************)
EXTENDS Daemon, Pull, ModelWorker

VARIABLES
    part,
    sRaw, sMeta, sUp, sFatal, sClosing, sClosed, sShutdown, sRequests,
    sMetadata, sRequest, sWriter, sActive, sAnswer, sNth, sAcked, sPuts,
    sLost, sOvertaken, sCrashes,
    nRaw, nOutcomes, nObservations, nCheckpoint, nBarrier, nStore, nKnown,
    nReads, nRunner, nRecord, nVerdict, nFailures,
    pRaw, pNormalized, pCatalog, pCheckpoint, pPending, pFiles, pUnsynced,
    pStore, pEncoder, pChecked, pStep, pFailures

S == INSTANCE Spool WITH
    Callers <- {"a", "b", "c"}, Keys <- {"k"}, Capacity <- 1, MetaCapacity <- 2,
    MetaStreams <- 1, MaxEnvelopes <- 0, MaxRecords <- 0, MaxVersion <- 1,
    MaxCrashes <- 0,
    raw <- sRaw, meta <- sMeta, up <- sUp, fatal <- sFatal, closing <-
    sClosing, closed <- sClosed, shutdown <- sShutdown, requests <- sRequests,
    metadata <- sMetadata, request <- sRequest, writer <- sWriter, active <-
    sActive, answer <- sAnswer, nth <- sNth, acked <- sAcked, puts <- sPuts,
    lost <- sLost, overtaken <- sOvertaken, crashes <- sCrashes

N == INSTANCE Normalization WITH
    CandleKeys <- {"k"}, Prices <- {"p", "q"}, MaxRaw <- 2, MaxFailures <- 1,
    raw <- nRaw, outcomes <- nOutcomes, observations <- nObservations,
    checkpoint <- nCheckpoint, barrier <- nBarrier, store <- nStore, known <-
    nKnown, reads <- nReads, runner <- nRunner, record <- nRecord, verdict <-
    nVerdict, failures <- nFailures

P == INSTANCE Publication WITH
    Epochs <- {"e", "f"}, Partitions <- {"p"}, Encoders <- {"v", "w"},
    MaxBatch <- 2, MaxRaw <- 2, MaxFailures <- 2,
    raw <- pRaw, normalized <- pNormalized, catalog <- pCatalog, checkpoint <-
    pCheckpoint, pending <- pPending, files <- pFiles, unsynced <- pUnsynced,
    store <- pStore, encoder <- pEncoder, checked <- pChecked, step <- pStep,
    failures <- pFailures

spoolVars == <<sRaw, sMeta, sUp, sFatal, sClosing, sClosed, sShutdown, sRequests,
    sMetadata, sRequest, sWriter, sActive, sAnswer, sNth, sAcked, sPuts, sLost,
    sOvertaken, sCrashes>>
normalizationVars == <<nRaw, nOutcomes, nObservations, nCheckpoint, nBarrier, nStore,
    nKnown, nReads, nRunner, nRecord, nVerdict, nFailures>>
publicationVars == <<pRaw, pNormalized, pCatalog, pCheckpoint, pPending, pFiles,
    pUnsynced, pStore, pEncoder, pChecked, pStep, pFailures>>
allVars == <<part, spoolVars, normalizationVars, publicationVars, daemonVars, pullVars,
             workerVars>>

Init ==
    /\ part \in {"spool", "normalization", "publication", "daemon", "pull",
                 "worker"}
    /\ S!Init /\ N!Init /\ P!Init /\ DaemonInit /\ PullInit /\ WorkerInit
    /\ part # "publication" => pEncoder = "v"
    /\ part # "daemon" => store.committed = 0 /\ instruments

(* Only this part takes a step. *)
OfSpool ==
    /\ part = "spool"
    /\ UNCHANGED <<part, normalizationVars, publicationVars, daemonVars, pullVars,
                   workerVars>>
OfNormalization ==
    /\ part = "normalization"
    /\ UNCHANGED <<part, spoolVars, publicationVars, daemonVars, pullVars,
                   workerVars>>
OfPublication ==
    /\ part = "publication"
    /\ UNCHANGED <<part, spoolVars, normalizationVars, daemonVars, pullVars,
                   workerVars>>
OfDaemon ==
    /\ part = "daemon"
    /\ UNCHANGED <<part, spoolVars, normalizationVars, publicationVars, pullVars,
                   workerVars>>
OfPull ==
    /\ part = "pull"
    /\ UNCHANGED <<part, spoolVars, normalizationVars, publicationVars, daemonVars,
                   workerVars>>
OfWorker ==
    /\ part = "worker"
    /\ UNCHANGED <<part, spoolVars, normalizationVars, publicationVars, daemonVars,
                   pullVars>>

Next ==
    \/ OfSpool /\ S!Next
    \/ OfNormalization /\ N!Next
    \/ OfPublication /\ P!Next
    \/ OfDaemon /\ DaemonNext
    \/ OfPull /\ PullNext
    \/ OfWorker /\ WorkerNext

(* What of the state may change, and that a step is of the part named.     *)
current ==
    CASE part = "spool" -> spoolVars
      [] part = "normalization" -> normalizationVars
      [] part = "publication" -> publicationVars
      [] part = "daemon" -> daemonVars
      [] part = "pull" -> pullVars
      [] part = "worker" -> workerVars
In(name) == part = name /\ part' = part

(* Each module's own fairness.  The daemon has one condition more than the *)
(* others have.                                                           *)
Fairness ==
    /\ WF_current(
          \/ In("spool") /\ S!WriterLoop
          \/ In("normalization") /\ N!ProcessNext
          \/ In("publication") /\ P!Publisher
          \/ In("daemon") /\ (Opened \/ Accepted \/ Processed \/ Closed)
          \/ In("pull") /\ StartPull
          \/ In("worker") /\ WorkerSteps)
    /\ WF_current(
          \/ In("spool") /\ S!CloseSignal
          \/ In("normalization") /\ N!Open
          \/ In("publication") /\ P!Open
          \/ In("daemon") /\ PullEnds
          \/ In("pull") /\ PullStep
          \/ In("worker") /\ UnitEnds)
    /\ WF_current(
          \/ In("spool") /\ S!CloseJoin
          \/ In("normalization") /\ N!CloseFailed
          \/ In("publication") /\ P!Normalize
          \/ In("daemon") /\ EndJob)
    /\ WF_current(
          \/ In("normalization") /\ N!Discover("k")
          \/ In("publication") /\ pStore = "failed" /\ P!Close
          \/ In("daemon") /\ PipelineTurn)
    /\ WF_current(In("daemon") /\ SyncTurn)
    /\ WF_current(In("daemon") /\ (\/ BeginDrain \/ JoinTasks \/ DrainJobs \/ Flush
                               \/ BeginClose \/ Forced))

Spec == Init /\ [][Next]_allVars /\ Fairness

-----------------------------------------------------------------------------
(* close() of the ingestor completes: see Spool.                           *)
CloseCompletes == S!CloseCompletes

(* Recovery calls are answered under intake load: see Spool.               *)
RecoveryAnswered == S!RecoveryAnswered

(* Every raw record is normalized: see Normalization.                      *)
Progress == N!Progress

(* Every normalized record is published: see Publication.                  *)
EverythingPublished == P!EverythingPublished
=============================================================================
