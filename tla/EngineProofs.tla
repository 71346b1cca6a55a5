---------------------------- MODULE EngineProofs ----------------------------
(***************************************************************************)
(* Proofs about the engine model of streamer.cpp, for every value of the  *)
(* constants that satisfies EngineAssumption.                              *)
(***************************************************************************)
EXTENDS Engine, SequenceTheorems, TLAPS

\* Worker program counters inside the squaring loop of
\* vdf_computation_thread, where last_checkpoint_iter is live.
LoopPCs == {"loop", "inner", "square", "cp", "batch"}

\* last_checkpoint_iter never exceeds current_iteration inside the loop
\* of a live process, so the segment length current_iter -
\* last_checkpoint_iter computed for a checkpoint proof is never negative.
CheckpointGap ==
    crashed = "none" /\ wpc \in LoopPCs => lastCpIter <= cur

\* The inductive invariant behind TypeOK.
IInv == TypeOK /\ CheckpointGap

\* While should_stop is set, a worker about to square has not squared past
\* the iteration at which the stop was requested.
StopInv ==
    shouldStop => /\ cur <= stopMark + 1
                  /\ wpc = "square" => cur <= stopMark

-----------------------------------------------------------------------------
\* The placeholder form of a fresh context is a form.
LEMMA NoFormType == NoForm \in Form
BY EngineAssumption DEF NoForm, Generator, Form

\* square() maps a form of discriminant D to a form of discriminant D.
LEMMA SquareType ==
    ASSUME NEW f \in Form PROVE Square(f) \in Form
<1>1. Square(f) = [d |-> f.d, k |-> f.k + 1]
  BY DEF Square, Form
<1> QED
  BY <1>1 DEF Form

\* A callback record with natural counts is a Report.
LEMMA ReportType ==
    ASSUME NEW k \in {"progress", "completion"}, NEW ok \in BOOLEAN,
           NEW n \in Nat, NEW m \in Nat
    PROVE  [kind |-> k, ok |-> ok, n |-> n, done |-> m] \in Report
BY DEF Report

\* Recording a completion_cb call keeps the callback history well formed.
LEMMA CompleteType ==
    ASSUME NEW ok \in BOOLEAN, NEW n \in Nat, reports \in Seq(Report),
           cur \in Nat, Complete(ok, n)
    PROVE  reports' \in Seq(Report)
<1>1. CASE cbSet
  <2>1. [kind |-> "completion", ok |-> ok, n |-> n, done |-> cur] \in Report
    BY ReportType
  <2> QED
    BY <1>1, <2>1, AppendProperties DEF Complete
<1>2. CASE ~cbSet
  BY <1>2 DEF Complete
<1> QED
  BY <1>1, <1>2

\* form::generator(D) is a form of discriminant D.
LEMMA GeneratorType ==
    ASSUME NEW d \in Discs PROVE Generator(d) \in Form
BY DEF Generator, Form

\* The three kinds of checkpoint record the worker stores are records of
\* the checkpoint type when their forms and iterations are.
LEMMA RecordTypes ==
    ASSUME NEW x \in Form, NEW y \in Form, NEW t \in Nat, NEW dt \in Nat
    PROVE  /\ Sentinel(x) \in CheckpointRec
           /\ SegmentRecord(x, y, t, dt) \in CheckpointRec
           /\ PlainRecord(y, t) \in CheckpointRec
BY DEF Sentinel, SegmentRecord, PlainRecord, CheckpointRec, Form

\* A fresh context satisfies the invariant.
LEMMA InitIInv == Init => IInv
<1> SUFFICES ASSUME Init PROVE IInv
  OBVIOUS
<1>1. PICK s \in SegmentSizes : segmentSize = s
  BY DEF Init
<1>2. /\ initialForm \in Form /\ finalForm \in Form
      /\ current \in Form /\ lastCp \in Form
  BY NoFormType DEF Init
<1>3. /\ cpc \in [Clients -> ClientPCs]
      /\ budget \in [Clients -> Nat]
  BY EngineAssumption DEF Init, ClientPCs
<1>4. CheckpointGap
  BY DEF Init, CheckpointGap
<1>5. /\ state \in States /\ wpc \in WorkerPCs
      /\ crashed \in {"none", "terminate", "sigfpe"}
  BY DEF Init, States, WorkerPCs
<1>6. /\ cps \in Seq(CheckpointRec) /\ reports \in Seq(Report)
      /\ proofs \subseteq [x : Form, y : Form, t : Nat]
      /\ results \subseteq [x : Form, y : Form, t : Nat]
  BY DEF Init
<1>7. /\ cur \in Nat /\ target \in Nat /\ cpInterval \in Nat
      /\ updateInterval \in Nat /\ lastCpIter \in Nat /\ completed \in Nat
      /\ batchEnd \in Nat /\ sinceUpdate \in Nat /\ stopMark \in Nat
  BY DEF Init
<1>8. /\ shouldStop \in BOOLEAN /\ storeCps \in BOOLEAN
      /\ streaming \in BOOLEAN /\ cbSet \in BOOLEAN /\ started \in BOOLEAN
  BY DEF Init
<1>9. mutex \in Clients \cup {NoHolder} /\ waitSet \subseteq Clients
  BY DEF Init
<1> QED
  BY <1>1, <1>2, <1>3, <1>4, <1>5, <1>6, <1>7, <1>8, <1>9, EngineAssumption
  DEF IInv, TypeOK

\* Definitions the step proofs expand.
USE DEF IInv, TypeOK, CheckpointGap, LoopPCs, WorkerPCs, ClientPCs, States,
        vars, engineVars, cbVars, syncVars,
        workerVars, clientVars, ghostVars

\* Every step of the system preserves the invariant.
LEMMA NextIInv == IInv /\ [Next]_vars => IInv'
<1> SUFFICES ASSUME IInv, Next \/ UNCHANGED vars PROVE IInv'
  OBVIOUS
<1> HIDE DEF vars
<1>1. CASE crashed = "none" /\ WorkerBegin
  <2>1. /\ current' \in Form /\ lastCp' \in Form
        /\ lastCpIter' <= cur' /\ wpc' = "loop"
    BY <1>1 DEF WorkerBegin
  <2>2. cpInterval' \in Nat /\ cps' \in Seq(CheckpointRec)
    <3>1. Sentinel(initialForm) \in CheckpointRec
      BY RecordTypes
    <3>2. CASE storeCps /\ target > 0 /\ streaming
      <4>1. Append(cps, Sentinel(initialForm)) \in Seq(CheckpointRec)
        BY <3>1, AppendProperties
      <4>2. cpInterval' \in Nat
        BY <1>1, <3>2 DEF WorkerBegin, DefaultInterval
      <4>3. cps' = Append(cps, Sentinel(initialForm))
        BY <1>1, <3>2 DEF WorkerBegin
      <4> QED
        BY <4>1, <4>2, <4>3
    <3>3. CASE storeCps /\ target > 0 /\ ~streaming
      BY <1>1, <3>3, EngineAssumption DEF WorkerBegin, DefaultInterval
    <3>4. CASE ~(storeCps /\ target > 0)
      BY <1>1, <3>4 DEF WorkerBegin
    <3> QED
      BY <3>2, <3>3, <3>4
  <2> QED
    BY SMTT(30), <1>1, <2>1, <2>2 DEF WorkerBegin
<1>2. CASE crashed = "none" /\ WorkerLoop
  BY SMTT(30), <1>2, EngineAssumption DEF WorkerLoop
<1>3. CASE crashed = "none" /\ WorkerInner
  BY SMTT(30), <1>3 DEF WorkerInner
<1>4. CASE crashed = "none" /\ WorkerSquare
  <2>1. current' \in Form
    BY <1>4, SquareType DEF WorkerSquare
  <2>2. wpc' \in WorkerPCs
    BY <1>4 DEF WorkerSquare
  <2>3. cur' \in Nat /\ lastCpIter' <= cur'
    BY <1>4 DEF WorkerSquare
  <2> QED
    BY SMTT(30), <1>4, <2>1, <2>2, <2>3 DEF WorkerSquare
<1>5. CASE crashed = "none" /\ WorkerCheckpoint
  <2>1. cur - lastCpIter \in Nat
    BY <1>5 DEF WorkerCheckpoint
  <2>2. cps' \in Seq(CheckpointRec)
    <3>1. CASE streaming
      <4>1. SegmentRecord(lastCp, current, cur, cur - lastCpIter)
              \in CheckpointRec
        BY <2>1, RecordTypes
      <4>2. cps' = Append(cps, SegmentRecord(lastCp, current, cur,
                                             cur - lastCpIter))
        BY <1>5, <3>1 DEF WorkerCheckpoint
      <4> QED
        BY <4>1, <4>2, AppendProperties
    <3>2. CASE ~streaming
      <4>1. PlainRecord(current, cur) \in CheckpointRec
        BY RecordTypes
      <4>2. cps' = Append(cps, PlainRecord(current, cur))
        BY <1>5, <3>2 DEF WorkerCheckpoint
      <4> QED
        BY <4>1, <4>2, AppendProperties
    <3> QED
      BY <3>1, <3>2
  <2>3. lastCp' \in Form /\ lastCpIter' \in Nat /\ lastCpIter' <= cur'
    BY <1>5 DEF WorkerCheckpoint
  <2> QED
    BY SMTT(30), <1>5, <2>2, <2>3 DEF WorkerCheckpoint
<1>6. CASE crashed = "none" /\ WorkerFail
  <2>1. reports' \in Seq(Report)
    BY <1>6, CompleteType DEF WorkerFail
  <2> QED
    BY SMTT(30), <1>6, <2>1 DEF WorkerFail
<1>7. CASE crashed = "none" /\ WorkerBatchEnd
  <2>1. PICK e \in sinceUpdate..MaxElapsed :
          IF e >= updateInterval
          THEN IF e = 0
               THEN /\ crashed' = "sigfpe"
                    /\ UNCHANGED <<sinceUpdate, reports, wpc>>
               ELSE /\ sinceUpdate' = 0
                    /\ reports' = IF cbSet
                                  THEN Append(reports,
                                         [kind |-> "progress", ok |-> TRUE,
                                          n |-> batchEnd, done |-> cur])
                                  ELSE reports
                    /\ wpc' = "loop"
                    /\ UNCHANGED crashed
          ELSE /\ sinceUpdate' = e
               /\ wpc' = "loop"
               /\ UNCHANGED <<reports, crashed>>
    BY <1>7 DEF WorkerBatchEnd
  <2>2. [kind |-> "progress", ok |-> TRUE, n |-> batchEnd, done |-> cur]
          \in Report
    BY ReportType
  <2>3. /\ reports' \in Seq(Report)
        /\ sinceUpdate' \in Nat
        /\ wpc' \in WorkerPCs
        /\ crashed' \in {"none", "terminate", "sigfpe"}
        /\ crashed' = "none" => wpc' \in {"batch", "loop"}
    <3>1. e \in Nat
      BY EngineAssumption
    <3>2. CASE e >= updateInterval /\ e = 0
      BY <2>1, <3>2
    <3>3. CASE e >= updateInterval /\ e # 0
      <4>1. CASE cbSet
        <5>1. Append(reports, [kind |-> "progress", ok |-> TRUE,
                               n |-> batchEnd, done |-> cur])
                \in Seq(Report)
          BY <2>2, AppendProperties
        <5>2. /\ reports' = Append(reports, [kind |-> "progress", ok |-> TRUE,
                                             n |-> batchEnd, done |-> cur])
              /\ sinceUpdate' = 0 /\ wpc' = "loop" /\ crashed' = crashed
          BY <2>1, <3>3, <4>1
        <5> QED
          BY <5>1, <5>2
      <4>2. CASE ~cbSet
        BY <2>1, <3>3, <4>2
      <4> QED
        BY <4>1, <4>2
    <3>4. CASE ~(e >= updateInterval)
      BY <2>1, <3>1, <3>4
    <3> QED
      BY <3>2, <3>3, <3>4
  <2> QED
    BY SMTT(30), <1>7, <2>3 DEF WorkerBatchEnd
<1>8. CASE crashed = "none" /\ WorkerFinish
  <2>1. reports' \in Seq(Report)
    <3>1. CASE ~shouldStop
      BY <1>8, <3>1 DEF WorkerFinish
    <3>2. CASE shouldStop
      BY <1>8, <3>2, CompleteType DEF WorkerFinish
    <3> QED
      BY <3>1, <3>2
  <2>2. state' \in States /\ wpc' \in {"publish", "notify"}
    BY <1>8 DEF WorkerFinish
  <2> QED
    BY SMTT(30), <1>8, <2>1, <2>2 DEF WorkerFinish
<1>9. CASE crashed = "none" /\ WorkerPublish
  <2>1. reports' \in Seq(Report)
    BY <1>9, CompleteType DEF WorkerPublish
  <2> QED
    BY SMTT(30), <1>9, <2>1 DEF WorkerPublish
<1>10. CASE crashed = "none" /\ WorkerNotify
  BY SMTT(30), <1>10 DEF WorkerNotify
<1>11. ASSUME NEW c \in Clients, crashed = "none" PROVE
         /\ Start(c) => IInv'
         /\ StartWithDiscriminant(c) => IInv'
         /\ Stop(c) => IInv'
         /\ StopJoin(c) => IInv'
         /\ Wait(c) => IInv'
         /\ WaitBlock(c) => IInv'
         /\ WaitWoken(c) => IInv'
         /\ GenerateProof(c) => IInv'
         /\ SetCallbacks(c) => IInv'
         /\ SetSegmentSize(c) => IInv'
         /\ GetResultForm(c) => IInv'
         /\ GetResultFormRead(c) => IInv'
         /\ CheckpointReadLock(c) => IInv'
         /\ CheckpointReadDone(c) => IInv'
  <2>0. ASSUME NEW d \in Discs, NEW t \in Targets, StartCommon(c, d, t),
               streaming' \in BOOLEAN
        PROVE  IInv'
    <3>1. initialForm' \in Form
      BY <2>0, GeneratorType DEF StartCommon
    <3>2. budget' \in [Clients -> Nat]
      BY <2>0 DEF StartCommon, Call
    <3>3. target' \in Nat /\ cur' = 0 /\ cps' = <<>> /\ storeCps' \in BOOLEAN
      BY <2>0, EngineAssumption DEF StartCommon
    <3>4. /\ wpc' \in WorkerPCs /\ crashed' \in {"none", "terminate", "sigfpe"}
          /\ crashed' = "none" => wpc' = "spawned"
      BY <2>0 DEF StartCommon
    <3>5. cps' \in Seq(CheckpointRec)
      BY <3>3, EmptySeq
    <3>6. /\ shouldStop' \in BOOLEAN /\ started' \in BOOLEAN
          /\ state' \in States /\ finalForm' \in Form /\ segmentSize' \in Nat
          /\ cpInterval' \in Nat
      BY <2>0 DEF StartCommon
    <3>7. /\ cbSet' \in BOOLEAN /\ updateInterval' \in Nat
          /\ mutex' \in Clients \cup {NoHolder} /\ waitSet' \subseteq Clients
          /\ current' \in Form /\ lastCp' \in Form
          /\ lastCpIter' \in Nat /\ completed' \in Nat /\ batchEnd' \in Nat
          /\ sinceUpdate' \in Nat /\ cpc' \in [Clients -> ClientPCs]
          /\ stopMark' \in Nat /\ reports' \in Seq(Report)
          /\ proofs' \subseteq [x : Form, y : Form, t : Nat]
          /\ results' \subseteq [x : Form, y : Form, t : Nat]
      BY <2>0 DEF StartCommon
    <3> QED
      BY <2>0, <3>1, <3>2, <3>3, <3>4, <3>5, <3>6, <3>7, SMTT(30)
  <2>1. Start(c) => IInv'
    <3> SUFFICES ASSUME Start(c) PROVE IInv'
      OBVIOUS
    <3>1. PICK d \in Discs, t \in Targets :
                 StartCommon(c, d, t) /\ streaming' = (segmentSize > 0)
      BY DEF Start
    <3>2. streaming' \in BOOLEAN
      BY <3>1
    <3> QED
      BY <3>1, <3>2, <2>0, Zenon
  <2>2. StartWithDiscriminant(c) => IInv'
    <3> SUFFICES ASSUME StartWithDiscriminant(c) PROVE IInv'
      OBVIOUS
    <3>1. PICK d \in Discs, t \in Targets :
                 StartCommon(c, d, t) /\ streaming' = streaming
      BY DEF StartWithDiscriminant
    <3> QED
      BY <3>1, <2>0
  <2>3. Stop(c) => IInv'
    <3> SUFFICES ASSUME Stop(c) PROVE IInv'
      OBVIOUS
    <3>1. budget' \in [Clients -> Nat] /\ cpc' \in [Clients -> ClientPCs]
      BY <1>11 DEF Stop, Call
    <3>2. stopMark' \in Nat
      BY <1>11 DEF Stop
    <3> QED
      BY <1>11, <3>1, <3>2 DEF Stop
  <2>4. StopJoin(c) => IInv'
    <3> SUFFICES ASSUME StopJoin(c) PROVE IInv'
      OBVIOUS
    <3>1. /\ cpc' \in [Clients -> ClientPCs]
          /\ wpc' \in {"idle", "exited", wpc}
          /\ crashed' \in {"none", "terminate"}
      BY <1>11 DEF StopJoin
    <3> QED
      BY <1>11, <3>1 DEF StopJoin
  <2>5. Wait(c) => IInv'
    <3> SUFFICES ASSUME Wait(c) PROVE IInv'
      OBVIOUS
    <3>1. budget' \in [Clients -> Nat]
      BY <1>11 DEF Wait, Call
    <3>2. CASE state \in Terminal
      <4>1. cpc' = cpc /\ mutex' = mutex
        BY <3>2 DEF Wait
      <4> QED
        BY <1>11, <3>1, <4>1 DEF Wait
    <3>3. CASE state \notin Terminal
      <4>1. cpc' \in [Clients -> ClientPCs] /\ mutex' \in Clients \cup {NoHolder}
        BY <1>11, <3>3 DEF Wait
      <4> QED
        BY <1>11, <3>1, <4>1 DEF Wait
    <3> QED
      BY <3>2, <3>3
  <2>6. WaitBlock(c) => IInv'
    <3> SUFFICES ASSUME WaitBlock(c) PROVE IInv'
      OBVIOUS
    <3>1. /\ cpc' \in [Clients -> ClientPCs]
          /\ mutex' \in Clients \cup {NoHolder} /\ waitSet' \subseteq Clients
      BY <1>11 DEF WaitBlock
    <3> QED
      BY <1>11, <3>1 DEF WaitBlock
  <2>7. WaitWoken(c) => IInv'
    <3> SUFFICES ASSUME WaitWoken(c) PROVE IInv'
      OBVIOUS
    <3>1. /\ cpc' \in [Clients -> ClientPCs]
          /\ mutex' \in Clients \cup {NoHolder}
      BY <1>11 DEF WaitWoken
    <3> QED
      BY <1>11, <3>1 DEF WaitWoken
  <2>8. GenerateProof(c) => IInv'
    <3> SUFFICES ASSUME GenerateProof(c) PROVE IInv'
      OBVIOUS
    <3>1. budget' \in [Clients -> Nat]
      BY <1>11 DEF GenerateProof, Call
    <3>2. proofs' \subseteq [x : Form, y : Form, t : Nat]
      BY <1>11 DEF GenerateProof
    <3> QED
      BY <1>11, <3>1, <3>2 DEF GenerateProof
  <2>9. SetCallbacks(c) => IInv'
    <3> SUFFICES ASSUME SetCallbacks(c) PROVE IInv'
      OBVIOUS
    <3>1. budget' \in [Clients -> Nat]
      BY <1>11 DEF SetCallbacks, Call
    <3>2. cbSet' \in BOOLEAN /\ updateInterval' \in Nat
      BY EngineAssumption DEF SetCallbacks
    <3> QED
      BY <1>11, <3>1, <3>2 DEF SetCallbacks
  <2>10. SetSegmentSize(c) => IInv'
    <3> SUFFICES ASSUME SetSegmentSize(c) PROVE IInv'
      OBVIOUS
    <3>1. budget' \in [Clients -> Nat]
      BY <1>11 DEF SetSegmentSize, Call
    <3>2. segmentSize' \in Nat
      BY EngineAssumption DEF SetSegmentSize
    <3> QED
      BY <1>11, <3>1, <3>2 DEF SetSegmentSize
  <2>11. GetResultForm(c) => IInv'
    <3> SUFFICES ASSUME GetResultForm(c) PROVE IInv'
      OBVIOUS
    <3>1. budget' \in [Clients -> Nat] /\ cpc' \in [Clients -> ClientPCs]
      BY <1>11 DEF GetResultForm, Call, ClientPCs
    <3> QED
      BY <1>11, <3>1 DEF GetResultForm
  <2>12. GetResultFormRead(c) => IInv'
    <3> SUFFICES ASSUME GetResultFormRead(c) PROVE IInv'
      OBVIOUS
    <3>1. cpc' \in [Clients -> ClientPCs]
      BY <1>11 DEF GetResultFormRead, ClientPCs
    <3>2. results' \subseteq [x : Form, y : Form, t : Nat]
      BY <1>11 DEF GetResultFormRead
    <3> QED
      BY <1>11, <3>1, <3>2 DEF GetResultFormRead
  <2>13. CheckpointReadLock(c) => IInv'
    <3> SUFFICES ASSUME CheckpointReadLock(c) PROVE IInv'
      OBVIOUS
    <3>1. /\ budget' \in [Clients -> Nat] /\ cpc' \in [Clients -> ClientPCs]
          /\ mutex' \in Clients \cup {NoHolder}
      BY <1>11 DEF CheckpointReadLock, Call, ClientPCs
    <3> QED
      BY <1>11, <3>1 DEF CheckpointReadLock
  <2>14. CheckpointReadDone(c) => IInv'
    <3> SUFFICES ASSUME CheckpointReadDone(c) PROVE IInv'
      OBVIOUS
    <3>1. /\ cpc' \in [Clients -> ClientPCs]
          /\ mutex' \in Clients \cup {NoHolder}
      BY <1>11 DEF CheckpointReadDone, ClientPCs
    <3> QED
      BY <1>11, <3>1 DEF CheckpointReadDone
  <2> QED
    BY <2>1, <2>2, <2>3, <2>4, <2>5, <2>6, <2>7, <2>8, <2>9, <2>10, <2>11,
       <2>12, <2>13, <2>14
<1>12. CASE UNCHANGED vars
  BY <1>12 DEF vars
<1> QED
  BY <1>1, <1>2, <1>3, <1>4, <1>5, <1>6, <1>7, <1>8, <1>9, <1>10, <1>11,
     <1>12 DEF Next, Worker, Client, Terminated, vars


\* Type correctness: every reachable state of the engine model has
\* well-typed fields, in particular the checkpoint list only holds records
\* with natural segment lengths (current_iter - last_checkpoint_iter >= 0).
THEOREM TypeCorrect == Spec => []TypeOK
<1>1. Init => IInv
  BY InitIInv
<1>2. IInv /\ [Next]_vars => IInv'
  BY NextIInv
<1>3. IInv => TypeOK
  OBVIOUS
<1> QED
  BY <1>1, <1>2, <1>3, PTL DEF Spec


\* Every step preserves StopInv, given the type invariant.
LEMMA NextStopInv == IInv /\ StopInv /\ [Next]_vars => StopInv'
<1> SUFFICES ASSUME IInv, StopInv, Next \/ UNCHANGED vars PROVE StopInv'
  OBVIOUS
<1> HIDE DEF vars
<1> USE DEF StopInv
\* Steps that leave current_iteration, should_stop and the mark alone and
\* do not move the worker to the squaring step.
<1> DEFINE Quiet == /\ cur' = cur /\ shouldStop' = shouldStop
                    /\ stopMark' = stopMark /\ wpc' # "square"
<1>1. Quiet => StopInv'
  OBVIOUS
<1>2. CASE WorkerInner
  BY <1>2 DEF WorkerInner
<1>3. CASE WorkerSquare
  BY <1>3 DEF WorkerSquare
<1>4. CASE WorkerBegin \/ WorkerLoop \/ WorkerCheckpoint \/ WorkerFail
           \/ WorkerBatchEnd \/ WorkerFinish \/ WorkerPublish \/ WorkerNotify
  BY <1>1, <1>4 DEF WorkerBegin, WorkerLoop, WorkerCheckpoint, WorkerFail,
     WorkerBatchEnd, WorkerFinish, WorkerPublish, WorkerNotify
<1>5. ASSUME NEW c \in Clients, Client(c) PROVE StopInv'
  <2>1. CASE Start(c) \/ StartWithDiscriminant(c)
    BY <2>1 DEF Start, StartWithDiscriminant, StartCommon
  <2>2. CASE Stop(c)
    BY <2>2 DEF Stop
  <2>3. CASE \/ StopJoin(c) \/ Wait(c) \/ WaitBlock(c) \/ WaitWoken(c)
             \/ GenerateProof(c) \/ SetCallbacks(c) \/ SetSegmentSize(c)
             \/ GetResultForm(c) \/ GetResultFormRead(c)
             \/ CheckpointReadLock(c) \/ CheckpointReadDone(c)
    BY <1>1, <2>3 DEF StopJoin, Wait, WaitBlock, WaitWoken, GenerateProof,
       SetCallbacks, SetSegmentSize, GetResultForm, GetResultFormRead,
       CheckpointReadLock, CheckpointReadDone
  <2> QED
    BY <1>5, <2>1, <2>2, <2>3 DEF Client
<1>6. CASE Terminated \/ UNCHANGED vars
  BY <1>1, <1>6 DEF Terminated, vars
<1> QED
  BY <1>2, <1>3, <1>4, <1>5, <1>6 DEF Next, Worker

\* Cancellation latency (spec 8.6): once cpu_vdf_stop_computation has set
\* should_stop, the worker squares at most once more before it leaves the
\* loop of vdf_computation_thread, for every instance of the constants.
THEOREM StopLatencyHolds == Spec => []StopLatency
<1>1. Init => IInv /\ StopInv
  BY InitIInv DEF Init, StopInv
<1>2. IInv /\ StopInv /\ [Next]_vars => IInv' /\ StopInv'
  BY NextIInv, NextStopInv
<1>3. StopInv => StopLatency
  BY DEF StopInv, StopLatency
<1> QED
  BY <1>1, <1>2, <1>3, PTL DEF Spec

-----------------------------------------------------------------------------
(***************************************************************************)
(* Refinement of the phase machine of spec 4.E (EnginePhases).             *)
(***************************************************************************)

\* Where the worker of a live process stands relative to the phase machine:
\* a spawned thread starts from current_iteration = 0 outside Computing;
\* inside the loop, at the final should_stop test and at the publication,
\* the state is Computing; a batch never ends past the target and a
\* squaring stays inside its batch; unless a stop is pending,
\* current_iteration equals completed_iterations between batches and
\* batch_end at a batch end; and the publication happens at the target.
PhaseInv ==
    crashed = "none" =>
        /\ wpc = "spawned" => cur = 0 /\ state # "Computing"
        /\ wpc \in LoopPCs \cup {"finish", "publish"} => state = "Computing"
        /\ wpc \in {"inner", "square", "cp", "batch"} =>
               cur <= batchEnd /\ batchEnd <= target
        /\ wpc = "square" => cur < batchEnd
        /\ wpc = "loop" /\ ~shouldStop => cur = completed /\ completed <= target
        /\ wpc = "batch" /\ ~shouldStop => cur = batchEnd
        /\ wpc = "finish" /\ ~shouldStop => cur = target
        /\ wpc = "publish" => cur = target

LEMMA InitPhaseInv == Init => PhaseInv
BY DEF Init, PhaseInv

\* Every step preserves PhaseInv, given the type invariant.
LEMMA NextPhaseInv == IInv /\ PhaseInv /\ [Next]_vars => PhaseInv'
<1> SUFFICES ASSUME IInv, PhaseInv, Next \/ UNCHANGED vars PROVE PhaseInv'
  OBVIOUS
<1> HIDE DEF vars
<1>0. /\ cur \in Nat /\ target \in Nat /\ batchEnd \in Nat
      /\ completed \in Nat /\ BatchSize \in Nat \ {0}
  BY EngineAssumption DEF IInv, TypeOK
\* Steps that leave every field PhaseInv reads alone.
<1> DEFINE Quiet == /\ state' = state /\ cur' = cur /\ target' = target
                    /\ shouldStop' = shouldStop /\ wpc' = wpc
                    /\ batchEnd' = batchEnd /\ completed' = completed
                    /\ crashed' = crashed
<1>1. Quiet => PhaseInv'
  BY DEF PhaseInv
<1>2. CASE crashed = "none" /\ WorkerBegin
  BY <1>0, <1>2 DEF WorkerBegin, PhaseInv, LoopPCs
<1>3. CASE crashed = "none" /\ WorkerLoop
  <2>1. CASE completed < target /\ ~shouldStop
    BY <1>0, <1>3, <2>1 DEF WorkerLoop, PhaseInv, LoopPCs
  <2>2. CASE ~(completed < target /\ ~shouldStop)
    BY <1>3, <2>2 DEF WorkerLoop, PhaseInv, LoopPCs
  <2> QED
    BY <2>1, <2>2
<1>4. CASE crashed = "none" /\ WorkerInner
  BY <1>0, <1>4 DEF WorkerInner, PhaseInv, LoopPCs
<1>5. CASE crashed = "none" /\ WorkerSquare
  BY <1>0, <1>5 DEF WorkerSquare, PhaseInv, LoopPCs
<1>6. CASE crashed = "none" /\ WorkerCheckpoint
  BY <1>6 DEF WorkerCheckpoint, PhaseInv, LoopPCs
<1>7. CASE crashed = "none" /\ WorkerFail
  BY <1>7 DEF WorkerFail, PhaseInv
<1>8. CASE crashed = "none" /\ WorkerBatchEnd
  BY <1>0, <1>8 DEF WorkerBatchEnd, PhaseInv, LoopPCs
<1>9. CASE crashed = "none" /\ WorkerFinish
  <2>1. /\ wpc = "finish" /\ crashed' = "none" /\ cur' = cur
        /\ target' = target /\ (state' = state \/ wpc' = "notify")
        /\ shouldStop' = shouldStop
        /\ ~shouldStop => wpc' = "publish"
        /\ shouldStop => wpc' = "notify"
    BY <1>9, Zenon DEF WorkerFinish
  <2>2. ~shouldStop => cur = target /\ state = "Computing"
    BY <1>0, <1>9, <2>1 DEF PhaseInv, LoopPCs
  <2> QED
    BY <2>1, <2>2 DEF PhaseInv
<1>10. CASE crashed = "none" /\ (WorkerPublish \/ WorkerNotify)
  <2>1. wpc' \in {"notify", "exited"}
    BY <1>10, Zenon DEF WorkerPublish, WorkerNotify
  <2> QED
    BY <2>1 DEF PhaseInv
<1>11. ASSUME NEW c \in Clients, crashed = "none", Client(c) PROVE PhaseInv'
  <2>1. CASE Start(c) \/ StartWithDiscriminant(c)
    <3>1. PICK d \in Discs, t \in Targets : StartCommon(c, d, t)
      BY <2>1 DEF Start, StartWithDiscriminant
    <3> QED
      BY <3>1 DEF StartCommon, Joinable, PhaseInv
  <2>2. CASE Stop(c)
    BY <2>2 DEF Stop, PhaseInv
  <2>3. CASE StopJoin(c)
    BY <2>3 DEF StopJoin, PhaseInv
  <2>4. CASE \/ Wait(c) \/ WaitBlock(c) \/ WaitWoken(c)
             \/ GenerateProof(c) \/ SetCallbacks(c) \/ SetSegmentSize(c)
             \/ GetResultForm(c) \/ GetResultFormRead(c)
             \/ CheckpointReadLock(c) \/ CheckpointReadDone(c)
    BY <1>1, <2>4 DEF Wait, WaitBlock, WaitWoken, GenerateProof,
       SetCallbacks, SetSegmentSize, GetResultForm, GetResultFormRead,
       CheckpointReadLock, CheckpointReadDone
  <2> QED
    BY <1>11, <2>1, <2>2, <2>3, <2>4 DEF Client
<1>12. CASE Terminated \/ UNCHANGED vars
  BY <1>1, <1>12 DEF Terminated, vars
<1> QED
  BY <1>2, <1>3, <1>4, <1>5, <1>6, <1>7, <1>8, <1>9, <1>10, <1>11, <1>12
  DEF Next, Worker, Client

\* Every step of the engine is a step of the phase machine under the
\* mapping phase <- state, iter <- cur, goal <- target, or leaves the three
\* fields alone.
LEMMA NextPhases ==
    IInv /\ PhaseInv /\ [Next]_vars => [Phases!Next]_<<state, cur, target>>
<1> SUFFICES ASSUME IInv, PhaseInv, Next \/ UNCHANGED vars
             PROVE  [Phases!Next]_<<state, cur, target>>
  OBVIOUS
<1> HIDE DEF vars
<1>0. cur \in Nat /\ target \in Nat /\ batchEnd \in Nat
  BY DEF IInv, TypeOK
<1> DEFINE Still == /\ state' = state /\ cur' = cur /\ target' = target
<1>1. Still => [Phases!Next]_<<state, cur, target>>
  OBVIOUS
<1>2. CASE crashed = "none" /\ WorkerBegin
  <2>1. cur = 0 /\ state # "Computing"
    BY <1>2 DEF WorkerBegin, PhaseInv
  <2> QED
    BY <1>2, <2>1 DEF WorkerBegin, Phases!Next, Phases!Begin
<1>3. CASE crashed = "none" /\ WorkerSquare
  <2>1. state = "Computing" /\ cur < target
    BY <1>0, <1>3 DEF WorkerSquare, PhaseInv, LoopPCs
  <2> QED
    BY <1>3, <2>1 DEF WorkerSquare, Phases!Next, Phases!Advance
<1>4. CASE crashed = "none" /\ WorkerFail
  <2>1. state = "Computing"
    BY <1>4 DEF WorkerFail, PhaseInv, LoopPCs
  <2> QED
    BY <1>4, <2>1 DEF WorkerFail, Phases!Next, Phases!Halt
<1>5. CASE crashed = "none" /\ WorkerFinish
  <2>1. state = "Computing"
    BY <1>5 DEF WorkerFinish, PhaseInv, LoopPCs
  <2>2. CASE shouldStop
    BY <1>5, <2>1, <2>2 DEF WorkerFinish, Phases!Next, Phases!Halt
  <2>3. CASE ~shouldStop
    BY <1>1, <1>5, <2>3 DEF WorkerFinish
  <2> QED
    BY <2>2, <2>3
<1>6. CASE crashed = "none" /\ WorkerPublish
  <2>1. state = "Computing" /\ cur = target
    BY <1>6 DEF WorkerPublish, PhaseInv, LoopPCs
  <2> QED
    BY <1>6, <2>1 DEF WorkerPublish, Phases!Next, Phases!Finish
<1>7. CASE \/ WorkerLoop \/ WorkerInner \/ WorkerCheckpoint
           \/ WorkerBatchEnd \/ WorkerNotify
  BY <1>1, <1>7 DEF WorkerLoop, WorkerInner, WorkerCheckpoint,
     WorkerBatchEnd, WorkerNotify
<1>8. ASSUME NEW c \in Clients, Client(c)
      PROVE  [Phases!Next]_<<state, cur, target>>
  <2>1. CASE Start(c) \/ StartWithDiscriminant(c)
    <3>1. PICK d \in Discs, t \in Targets : StartCommon(c, d, t)
      BY <2>1 DEF Start, StartWithDiscriminant
    <3> QED
      BY <3>1 DEF StartCommon, Phases!Next, Phases!Arm
  <2>2. CASE \/ Stop(c) \/ StopJoin(c) \/ Wait(c) \/ WaitBlock(c)
             \/ WaitWoken(c) \/ GenerateProof(c) \/ SetCallbacks(c)
             \/ SetSegmentSize(c) \/ GetResultForm(c) \/ GetResultFormRead(c)
             \/ CheckpointReadLock(c) \/ CheckpointReadDone(c)
    BY <1>1, <2>2 DEF Stop, StopJoin, Wait, WaitBlock, WaitWoken,
       GenerateProof, SetCallbacks, SetSegmentSize, GetResultForm,
       GetResultFormRead, CheckpointReadLock, CheckpointReadDone
  <2> QED
    BY <1>8, <2>1, <2>2 DEF Client
<1>9. CASE Terminated \/ UNCHANGED vars
  BY <1>1, <1>9 DEF Terminated, vars
<1> QED
  BY <1>2, <1>3, <1>4, <1>5, <1>6, <1>7, <1>8, <1>9 DEF Next, Worker

\* The engine implements the phase machine of spec 4.E for every value of
\* the constants: starts of cpu_vdf_start_computation(_with_discriminant),
\* the squarings of vdf_computation_thread and its Completed, Stopped and
\* Error stores are Arm, Advance, Finish and Halt steps, and its first
\* store of Computing is a Begin from current_iteration = 0.
THEOREM PhasesRefinedHolds == Spec => PhasesRefined
<1>1. Init => IInv /\ PhaseInv /\ Phases!Init
  BY InitIInv, InitPhaseInv DEF Init, Phases!Init
<1>2. IInv /\ PhaseInv /\ [Next]_vars => IInv' /\ PhaseInv'
  BY NextIInv, NextPhaseInv
<1>3. IInv /\ PhaseInv /\ [Next]_vars => [Phases!Next]_<<state, cur, target>>
  BY NextPhases
<1> QED
  BY <1>1, <1>2, <1>3, PTL DEF Spec, PhasesRefined, Phases!Spec,
     Phases!phaseVars

-----------------------------------------------------------------------------
(***************************************************************************)
(* The checkpoint chain.                                                   *)
(***************************************************************************)

\* Why the checkpoint list stays a chain: a start clears it before the
\* thread is spawned (and a target is never 0); inside the loop of a live
\* worker, current holds f0 squared current_iteration times and
\* last_checkpoint holds f0 squared last_checkpoint_iter times, and with
\* streaming proofs on they are the form and the iteration of the last
\* record; a worker about to append has squared past every record.
ChainInv ==
    /\ CheckpointChain
    /\ crashed = "none" =>
         /\ wpc = "spawned" => cps = <<>> /\ target > 0
         /\ wpc \in LoopPCs =>
                /\ Holds(initialForm, current, cur)
                /\ Holds(initialForm, lastCp, lastCpIter)
                /\ storeCps /\ streaming =>
                       /\ Len(cps) > 0
                       /\ cps[Len(cps)].form = lastCp
                       /\ cps[Len(cps)].iter = lastCpIter
         /\ wpc = "cp" => storeCps /\ \A i \in 1..Len(cps) : cps[i].iter < cur

\* The condition CheckpointChain puts on record i of a list s, for the
\* iteration n and the initial form f0.
Link(s, n, f0, i) ==
    /\ Holds(f0, s[i].form, s[i].iter)
    /\ s[i].iter <= n
    /\ i > 1 => s[i - 1].iter < s[i].iter
    /\ s[i].kind = "initial" => i = 1
    /\ s[i].kind = "proof" =>
           /\ i > 1
           /\ s[i].seg = [x |-> s[i - 1].form, y |-> s[i].form,
                          dt |-> s[i].iter - s[i - 1].iter]

LEMMA ChainByLinks ==
    /\ CheckpointChain <=> \A i \in 1..Len(cps) : Link(cps, cur, initialForm, i)
    /\ CheckpointChain' <=>
         \A i \in 1..Len(cps') : Link(cps', cur', initialForm', i)
BY DEF CheckpointChain, Link

LEMMA InitChainInv == Init => ChainInv
BY DEF Init, ChainInv, CheckpointChain

\* Every step preserves ChainInv, given the type and phase invariants.
LEMMA NextChainInv ==
    IInv /\ PhaseInv /\ ChainInv /\ [Next]_vars => ChainInv'
<1> SUFFICES ASSUME IInv, PhaseInv, ChainInv, Next \/ UNCHANGED vars
             PROVE  ChainInv'
  OBVIOUS
<1> HIDE DEF vars, IInv, TypeOK
<1>0. /\ cps \in Seq(CheckpointRec) /\ cur \in Nat /\ target \in Nat
      /\ lastCpIter \in Nat /\ current \in Form /\ lastCp \in Form
      /\ initialForm \in Form
  BY DEF IInv, TypeOK
<1>a. \A i \in 1..Len(cps) : Link(cps, cur, initialForm, i)
  BY ChainByLinks DEF ChainInv
\* Steps that keep the list, the counters and the forms, and do not move
\* the worker into the loop, to the append or to a fresh thread.
<1> DEFINE Quiet ==
      /\ cps' = cps /\ cur' = cur /\ target' = target
      /\ initialForm' = initialForm /\ current' = current
      /\ lastCp' = lastCp /\ lastCpIter' = lastCpIter
      /\ storeCps' = storeCps /\ streaming' = streaming
      /\ wpc' \notin {"spawned", "cp"}
      /\ wpc' \in LoopPCs => wpc \in LoopPCs
      /\ crashed' = "none" => crashed = "none"
<1>1. Quiet => ChainInv'
  <2> SUFFICES ASSUME Quiet PROVE ChainInv'
    OBVIOUS
  <2>1. CheckpointChain'
    BY <1>a, ChainByLinks
  <2> QED
    BY <2>1 DEF ChainInv
<1>2. CASE crashed = "none" /\ WorkerBegin
  <2>1. cps = <<>> /\ target > 0 /\ cur = 0
    BY <1>2 DEF WorkerBegin, ChainInv, PhaseInv
  <2>2. /\ current' = initialForm /\ lastCp' = initialForm
        /\ lastCpIter' = 0 /\ cur' = 0 /\ wpc' = "loop" /\ crashed' = "none"
        /\ initialForm' = initialForm /\ storeCps' = storeCps
        /\ streaming' = streaming
    BY <1>2, <2>1 DEF WorkerBegin
  <2>3. Holds(initialForm, initialForm, 0)
    BY <1>0 DEF Holds, Form
  <2>4. CASE storeCps /\ streaming
    <3>1. cps' = <<Sentinel(initialForm)>>
      BY <1>2, <2>1, <2>4 DEF WorkerBegin
    <3>2. CheckpointChain'
      BY <2>2, <2>3, <3>1 DEF CheckpointChain, Sentinel
    <3> QED
      BY <2>2, <2>3, <3>1, <3>2 DEF ChainInv, Sentinel, LoopPCs
  <2>5. CASE ~(storeCps /\ streaming)
    <3>1. cps' = <<>>
      BY <1>2, <2>1, <2>5 DEF WorkerBegin
    <3>2. CheckpointChain'
      BY <3>1 DEF CheckpointChain
    <3> QED
      BY <2>2, <2>3, <2>5, <3>2 DEF ChainInv, LoopPCs
  <2> QED
    BY <2>4, <2>5
<1>3. CASE crashed = "none" /\ WorkerSquare
  <2>1. /\ cur' = cur + 1 /\ current' = Square(current)
        /\ wpc' \in {"cp", "inner"} /\ (wpc' = "cp" => storeCps)
        /\ cps' = cps /\ crashed' = crashed
        /\ UNCHANGED <<target, initialForm, lastCp, lastCpIter, storeCps,
                       streaming>>
    BY <1>3 DEF WorkerSquare
  <2>2. Holds(initialForm, current, cur)
    BY <1>3 DEF WorkerSquare, ChainInv, LoopPCs
  <2>3. Holds(initialForm, Square(current), cur + 1)
    BY <1>0, <2>2 DEF Holds, Square, Form
  <2>4. \A i \in 1..Len(cps) : /\ Link(cps', cur', initialForm', i)
                               /\ cps[i].iter < cur'
    <3> SUFFICES ASSUME NEW i \in 1..Len(cps)
                 PROVE  Link(cps', cur', initialForm', i) /\ cps[i].iter < cur'
      OBVIOUS
    <3>1. Link(cps, cur, initialForm, i)
      BY <1>a
    <3>2. cps[i].iter \in Nat /\ cur \in Nat
      <4>1. cps[i] \in CheckpointRec
        BY <1>0
      <4> QED
        BY <1>0, <4>1 DEF CheckpointRec
    <3>3. cps[i].iter < cur + 1
      BY <3>1, <3>2 DEF Link
    <3>4. Link(cps, cur + 1, initialForm, i)
      BY <3>1, <3>2, <3>3 DEF Link
    <3> QED
      BY <2>1, <3>3, <3>4
  <2>5. CheckpointChain'
    BY <2>1, <2>4, ChainByLinks
  <2> QED
    BY <1>3, <2>1, <2>3, <2>4, <2>5 DEF WorkerSquare, ChainInv, LoopPCs
<1>4. CASE crashed = "none" /\ WorkerCheckpoint
  <2>1. /\ wpc = "cp" /\ storeCps /\ Holds(initialForm, current, cur)
        /\ Holds(initialForm, lastCp, lastCpIter)
        /\ \A i \in 1..Len(cps) : cps[i].iter < cur
        /\ streaming => /\ Len(cps) > 0
                        /\ cps[Len(cps)].form = lastCp
                        /\ cps[Len(cps)].iter = lastCpIter
    BY <1>4 DEF WorkerCheckpoint, ChainInv, LoopPCs
  <2>2. /\ wpc' = "inner" /\ cur' = cur /\ crashed' = crashed
        /\ UNCHANGED <<target, initialForm, current, storeCps, streaming>>
    BY <1>4 DEF WorkerCheckpoint
  \* The record appended, and what the chain needs of it.
  <2> DEFINE rec == IF streaming
                    THEN SegmentRecord(lastCp, current, cur, cur - lastCpIter)
                    ELSE PlainRecord(current, cur)
  <2>3. /\ cps' = Append(cps, rec)
        /\ lastCp' = IF streaming THEN current ELSE lastCp
        /\ lastCpIter' = IF streaming THEN cur ELSE lastCpIter
    BY <1>4 DEF WorkerCheckpoint
  <2>4. /\ rec.iter = cur /\ rec.form = current /\ rec.kind # "initial"
        /\ rec.kind = "proof" =>
               /\ streaming
               /\ rec.seg = [x |-> lastCp, y |-> current,
                             dt |-> cur - lastCpIter]
    BY DEF SegmentRecord, PlainRecord
  <2>5. rec \in CheckpointRec
    <3>1. cur - lastCpIter \in Nat
      BY <1>0, <1>4 DEF IInv, CheckpointGap, WorkerCheckpoint, LoopPCs
    <3> QED
      BY <1>0, <3>1, RecordTypes
  <2> HIDE DEF rec
  <2>6. /\ Len(cps') = Len(cps) + 1
        /\ \A i \in 1..Len(cps) : cps'[i] = cps[i]
        /\ cps'[Len(cps) + 1] = rec
    <3>1. cps' = Append(cps, rec)
      BY <2>3
    <3> QED
      BY <1>0, <2>5, <3>1, AppendProperties
  <2>7. \A i \in 1..Len(cps') : Link(cps', cur', initialForm', i)
    <3> SUFFICES ASSUME NEW i \in 1..Len(cps')
                 PROVE  Link(cps', cur, initialForm, i)
      BY <2>2
    <3>1. CASE i \in 1..Len(cps)
      <4>1. i > 1 => i - 1 \in 1..Len(cps)
        BY <1>0, <3>1
      <4>2. cps'[i] = cps[i] /\ (i > 1 => cps'[i - 1] = cps[i - 1])
        BY <2>6, <3>1, <4>1
      <4>3. Link(cps, cur, initialForm, i)
        BY <1>a, <3>1
      <4> QED
        BY <4>2, <4>3 DEF Link
    <3>2. CASE i = Len(cps) + 1
      <4>1. cps'[i] = rec
        BY <2>6, <3>2
      <4>2. i > 1 => /\ i - 1 = Len(cps)
                     /\ cps'[i - 1] = cps[Len(cps)]
                     /\ cps[Len(cps)].iter < cur
        BY <1>0, <2>1, <2>6, <3>2
      <4>3. rec.kind = "proof" =>
               /\ i > 1
               /\ cps'[i - 1].form = lastCp
               /\ cps'[i - 1].iter = lastCpIter
        BY <1>0, <2>1, <2>4, <3>2, <4>2
      <4>4. Holds(initialForm, cps'[i].form, cps'[i].iter)
        BY <2>1, <2>4, <4>1
      <4>5. cps'[i].iter <= cur /\ cps'[i].kind # "initial"
        BY <1>0, <2>4, <4>1
      <4>6. i > 1 => cps'[i - 1].iter < cps'[i].iter
        BY <2>4, <4>1, <4>2
      <4>7. cps'[i].kind = "proof" =>
               cps'[i].seg = [x |-> cps'[i - 1].form, y |-> cps'[i].form,
                              dt |-> cps'[i].iter - cps'[i - 1].iter]
        BY <2>4, <4>1, <4>3
      <4> QED
        BY <4>3, <4>4, <4>5, <4>6, <4>7, <4>1 DEF Link
    <3>3. i \in 1..Len(cps) \/ i = Len(cps) + 1
      BY <1>0, <2>6
    <3> QED
      BY <3>1, <3>2, <3>3
  <2>8. CheckpointChain'
    BY <2>7, ChainByLinks
  <2>9. CASE streaming
    <3>1. /\ lastCp' = current /\ lastCpIter' = cur
          /\ cps'[Len(cps')] = rec /\ Len(cps') > 0
      BY <1>0, <2>3, <2>6, <2>9
    <3> QED
      BY <2>1, <2>2, <2>4, <2>8, <3>1 DEF ChainInv, LoopPCs
  <2>10. CASE ~streaming
    <3>1. lastCp' = lastCp /\ lastCpIter' = lastCpIter
      BY <2>3, <2>10
    <3> QED
      BY <2>1, <2>2, <2>8, <2>10, <3>1 DEF ChainInv, LoopPCs
  <2> QED
    BY <2>9, <2>10
<1>5. CASE crashed = "none" /\ WorkerLoop
  BY <1>1, <1>5 DEF WorkerLoop, LoopPCs
<1>6. CASE crashed = "none" /\ WorkerInner
  BY <1>1, <1>6 DEF WorkerInner, LoopPCs
<1>7. CASE crashed = "none" /\ WorkerBatchEnd
  BY <1>1, <1>7 DEF WorkerBatchEnd, LoopPCs
<1>8. CASE crashed = "none" /\ WorkerFail
  BY <1>1, <1>8 DEF WorkerFail, LoopPCs
<1>9. CASE crashed = "none" /\ WorkerFinish
  <2>1. wpc' \in {"publish", "notify"}
    BY <1>9, Zenon DEF WorkerFinish
  <2>2. /\ cps' = cps /\ cur' = cur /\ target' = target
        /\ initialForm' = initialForm /\ current' = current
        /\ lastCp' = lastCp /\ lastCpIter' = lastCpIter
        /\ storeCps' = storeCps /\ streaming' = streaming
        /\ crashed' = crashed
    BY <1>9 DEF WorkerFinish
  <2> QED
    BY <1>1, <2>1, <2>2 DEF LoopPCs
<1>10. CASE crashed = "none" /\ WorkerPublish
  BY <1>1, <1>10 DEF WorkerPublish, LoopPCs
<1>11. CASE crashed = "none" /\ WorkerNotify
  BY <1>1, <1>11 DEF WorkerNotify, LoopPCs
<1>12. ASSUME NEW c \in Clients, crashed = "none", Client(c) PROVE ChainInv'
  <2>1. CASE Start(c) \/ StartWithDiscriminant(c)
    <3>1. PICK d \in Discs, t \in Targets : StartCommon(c, d, t)
      BY <2>1 DEF Start, StartWithDiscriminant
    <3>2. cps' = <<>> /\ target' = t /\ t > 0
      BY <3>1, EngineAssumption DEF StartCommon
    <3>3. wpc' = "spawned" \/ crashed' # "none"
      BY <3>1 DEF StartCommon
    <3>4. 1..Len(cps') = {}
      BY <3>2
    <3>5. CheckpointChain'
      BY <3>4, ChainByLinks, Zenon
    <3> QED
      BY <3>2, <3>3, <3>5 DEF ChainInv, LoopPCs
  \* The calls below change no field the chain depends on.
  <2> DEFINE Same == /\ cps' = cps /\ cur' = cur /\ target' = target
                     /\ initialForm' = initialForm /\ current' = current
                     /\ lastCp' = lastCp /\ lastCpIter' = lastCpIter
                     /\ storeCps' = storeCps /\ streaming' = streaming
                     /\ crashed' = crashed /\ wpc' = wpc
  <2>2. CASE Stop(c)
    <3>1. Same
      BY <2>2 DEF Stop
    <3> QED
      BY <3>1, ChainByLinks, <1>a DEF ChainInv
  <2>3. CASE StopJoin(c)
    BY <1>1, <2>3 DEF StopJoin, LoopPCs
  <2>4. CASE Wait(c) \/ WaitBlock(c) \/ WaitWoken(c)
    <3>1. Same
      BY <2>4 DEF Wait, WaitBlock, WaitWoken
    <3> QED
      BY <3>1, ChainByLinks, <1>a DEF ChainInv
  <2>5. CASE GenerateProof(c) \/ SetCallbacks(c) \/ SetSegmentSize(c)
    <3>1. Same
      BY <2>5 DEF GenerateProof, SetCallbacks, SetSegmentSize
    <3> QED
      BY <3>1, ChainByLinks, <1>a DEF ChainInv
  <2>6. CASE \/ GetResultForm(c) \/ GetResultFormRead(c)
             \/ CheckpointReadLock(c) \/ CheckpointReadDone(c)
    <3>1. Same
      BY <2>6 DEF GetResultForm, GetResultFormRead, CheckpointReadLock,
         CheckpointReadDone
    <3> QED
      BY <3>1, ChainByLinks, <1>a DEF ChainInv
  <2> QED
    BY <1>12, <2>1, <2>2, <2>3, <2>4, <2>5, <2>6 DEF Client
<1>13. CASE Terminated \/ UNCHANGED vars
  <2>1. UNCHANGED vars
    BY <1>13 DEF Terminated
  <2> QED
    BY <2>1 DEF vars, ChainInv, CheckpointChain
<1> QED
  BY <1>2, <1>3, <1>4, <1>5, <1>6, <1>7, <1>8, <1>9, <1>10, <1>11, <1>12,
     <1>13 DEF Next, Worker, Client

\* Checkpoint chain (spec 8.7, scenario S2) for every value of the
\* constants: each record vdf_computation_thread appends holds f0 squared
\* to its iteration, the iterations increase, and each segment proof of
\* generate_checkpoint_proof proves the step from the record before it.
THEOREM CheckpointChainHolds == Spec => []CheckpointChain
<1>1. Init => IInv /\ PhaseInv /\ ChainInv
  BY InitIInv, InitPhaseInv, InitChainInv
<1>2. IInv /\ PhaseInv /\ ChainInv /\ [Next]_vars
          => IInv' /\ PhaseInv' /\ ChainInv'
  BY NextIInv, NextPhaseInv, NextChainInv
<1>3. ChainInv => CheckpointChain
  BY Zenon DEF ChainInv
<1> QED
  BY <1>1, <1>2, <1>3, PTL DEF Spec


-----------------------------------------------------------------------------
(***************************************************************************)
(* What the publication publishes.                                         *)
(***************************************************************************)

\* The iterations of the stored checkpoint records.
CpIters == {cps[i].iter : i \in 1..Len(cps)}

\* The iterations up to n at which the worker of the current run stores a
\* checkpoint; DueIters(target) is ExpectedIters.
DueIters(n) ==
    (IF streaming THEN {0} ELSE {})
    \cup {k \in 1..n : k % cpInterval = 0 \/ k = target}

\* Why completion publishes the whole run: a live worker past the loop
\* holds f0 squared current_iteration times; with checkpoints on, the
\* interval is positive and the records stored so far are exactly those due
\* up to current_iteration, save the one a worker about to append is
\* storing; and a worker is about to append only at a due iteration.
PublishInv ==
    crashed = "none" =>
        /\ wpc \in {"finish", "publish"} => Holds(initialForm, current, cur)
        /\ storeCps /\ wpc \in LoopPCs \cup {"finish", "publish"} =>
               /\ cpInterval > 0
               /\ CpIters = IF wpc = "cp" THEN DueIters(cur) \ {cur}
                                          ELSE DueIters(cur)
        /\ wpc = "cp" => cur > 0 /\ (cur % cpInterval = 0 \/ cur = target)



\* Appending a record adds its iteration to the iterations of a list.
LEMMA AppendIters ==
    ASSUME NEW s \in Seq(CheckpointRec), NEW r \in CheckpointRec
    PROVE  {Append(s, r)[i].iter : i \in 1..Len(s) + 1}
               = {s[i].iter : i \in 1..Len(s)} \cup {r.iter}
<1>1. /\ Len(Append(s, r)) = Len(s) + 1
      /\ \A i \in 1..Len(s) : Append(s, r)[i] = s[i]
      /\ Append(s, r)[Len(s) + 1] = r
  BY AppendProperties
<1> QED
  BY <1>1

\* One squaring adds its iteration to the due iterations exactly when it
\* is a multiple of the interval or the target.
LEMMA DueStep ==
    ASSUME NEW n \in Nat
    PROVE  /\ n + 1 \notin DueIters(n)
           /\ (n + 1) % cpInterval = 0 \/ n + 1 = target =>
                  DueIters(n + 1) = DueIters(n) \cup {n + 1}
           /\ ~((n + 1) % cpInterval = 0 \/ n + 1 = target) =>
                  DueIters(n + 1) = DueIters(n)
BY DEF DueIters

LEMMA InitPublishInv == Init => PublishInv
BY DEF Init, PublishInv



\* Every step preserves PublishInv, given the type, phase and chain
\* invariants.
LEMMA NextPublishInv ==
    IInv /\ PhaseInv /\ ChainInv /\ PublishInv /\ [Next]_vars => PublishInv'
<1> SUFFICES ASSUME IInv, PhaseInv, ChainInv, PublishInv,
                    Next \/ UNCHANGED vars
             PROVE  PublishInv'
  OBVIOUS
<1> HIDE DEF vars, IInv, TypeOK
<1>0. /\ cps \in Seq(CheckpointRec) /\ cur \in Nat /\ target \in Nat
      /\ lastCpIter \in Nat /\ current \in Form /\ initialForm \in Form
      /\ cpInterval \in Nat /\ segmentSize \in Nat /\ lastCp \in Form
      /\ storeCps \in BOOLEAN /\ streaming \in BOOLEAN
  BY DEF IInv, TypeOK
\* Steps that keep every field PublishInv reads.
<1> DEFINE Quiet ==
      /\ cps' = cps /\ cur' = cur /\ target' = target
      /\ initialForm' = initialForm /\ current' = current
      /\ storeCps' = storeCps /\ streaming' = streaming
      /\ cpInterval' = cpInterval /\ wpc' = wpc /\ crashed' = crashed
<1>1. Quiet => PublishInv'
  BY DEF PublishInv, CpIters, DueIters
\* Steps that keep the fields and move the worker between two points
\* other than the append, both in or both out of the loop.
<1> DEFINE Moves ==
      /\ cps' = cps /\ cur' = cur /\ target' = target
      /\ initialForm' = initialForm /\ current' = current
      /\ storeCps' = storeCps /\ streaming' = streaming
      /\ cpInterval' = cpInterval /\ crashed' = crashed
      /\ wpc # "cp" /\ wpc' # "cp"
<1>2. ASSUME Moves, wpc \in LoopPCs, wpc' \in LoopPCs PROVE PublishInv'
  BY <1>2 DEF PublishInv, CpIters, DueIters, LoopPCs
<1>3. CASE crashed = "none" /\ WorkerBegin
  <2>1. cps = <<>> /\ target > 0 /\ cur = 0
    BY <1>3 DEF WorkerBegin, ChainInv, PhaseInv
  <2>2. /\ cur' = 0 /\ wpc' = "loop" /\ crashed' = "none"
        /\ target' = target /\ storeCps' = storeCps
        /\ streaming' = streaming
    BY <1>3, <2>1 DEF WorkerBegin
  <2>3. CASE storeCps
    <3>0. /\ cpInterval' = IF segmentSize > 0 THEN segmentSize
                          ELSE DefaultInterval
          /\ cps' = IF streaming THEN Append(cps, Sentinel(initialForm))
                    ELSE cps
      BY <1>3, <2>1, <2>3 DEF WorkerBegin
    <3>1. cpInterval' > 0
      BY <1>0, <3>0 DEF DefaultInterval
    <3>2. CpIters' = IF streaming THEN {0} ELSE {}
      <4>1. CpIters = {}
        BY <2>1 DEF CpIters
      <4>2. CASE streaming
        <5>1. Sentinel(initialForm) \in CheckpointRec
          BY <1>0, RecordTypes
        <5>2. cps' = Append(cps, Sentinel(initialForm))
          BY <3>0, <4>2
        <5>3. Len(cps') = Len(cps) + 1
          BY <1>0, <5>1, <5>2, AppendProperties
        <5>4. CpIters' = CpIters \cup {Sentinel(initialForm).iter}
          BY <1>0, <5>1, <5>2, <5>3, AppendIters DEF CpIters
        <5> QED
          BY <4>1, <4>2, <5>4 DEF Sentinel
      <4>3. CASE ~streaming
        <5>1. cps' = cps
          BY <3>0, <4>3
        <5>2. CpIters' = CpIters
          BY <5>1 DEF CpIters
        <5> QED
          BY <4>1, <4>3, <5>2
      <4> QED
        BY <4>2, <4>3
    <3>3. DueIters(cur)' = IF streaming THEN {0} ELSE {}
      BY <2>2 DEF DueIters
    <3> QED
      BY <2>2, <3>1, <3>2, <3>3 DEF PublishInv, LoopPCs
  <2>4. CASE ~storeCps
    BY <2>2, <2>4 DEF PublishInv, LoopPCs
  <2> QED
    BY <2>3, <2>4
<1>4. CASE crashed = "none" /\ WorkerLoop
  <2>1. Moves /\ wpc = "loop" /\ wpc' \in {"inner", "finish"}
    BY <1>4 DEF WorkerLoop
  <2>2. CASE wpc' = "inner"
    BY <1>2, <2>1, <2>2 DEF LoopPCs
  <2>3. CASE wpc' = "finish"
    <3>1. Holds(initialForm, current, cur)
      BY <1>4, <2>1 DEF ChainInv, LoopPCs
    <3> QED
      BY <1>4, <2>1, <2>3, <3>1 DEF PublishInv, CpIters, DueIters, LoopPCs
  <2> QED
    BY <2>1, <2>2, <2>3
<1>5. CASE crashed = "none" /\ WorkerInner
  <2>1. Moves /\ wpc = "inner" /\ wpc' \in {"square", "batch"}
    BY <1>5 DEF WorkerInner
  <2> QED
    BY <1>2, <2>1 DEF LoopPCs

<1>6. CASE crashed = "none" /\ WorkerSquare
  <2>1. /\ wpc = "square" /\ cur' = cur + 1 /\ current' = Square(current)
        /\ wpc' = IF /\ storeCps /\ cpInterval > 0
                     /\ (cur' % cpInterval = 0 \/ cur' = target)
                  THEN "cp" ELSE "inner"
        /\ cps' = cps /\ crashed' = crashed
        /\ UNCHANGED <<target, initialForm, storeCps, streaming, cpInterval>>
    BY <1>6 DEF WorkerSquare
  <2>2. CpIters' = CpIters /\ (DueIters(cur))' = DueIters(cur + 1)
    BY <2>1 DEF CpIters, DueIters
  <2>3. CASE storeCps
    <3>1. cpInterval > 0 /\ CpIters = DueIters(cur)
      BY <1>6, <2>1, <2>3 DEF PublishInv, LoopPCs
    <3>2. CASE (cur + 1) % cpInterval = 0 \/ cur + 1 = target
      <4>1. wpc' = "cp"
        BY <2>1, <2>3, <3>1, <3>2
      <4>2. CpIters' = (DueIters(cur))' \ {cur'}
        <5>1. /\ DueIters(cur + 1) = DueIters(cur) \cup {cur + 1}
              /\ cur + 1 \notin DueIters(cur)
          BY <1>0, <3>2, DueStep, Zenon
        <5> QED
          BY <2>1, <2>2, <3>1, <5>1
      <4> QED
        BY <1>0, <2>1, <3>1, <3>2, <4>1, <4>2 DEF PublishInv, LoopPCs
    <3>3. CASE ~((cur + 1) % cpInterval = 0 \/ cur + 1 = target)
      <4>1. wpc' = "inner"
        BY <2>1, <3>3
      <4>2. CpIters' = (DueIters(cur))'
        <5>1. DueIters(cur + 1) = DueIters(cur)
          BY <1>0, <3>3, DueStep, Zenon
        <5> QED
          BY <2>2, <3>1, <5>1
      <4> QED
        BY <2>1, <3>1, <4>1, <4>2 DEF PublishInv, LoopPCs
    <3> QED
      BY <3>2, <3>3
  <2>4. CASE ~storeCps
    <3>1. wpc' = "inner"
      BY <2>1, <2>4
    <3> QED
      BY <2>1, <2>4, <3>1 DEF PublishInv
  <2> QED
    BY <2>3, <2>4
<1>7. CASE crashed = "none" /\ WorkerCheckpoint
  <2>1. /\ wpc = "cp" /\ storeCps
    BY <1>7 DEF WorkerCheckpoint, ChainInv
  <2>2. /\ cpInterval > 0 /\ CpIters = DueIters(cur) \ {cur}
        /\ cur > 0 /\ (cur % cpInterval = 0 \/ cur = target)
    BY <1>7, <2>1 DEF PublishInv, LoopPCs
  <2>3. /\ wpc' = "inner" /\ cur' = cur /\ crashed' = crashed
        /\ UNCHANGED <<target, storeCps, streaming, cpInterval>>
    BY <1>7 DEF WorkerCheckpoint
  <2> DEFINE rec == IF streaming
                    THEN SegmentRecord(lastCp, current, cur, cur - lastCpIter)
                    ELSE PlainRecord(current, cur)
  <2>4. cps' = Append(cps, rec)
    BY <1>7 DEF WorkerCheckpoint
  <2>5. rec \in CheckpointRec /\ rec.iter = cur
    <3>1. cur - lastCpIter \in Nat
      BY <1>0, <1>7 DEF IInv, CheckpointGap, WorkerCheckpoint, LoopPCs
    <3>2. rec \in CheckpointRec
      BY <1>0, <3>1, RecordTypes
    <3>3. rec.iter = cur
      BY DEF SegmentRecord, PlainRecord
    <3> QED
      BY <3>2, <3>3
  <2> HIDE DEF rec
  <2>6. CpIters' = CpIters \cup {cur}
    <3>1. Len(cps') = Len(cps) + 1
      BY <1>0, <2>4, <2>5, AppendProperties
    <3> QED
      BY <1>0, <2>4, <2>5, <3>1, AppendIters DEF CpIters
  <2>7. cur \in DueIters(cur)
    BY <1>0, <2>2 DEF DueIters
  <2>8. CpIters' = (DueIters(cur))'
    BY <2>2, <2>3, <2>6, <2>7 DEF DueIters
  <2> QED
    BY <2>2, <2>3, <2>8 DEF PublishInv, LoopPCs
<1>8. CASE crashed = "none" /\ WorkerBatchEnd
  <2>1. /\ cps' = cps /\ cur' = cur /\ target' = target
        /\ initialForm' = initialForm /\ current' = current
        /\ storeCps' = storeCps /\ streaming' = streaming
        /\ cpInterval' = cpInterval /\ wpc = "batch"
        /\ (wpc' = "loop" \/ crashed' # "none")
    BY <1>8 DEF WorkerBatchEnd
  <2> QED
    BY <1>8, <2>1 DEF PublishInv, CpIters, DueIters, LoopPCs
<1>9. CASE crashed = "none" /\ WorkerFail
  BY <1>9 DEF WorkerFail, PublishInv, LoopPCs
<1>10. CASE crashed = "none" /\ WorkerFinish
  <2>1. wpc = "finish" /\ wpc' \in {"publish", "notify"}
    BY <1>10, Zenon DEF WorkerFinish
  <2>2. /\ cps' = cps /\ cur' = cur /\ target' = target
        /\ initialForm' = initialForm /\ current' = current
        /\ storeCps' = storeCps /\ streaming' = streaming
        /\ cpInterval' = cpInterval /\ crashed' = crashed
    BY <1>10 DEF WorkerFinish
  <2> QED
    BY <2>1, <2>2 DEF PublishInv, CpIters, DueIters, LoopPCs
<1>11. CASE crashed = "none" /\ WorkerPublish
  BY <1>11 DEF WorkerPublish, PublishInv, LoopPCs
<1>12. CASE crashed = "none" /\ WorkerNotify
  BY <1>12 DEF WorkerNotify, PublishInv, LoopPCs
<1>13. ASSUME NEW c \in Clients, crashed = "none", Client(c)
       PROVE  PublishInv'
  <2>1. CASE Start(c) \/ StartWithDiscriminant(c)
    <3>1. PICK d \in Discs, t \in Targets : StartCommon(c, d, t)
      BY <2>1 DEF Start, StartWithDiscriminant
    <3>2. wpc' = "spawned" \/ crashed' # "none"
      BY <3>1 DEF StartCommon
    <3> QED
      BY <3>2 DEF PublishInv, LoopPCs
  <2>2. CASE StopJoin(c)
    <3>1. wpc' = "idle" \/ crashed' # "none"
      BY <2>2 DEF StopJoin
    <3> QED
      BY <3>1 DEF PublishInv, LoopPCs
  <2>3. CASE \/ Stop(c) \/ Wait(c) \/ WaitBlock(c) \/ WaitWoken(c)
             \/ GenerateProof(c) \/ SetCallbacks(c) \/ SetSegmentSize(c)
    BY <1>1, <2>3 DEF Stop, Wait, WaitBlock, WaitWoken, GenerateProof,
       SetCallbacks, SetSegmentSize
  <2>4. CASE \/ GetResultForm(c) \/ GetResultFormRead(c)
             \/ CheckpointReadLock(c) \/ CheckpointReadDone(c)
    BY <1>1, <2>4 DEF GetResultForm, GetResultFormRead, CheckpointReadLock,
       CheckpointReadDone
  <2> QED
    BY <1>13, <2>1, <2>2, <2>3, <2>4 DEF Client
<1>14. CASE Terminated \/ UNCHANGED vars
  <2>1. UNCHANGED vars
    BY <1>14 DEF Terminated
  <2> QED
    BY <1>1, <2>1 DEF vars
<1> QED
  BY <1>3, <1>4, <1>5, <1>6, <1>7, <1>8, <1>9, <1>10, <1>11, <1>12, <1>13,
     <1>14 DEF Next, Worker, Client


\* The only step that stores Completed is the publication, and it
\* publishes the whole run: final_form = f0^(2^T), current_iteration = T
\* and, with checkpoints on, exactly the expected checkpoint iterations.
LEMMA PublishStep ==
    IInv /\ PhaseInv /\ ChainInv /\ PublishInv /\ [Next]_vars
        => (state # "Completed" /\ state' = "Completed" => RunPublished')
<1> SUFFICES ASSUME IInv, PhaseInv, ChainInv, PublishInv,
                    Next \/ UNCHANGED vars,
                    state # "Completed", state' = "Completed"
             PROVE  RunPublished'
  OBVIOUS
<1> HIDE DEF vars, IInv, TypeOK
<1>1. crashed = "none" /\ WorkerPublish
  <2>1. ~(/\ crashed = "none"
          /\ \/ WorkerBegin \/ WorkerLoop \/ WorkerInner \/ WorkerSquare
             \/ WorkerCheckpoint \/ WorkerFail \/ WorkerBatchEnd
             \/ WorkerNotify)
    BY DEF WorkerBegin, WorkerLoop, WorkerInner, WorkerSquare,
       WorkerCheckpoint, WorkerFail, WorkerBatchEnd, WorkerNotify
  <2>2. ~(crashed = "none" /\ WorkerFinish)
    BY Zenon DEF WorkerFinish
  <2>3. ~\E c \in Clients : Client(c)
    <3> SUFFICES ASSUME NEW c \in Clients, Client(c) PROVE FALSE
      OBVIOUS
    <3>1. CASE Start(c) \/ StartWithDiscriminant(c)
      <4>1. PICK d \in Discs, t \in Targets : StartCommon(c, d, t)
        BY <3>1 DEF Start, StartWithDiscriminant
      <4> QED
        BY <4>1 DEF StartCommon
    <3>2. CASE \/ Stop(c) \/ StopJoin(c) \/ Wait(c) \/ WaitBlock(c)
               \/ WaitWoken(c) \/ GenerateProof(c) \/ SetCallbacks(c)
               \/ SetSegmentSize(c)
      BY <3>2 DEF Stop, StopJoin, Wait, WaitBlock, WaitWoken, GenerateProof,
         SetCallbacks, SetSegmentSize
    <3>3. CASE \/ GetResultForm(c) \/ GetResultFormRead(c)
               \/ CheckpointReadLock(c) \/ CheckpointReadDone(c)
      BY <3>3 DEF GetResultForm, GetResultFormRead, CheckpointReadLock,
         CheckpointReadDone
    <3> QED
      BY <3>1, <3>2, <3>3 DEF Client
  <2>4. ~(Terminated \/ UNCHANGED vars)
    BY DEF Terminated, vars
  <2> QED
    BY <2>1, <2>2, <2>3, <2>4 DEF Next, Worker
<1>2. /\ wpc = "publish" /\ finalForm' = current
      /\ UNCHANGED <<cur, target, initialForm, storeCps, streaming,
                     cpInterval, cps>>
  BY <1>1 DEF WorkerPublish
<1>3. cur = target /\ Holds(initialForm, current, cur)
  BY <1>1, <1>2 DEF PhaseInv, PublishInv
<1>4. storeCps => CpIters = DueIters(target)
  BY <1>1, <1>2, <1>3 DEF PublishInv
<1>5. storeCps' => {cps'[i].iter : i \in 1..Len(cps')} = ExpectedIters'
  BY <1>2, <1>4 DEF CpIters, DueIters, ExpectedIters
<1> QED
  BY <1>2, <1>3, <1>5 DEF RunPublished

\* Completion publishes the whole run (spec 5), for every value of the
\* constants: the step of vdf_computation_thread that stores Completed has
\* final_form = f0^(2^T), current_iteration = T and every checkpoint the
\* run was due to store, the last at T.
THEOREM CompletionPublishesHolds == Spec => CompletionPublishes
<1> HIDE DEF IInv, TypeOK
<1> DEFINE Invs == IInv /\ PhaseInv /\ ChainInv /\ PublishInv
<1>1. Init => Invs
  BY InitIInv, InitPhaseInv, InitChainInv, InitPublishInv
<1>2. Invs /\ [Next]_vars => Invs'
  BY NextIInv, NextPhaseInv, NextChainInv, NextPublishInv
<1>3. Invs /\ [Next]_vars
          => [state # "Completed" /\ state' = "Completed" => RunPublished']_vars
  BY PublishStep
<1> QED
  BY <1>1, <1>2, <1>3, PTL DEF Spec, CompletionPublishes

\* The strengthening behind CompletionPublishes holds in every reachable
\* state: past the loop current is f0^(2^current_iteration), and the
\* stored checkpoint iterations are exactly those due so far.
THEOREM PublishInvHolds == Spec => []PublishInv
<1> HIDE DEF IInv, TypeOK
<1> DEFINE Invs == IInv /\ PhaseInv /\ ChainInv /\ PublishInv
<1>1. Init => Invs
  BY InitIInv, InitPhaseInv, InitChainInv, InitPublishInv
<1>2. Invs /\ [Next]_vars => Invs'
  BY NextIInv, NextPhaseInv, NextChainInv, NextPublishInv
<1> QED
  BY <1>1, <1>2, PTL DEF Spec


=============================================================================
