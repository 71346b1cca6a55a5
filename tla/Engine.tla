------------------------------- MODULE Engine -------------------------------
(***************************************************************************)
(* The VDF computation context of src/vdf/src/c_bindings/streamer.cpp:     *)
(* one worker thread (vdf_computation_thread) and a set of client threads  *)
(* calling the C API on the same cpu_vdf_context.  The atomics (state,     *)
(* current_iteration, should_stop) are single variables read and written  *)
(* in one step; ctx->mutex is the variable mutex; completion_cv is the set *)
(* waitSet of blocked waiters.                                             *)
(*                                                                         *)
(* A class-group form is abstracted to the discriminant it lives in and    *)
(* the number of squarings applied to the generator: the worker only ever *)
(* squares, so f_k = generator(D)^(2^k) is named [d |-> D, k |-> k].       *)
(***************************************************************************)
EXTENDS Integers, Sequences

CONSTANTS
    Clients,       \* client threads calling the API
    Discs,         \* discriminants, one per challenge a client may pass
    Targets,       \* iteration counts a client may request
    SegmentSizes,  \* config.segment_size values (create and set_segment_size)
    Intervals,     \* update_interval_ms values passed to set_callbacks
    BatchSize,     \* batch_size of vdf_computation_thread (1000 in the code)
    MaxElapsed,    \* bound on the milliseconds modelled between two updates
    MaxCalls,      \* API calls each client makes (bounds the model)
    CanFail,       \* whether square() may throw inside the worker
    NoHolder       \* value of mutex when no thread holds it

ASSUME EngineAssumption ==
    /\ Clients # {} /\ NoHolder \notin Clients
    /\ Discs # {}
    /\ Targets \subseteq Nat \ {0} /\ Targets # {}
    /\ SegmentSizes \subseteq Nat
    /\ Intervals \subseteq Nat /\ Intervals # {}
    /\ BatchSize \in Nat \ {0}
    /\ MaxElapsed \in Nat
    /\ MaxCalls \in Nat
    /\ CanFail \in BOOLEAN

\* Default checkpoint interval of the worker when segment_size is 0.
DefaultInterval == 65536

States == {"Idle", "Computing", "Completed", "Error", "Stopped"}
Terminal == {"Completed", "Error", "Stopped"}

Form == [d : Discs, k : Nat]

\* form::generator(D) and square(f): vdf.h, outside src/.
Generator(d) == [d |-> d, k |-> 0]
Square(f) == [f EXCEPT !.k = @ + 1]

\* A Wesolowski statement (x, y, T) or segment (x, y, dt) is true iff
\* y = x^(2^T): same discriminant, T more squarings.
Holds(x, y, t) == x.d = y.d /\ y.k = x.k + t

VARIABLES
    state,        \* ctx->state (atomic)
    cur,          \* ctx->current_iteration (atomic)
    shouldStop,   \* ctx->should_stop (atomic)
    target,       \* ctx->target_iterations
    initialForm,  \* ctx->initial_form
    finalForm,    \* ctx->final_form
    segmentSize,  \* ctx->config.segment_size
    storeCps,     \* ctx->store_checkpoints
    streaming,    \* ctx->generate_streaming_proofs
    cpInterval,   \* ctx->checkpoint_interval
    cps,          \* ctx->checkpoint_proofs
    cbSet,        \* progress_cb and completion_cb non-null
    updateInterval, \* ctx->update_interval_ms
    mutex,        \* holder of ctx->mutex across steps
    waitSet,      \* clients blocked on completion_cv
    wpc,          \* worker program counter; "idle" = no std::thread object
    current, lastCp, lastCpIter, completed, batchEnd, \* worker locals
    sinceUpdate,  \* ms since last_update_time, as seen at a batch end
    cpc,          \* client program counter
    budget,       \* API calls a client has left
    started,      \* a computation was started on this context
    stopMark,     \* history: current_iteration when should_stop was set
    reports,      \* history: callback invocations
    proofs,       \* history: statements of proofs handed out
    results,      \* history: statements of result forms handed out
    crashed       \* "none", or how the process died

engineVars == <<state, cur, shouldStop, target, initialForm, finalForm,
                segmentSize, storeCps, streaming, cpInterval, cps>>
cbVars == <<cbSet, updateInterval>>
syncVars == <<mutex, waitSet>>
workerVars == <<wpc, current, lastCp, lastCpIter, completed, batchEnd,
                sinceUpdate>>
clientVars == <<cpc, budget, started>>
ghostVars == <<stopMark, reports, proofs, results, crashed>>
vars == <<engineVars, cbVars, syncVars, workerVars, clientVars, ghostVars>>

WorkerPCs == {"idle", "spawned", "loop", "inner", "square", "cp", "batch", "finish",
              "publish", "notify", "exited"}
ClientPCs == {"idle", "waitBlock", "waiting", "woken", "stopJoin", "resultLock",
              "cpRead"}

\* computation_thread.joinable(): a thread was assigned and not yet joined.
Joinable == wpc # "idle"

CheckpointRec == [iter : Nat, form : Form,
                  kind : {"initial", "proof", "plain"},
                  seg : [x : Form, y : Form, dt : Nat], blobT : Nat]
Report == [kind : {"progress", "completion"}, ok : BOOLEAN,
           n : Nat, done : Nat]

TypeOK ==
    /\ state \in States
    /\ cur \in Nat /\ target \in Nat
    /\ shouldStop \in BOOLEAN
    /\ initialForm \in Form /\ finalForm \in Form
    /\ segmentSize \in Nat /\ cpInterval \in Nat
    /\ storeCps \in BOOLEAN /\ streaming \in BOOLEAN
    /\ cps \in Seq(CheckpointRec)
    /\ cbSet \in BOOLEAN /\ updateInterval \in Nat
    /\ mutex \in Clients \cup {NoHolder}
    /\ waitSet \subseteq Clients
    /\ wpc \in WorkerPCs
    /\ current \in Form /\ lastCp \in Form
    /\ lastCpIter \in Nat /\ completed \in Nat /\ batchEnd \in Nat
    /\ sinceUpdate \in Nat
    /\ cpc \in [Clients -> ClientPCs]
    /\ budget \in [Clients -> Nat]
    /\ started \in BOOLEAN
    /\ stopMark \in Nat
    /\ reports \in Seq(Report)
    /\ proofs \subseteq [x : Form, y : Form, t : Nat]
    /\ results \subseteq [x : Form, y : Form, t : Nat]
    /\ crashed \in {"none", "terminate", "sigfpe"}

-----------------------------------------------------------------------------
\* Before any start the form fields hold no computation; any value will do.
NoForm == Generator(CHOOSE d \in Discs : TRUE)

Init ==
    \E s \in SegmentSizes :
    /\ state = "Idle" /\ cur = 0 /\ shouldStop = FALSE /\ target = 0
    /\ initialForm = NoForm /\ finalForm = NoForm
    /\ segmentSize = s /\ storeCps = FALSE /\ streaming = FALSE
    /\ cpInterval = 0 /\ cps = <<>>
    /\ cbSet = FALSE /\ updateInterval = 1000
    /\ mutex = NoHolder /\ waitSet = {}
    /\ wpc = "idle"
    /\ current = NoForm /\ lastCp = NoForm
    /\ lastCpIter = 0 /\ completed = 0 /\ batchEnd = 0 /\ sinceUpdate = 0
    /\ cpc = [c \in Clients |-> "idle"]
    /\ budget = [c \in Clients |-> MaxCalls]
    /\ started = FALSE
    /\ stopMark = 0 /\ reports = <<>> /\ proofs = {} /\ results = {}
    /\ crashed = "none"

-----------------------------------------------------------------------------
(***************************************************************************)
(* The worker, vdf_computation_thread.                                     *)
(***************************************************************************)

\* Record of a completion_cb call: the callback fires only when set.
Complete(ok, n) ==
    reports' = IF cbSet
               THEN Append(reports, [kind |-> "completion", ok |-> ok,
                                     n |-> n, done |-> cur])
               ELSE reports

\* The initial checkpoint: version byte 0x04 and no proof body.
Sentinel(f) == [iter |-> 0, form |-> f, kind |-> "initial",
                seg |-> [x |-> f, y |-> f, dt |-> 0], blobT |-> 0]

\* generate_checkpoint_proof(last_checkpoint, current, dt, D) with
\* .iteration overwritten by the absolute iteration afterwards; the
\* serialized blob keeps the dt it was called with.
SegmentRecord(x, y, t, dt) ==
    [iter |-> t, form |-> y, kind |-> "proof",
     seg |-> [x |-> x, y |-> y, dt |-> dt], blobT |-> dt]

\* A checkpoint stored without proof (streaming proofs disabled).
PlainRecord(y, t) ==
    [iter |-> t, form |-> y, kind |-> "plain",
     seg |-> [x |-> y, y |-> y, dt |-> 0], blobT |-> 0]

\* Mutant: last_checkpoint_iter kept from the previous run.
WorkerBeginNoReset ==
    /\ wpc = "spawned"
    /\ state' = "Computing"
    /\ sinceUpdate' = 0
    /\ current' = initialForm /\ lastCp' = initialForm
    /\ completed' = 0
    /\ IF storeCps /\ target > 0
       THEN /\ cpInterval' = IF segmentSize > 0 THEN segmentSize
                             ELSE DefaultInterval
            /\ cps' = IF streaming THEN Append(cps, Sentinel(initialForm))
                      ELSE cps
       ELSE UNCHANGED <<cpInterval, cps>>
    /\ wpc' = "loop"
    /\ UNCHANGED <<cur, shouldStop, target, initialForm, finalForm,
                   segmentSize, storeCps, streaming, batchEnd, lastCpIter>>
    /\ UNCHANGED <<cbVars, syncVars, clientVars, ghostVars>>

\* Thread entry: publish Computing, reset timers, set up checkpoints.
WorkerBegin ==
    /\ wpc = "spawned"
    /\ state' = "Computing"
    /\ sinceUpdate' = 0
    /\ current' = initialForm /\ lastCp' = initialForm
    /\ lastCpIter' = 0 /\ completed' = 0
    /\ IF storeCps /\ target > 0
       THEN /\ cpInterval' = IF segmentSize > 0 THEN segmentSize
                             ELSE DefaultInterval
            /\ cps' = IF streaming THEN Append(cps, Sentinel(initialForm))
                      ELSE cps
       ELSE UNCHANGED <<cpInterval, cps>>
    /\ wpc' = "loop"
    /\ UNCHANGED <<cur, shouldStop, target, initialForm, finalForm,
                   segmentSize, storeCps, streaming, batchEnd>>
    /\ UNCHANGED <<cbVars, syncVars, clientVars, ghostVars>>

\* Mutant: batch_end not clamped to the target.
WorkerLoopNoClamp ==
    /\ wpc = "loop"
    /\ IF completed < target /\ ~shouldStop
       THEN /\ batchEnd' = completed + BatchSize
            /\ wpc' = "inner"
       ELSE /\ wpc' = "finish"
            /\ UNCHANGED batchEnd
    /\ UNCHANGED <<engineVars, cbVars, syncVars, current, lastCp, lastCpIter,
                   completed, sinceUpdate, clientVars, ghostVars>>

\* Outer while: start a batch, or leave the loop.
WorkerLoop ==
    /\ wpc = "loop"
    /\ IF completed < target /\ ~shouldStop
       THEN /\ batchEnd' = IF completed + BatchSize < target
                           THEN completed + BatchSize ELSE target
            /\ wpc' = "inner"
       ELSE /\ wpc' = "finish"
            /\ UNCHANGED batchEnd
    /\ UNCHANGED <<engineVars, cbVars, syncVars, current, lastCp, lastCpIter,
                   completed, sinceUpdate, clientVars, ghostVars>>

\* Mutant: the inner loop ignores should_stop and runs the batch out.
WorkerInnerNoStop ==
    /\ wpc = "inner"
    /\ wpc' = IF cur < batchEnd THEN "square" ELSE "batch"
    /\ UNCHANGED <<engineVars, cbVars, syncVars, current, lastCp, lastCpIter,
                   completed, batchEnd, sinceUpdate, clientVars, ghostVars>>

\* Inner for condition: i < iterations_in_batch && !should_stop, where
\* i = current_iteration - completed_iterations.
WorkerInner ==
    /\ wpc = "inner"
    /\ wpc' = IF cur < batchEnd /\ ~shouldStop THEN "square" ELSE "batch"
    /\ UNCHANGED <<engineVars, cbVars, syncVars, current, lastCp, lastCpIter,
                   completed, batchEnd, sinceUpdate, clientVars, ghostVars>>

\* Mutant: no checkpoint at the target unless it is a multiple of the interval.
WorkerSquareNoTargetCp ==
    /\ wpc = "square"
    /\ current' = Square(current)
    /\ cur' = cur + 1
    /\ wpc' = IF storeCps /\ cpInterval > 0 /\ cur' % cpInterval = 0
              THEN "cp" ELSE "inner"
    /\ UNCHANGED <<state, shouldStop, target, initialForm, finalForm,
                   segmentSize, storeCps, streaming, cpInterval, cps>>
    /\ UNCHANGED <<cbVars, syncVars, lastCp, lastCpIter, completed, batchEnd,
                   sinceUpdate, clientVars, ghostVars>>

\* One squaring, the store of current_iteration, and the checkpoint test.
WorkerSquare ==
    /\ wpc = "square"
    /\ current' = Square(current)
    /\ cur' = cur + 1
    /\ wpc' = IF /\ storeCps /\ cpInterval > 0
                 /\ (cur' % cpInterval = 0 \/ cur' = target)
              THEN "cp" ELSE "inner"
    /\ UNCHANGED <<state, shouldStop, target, initialForm, finalForm,
                   segmentSize, storeCps, streaming, cpInterval, cps>>
    /\ UNCHANGED <<cbVars, syncVars, lastCp, lastCpIter, completed, batchEnd,
                   sinceUpdate, clientVars, ghostVars>>

\* Mutant: the segment's dt computed as last - current.
WorkerCheckpointSwappedDt ==
    /\ wpc = "cp"
    /\ mutex = NoHolder
    /\ IF streaming
       THEN /\ cps' = Append(cps, SegmentRecord(lastCp, current, cur,
                                                lastCpIter - cur))
            /\ lastCp' = current /\ lastCpIter' = cur
       ELSE /\ cps' = Append(cps, PlainRecord(current, cur))
            /\ UNCHANGED <<lastCp, lastCpIter>>
    /\ wpc' = "inner"
    /\ UNCHANGED <<state, cur, shouldStop, target, initialForm, finalForm,
                   segmentSize, storeCps, streaming, cpInterval>>
    /\ UNCHANGED <<cbVars, syncVars, current, completed, batchEnd,
                   sinceUpdate, clientVars, ghostVars>>

\* Mutant: last_checkpoint is not advanced after a segment proof.
WorkerCheckpointStaleLast ==
    /\ wpc = "cp"
    /\ mutex = NoHolder
    /\ IF streaming
       THEN /\ cps' = Append(cps, SegmentRecord(lastCp, current, cur,
                                                cur - lastCpIter))
            /\ lastCpIter' = cur
            /\ UNCHANGED lastCp
       ELSE /\ cps' = Append(cps, PlainRecord(current, cur))
            /\ UNCHANGED <<lastCp, lastCpIter>>
    /\ wpc' = "inner"
    /\ UNCHANGED <<state, cur, shouldStop, target, initialForm, finalForm,
                   segmentSize, storeCps, streaming, cpInterval>>
    /\ UNCHANGED <<cbVars, syncVars, current, completed, batchEnd,
                   sinceUpdate, clientVars, ghostVars>>

\* Under the mutex: append the checkpoint, with a segment proof from the
\* last checkpoint when streaming proofs are on.
WorkerCheckpoint ==
    /\ wpc = "cp"
    /\ mutex = NoHolder
    /\ IF streaming
       THEN /\ cps' = Append(cps, SegmentRecord(lastCp, current, cur,
                                                cur - lastCpIter))
            /\ lastCp' = current /\ lastCpIter' = cur
       ELSE /\ cps' = Append(cps, PlainRecord(current, cur))
            /\ UNCHANGED <<lastCp, lastCpIter>>
    /\ wpc' = "inner"
    /\ UNCHANGED <<state, cur, shouldStop, target, initialForm, finalForm,
                   segmentSize, storeCps, streaming, cpInterval>>
    /\ UNCHANGED <<cbVars, syncVars, current, completed, batchEnd,
                   sinceUpdate, clientVars, ghostVars>>

\* square() or the checkpoint proof throws: the catch block sets Error and
\* reports current_iteration; the lock_guard, if any, is released.
WorkerFail ==
    /\ CanFail
    /\ \/ wpc = "square"
       \/ wpc = "cp" /\ mutex = NoHolder
    /\ state' = "Error"
    /\ Complete(FALSE, cur)
    /\ wpc' = "notify"
    /\ UNCHANGED <<cur, shouldStop, target, initialForm, finalForm,
                   segmentSize, storeCps, streaming, cpInterval, cps>>
    /\ UNCHANGED <<cbVars, syncVars, current, lastCp, lastCpIter, completed,
                   batchEnd, sinceUpdate, clientVars, stopMark, proofs, results,
                   crashed>>

\* Mutant: completed_iterations is not advanced to batch_end.
WorkerBatchEndNoAdvance ==
    /\ wpc = "batch"
    /\ UNCHANGED completed
    /\ \E e \in sinceUpdate..MaxElapsed :
          IF e >= updateInterval
          THEN IF e = 0
               THEN /\ crashed' = "sigfpe"
                    /\ UNCHANGED <<sinceUpdate, reports, wpc>>
               ELSE /\ sinceUpdate' = 0
                    /\ reports' = IF cbSet
                                  THEN Append(reports,
                                         [kind |-> "progress", ok |-> TRUE,
                                          n |-> batchEnd, done |-> cur])
                                  ELSE reports
                    /\ wpc' = "loop"
                    /\ UNCHANGED crashed
          ELSE /\ sinceUpdate' = e
               /\ wpc' = "loop"
               /\ UNCHANGED <<reports, crashed>>
    /\ UNCHANGED <<engineVars, cbVars, syncVars, current, lastCp, lastCpIter,
                   batchEnd, clientVars, stopMark, proofs, results>>

\* End of a batch: completed_iterations = batch_end; when update_interval_ms
\* has elapsed, iterations_per_second = (n * 1000) / elapsed and the
\* progress callback.  An elapsed of 0 ms divides by zero.
WorkerBatchEnd ==
    /\ wpc = "batch"
    /\ completed' = batchEnd
    /\ \E e \in sinceUpdate..MaxElapsed :
          IF e >= updateInterval
          THEN IF e = 0
               THEN /\ crashed' = "sigfpe"
                    /\ UNCHANGED <<sinceUpdate, reports, wpc>>
               ELSE /\ sinceUpdate' = 0
                    /\ reports' = IF cbSet
                                  THEN Append(reports,
                                         [kind |-> "progress", ok |-> TRUE,
                                          n |-> batchEnd, done |-> cur])
                                  ELSE reports
                    /\ wpc' = "loop"
                    /\ UNCHANGED crashed
          ELSE /\ sinceUpdate' = e
               /\ wpc' = "loop"
               /\ UNCHANGED <<reports, crashed>>
    /\ UNCHANGED <<engineVars, cbVars, syncVars, current, lastCp, lastCpIter,
                   batchEnd, clientVars, stopMark, proofs, results>>

\* After the loop: should_stop is read once more to pick the outcome.
WorkerFinish ==
    /\ wpc = "finish"
    /\ IF ~shouldStop
       THEN /\ wpc' = "publish"
            /\ UNCHANGED <<state, reports>>
       ELSE /\ state' = "Stopped"
            /\ Complete(FALSE, completed)
            /\ wpc' = "notify"
    /\ UNCHANGED <<cur, shouldStop, target, initialForm, finalForm,
                   segmentSize, storeCps, streaming, cpInterval, cps>>
    /\ UNCHANGED <<cbVars, syncVars, current, lastCp, lastCpIter, completed,
                   batchEnd, sinceUpdate, clientVars, stopMark, proofs, results,
                   crashed>>

\* Mutant: Completed stored without taking the mutex.
WorkerPublishUnlocked ==
    /\ wpc = "publish"
    /\ finalForm' = current
    /\ state' = "Completed"
    /\ Complete(TRUE, completed)
    /\ wpc' = "notify"
    /\ UNCHANGED <<cur, shouldStop, target, initialForm, segmentSize,
                   storeCps, streaming, cpInterval, cps>>
    /\ UNCHANGED <<cbVars, syncVars, current, lastCp, lastCpIter, completed,
                   batchEnd, sinceUpdate, clientVars, stopMark, proofs, results,
                   crashed>>

\* Under the mutex: publish final_form, store Completed, completion_cb.
WorkerPublish ==
    /\ wpc = "publish"
    /\ mutex = NoHolder
    /\ finalForm' = current
    /\ state' = "Completed"
    /\ Complete(TRUE, completed)
    /\ wpc' = "notify"
    /\ UNCHANGED <<cur, shouldStop, target, initialForm, segmentSize,
                   storeCps, streaming, cpInterval, cps>>
    /\ UNCHANGED <<cbVars, syncVars, current, lastCp, lastCpIter, completed,
                   batchEnd, sinceUpdate, clientVars, stopMark, proofs, results,
                   crashed>>

\* completion_cv.notify_all(), without the mutex; the thread then returns.
WorkerNotify ==
    /\ wpc = "notify"
    /\ cpc' = [c \in Clients |-> IF c \in waitSet THEN "woken" ELSE cpc[c]]
    /\ waitSet' = {}
    /\ wpc' = "exited"
    /\ UNCHANGED <<engineVars, cbVars, mutex, current, lastCp, lastCpIter,
                   completed, batchEnd, sinceUpdate, budget, started,
                   ghostVars>>

Worker ==
    /\ crashed = "none"
    /\ \/ WorkerBegin \/ WorkerLoop \/ WorkerInner \/ WorkerSquare
       \/ WorkerCheckpoint \/ WorkerFail \/ WorkerBatchEnd \/ WorkerFinish
       \/ WorkerPublish \/ WorkerNotify

-----------------------------------------------------------------------------
(***************************************************************************)
(* The client threads: the C API entry points that change the context.    *)
(* Calls rejected by a guard (null pointers, zero iterations, wrong state) *)
(* return an error code and change nothing; they are the negated guards.  *)
(***************************************************************************)

\* A client thread not inside a call enters a new one.
Call(c) ==
    /\ cpc[c] = "idle"
    /\ budget[c] > 0
    /\ budget' = [budget EXCEPT ![c] = @ - 1]

\* Mutant: a start that leaves current_iteration from the previous run.
StartCommonNoReset(c, d, t) ==
    /\ Call(c)
    /\ state # "Computing"
    /\ initialForm' = Generator(d)
    /\ target' = t
    /\ shouldStop' = FALSE
    /\ storeCps' = (segmentSize > 0)
    /\ cps' = <<>>
    /\ started' = TRUE
    /\ IF Joinable
       THEN crashed' = "terminate" /\ UNCHANGED wpc
       ELSE wpc' = "spawned" /\ UNCHANGED crashed
    /\ UNCHANGED <<state, cur, finalForm, segmentSize, cpInterval>>
    /\ UNCHANGED <<cbVars, syncVars, current, lastCp, lastCpIter, completed,
                   batchEnd, sinceUpdate, cpc, stopMark, reports, proofs, results>>

\* Mutant: a start that keeps the previous run's checkpoint list.
StartCommonNoClear(c, d, t) ==
    /\ Call(c)
    /\ state # "Computing"
    /\ initialForm' = Generator(d)
    /\ target' = t
    /\ cur' = 0
    /\ shouldStop' = FALSE
    /\ storeCps' = (segmentSize > 0)
    /\ started' = TRUE
    /\ IF Joinable
       THEN crashed' = "terminate" /\ UNCHANGED wpc
       ELSE wpc' = "spawned" /\ UNCHANGED crashed
    /\ UNCHANGED <<state, finalForm, segmentSize, cpInterval, cps>>
    /\ UNCHANGED <<cbVars, syncVars, current, lastCp, lastCpIter, completed,
                   batchEnd, sinceUpdate, cpc, stopMark, reports, proofs, results>>

\* The field resets shared by both start entry points, and the assignment
\* of the new std::thread to computation_thread: assigning over a joinable
\* thread calls std::terminate.
StartCommon(c, d, t) ==
    /\ Call(c)
    /\ state # "Computing"
    /\ initialForm' = Generator(d)
    /\ target' = t
    /\ cur' = 0
    /\ shouldStop' = FALSE
    /\ storeCps' = (segmentSize > 0)
    /\ cps' = <<>>
    /\ started' = TRUE
    /\ IF Joinable
       THEN crashed' = "terminate" /\ UNCHANGED wpc
       ELSE wpc' = "spawned" /\ UNCHANGED crashed
    /\ UNCHANGED <<state, finalForm, segmentSize, cpInterval>>
    /\ UNCHANGED <<cbVars, syncVars, current, lastCp, lastCpIter, completed,
                   batchEnd, sinceUpdate, cpc, stopMark, reports, proofs, results>>

\* cpu_vdf_start_computation: D from the challenge; streaming proofs follow
\* store_checkpoints.
Start(c) ==
    \E d \in Discs, t \in Targets :
        /\ StartCommon(c, d, t)
        /\ streaming' = (segmentSize > 0)

\* cpu_vdf_start_computation_with_discriminant: D imported from bytes and
\* adjusted to be negative and 1 mod 4 (never rejected); streaming proofs
\* flag left as it was.
StartWithDiscriminant(c) ==
    \E d \in Discs, t \in Targets :
        /\ StartCommon(c, d, t)
        /\ UNCHANGED streaming

\* cpu_vdf_stop_computation: set should_stop, then join if joinable.
Stop(c) ==
    /\ Call(c)
    /\ shouldStop' = TRUE
    /\ stopMark' = IF shouldStop THEN stopMark ELSE cur
    /\ cpc' = [cpc EXCEPT ![c] = IF Joinable THEN "stopJoin" ELSE "idle"]
    /\ UNCHANGED <<state, cur, target, initialForm, finalForm, segmentSize,
                   storeCps, streaming, cpInterval, cps>>
    /\ UNCHANGED <<cbVars, syncVars, workerVars, started, reports, proofs, results,
                   crashed>>

\* join() returns once the thread has exited.  A thread joined meanwhile by
\* another caller is no longer joinable: join throws, and the exception
\* leaving the extern "C" function terminates the process.
StopJoin(c) ==
    /\ cpc[c] = "stopJoin"
    /\ \/ /\ wpc = "exited"
          /\ wpc' = "idle"
          /\ cpc' = [cpc EXCEPT ![c] = "idle"]
          /\ UNCHANGED crashed
       \/ /\ wpc = "idle"
          /\ crashed' = "terminate"
          /\ UNCHANGED <<wpc, cpc>>
    /\ UNCHANGED <<engineVars, cbVars, syncVars, current, lastCp, lastCpIter,
                   completed, batchEnd, sinceUpdate, budget, started,
                   stopMark, reports, proofs, results>>

\* cpu_vdf_wait_completion(ctx, 0): lock, test the state, and if it is not
\* terminal go on to wait on completion_cv still holding the lock.
Wait(c) ==
    /\ Call(c)
    /\ started
    /\ mutex = NoHolder
    /\ IF state \in Terminal
       THEN UNCHANGED <<mutex, cpc>>
       ELSE /\ mutex' = c
            /\ cpc' = [cpc EXCEPT ![c] = "waitBlock"]
    /\ UNCHANGED <<engineVars, cbVars, waitSet, workerVars, started,
                   ghostVars>>

\* completion_cv.wait: release the lock and block, in one step.
WaitBlock(c) ==
    /\ cpc[c] = "waitBlock"
    /\ mutex' = NoHolder
    /\ waitSet' = waitSet \cup {c}
    /\ cpc' = [cpc EXCEPT ![c] = "waiting"]
    /\ UNCHANGED <<engineVars, cbVars, workerVars, budget, started, ghostVars>>

\* Woken by notify_all: relock and test the predicate again.
WaitWoken(c) ==
    /\ cpc[c] = "woken"
    /\ mutex = NoHolder
    /\ IF state \in Terminal
       THEN /\ cpc' = [cpc EXCEPT ![c] = "idle"]
            /\ UNCHANGED mutex
       ELSE /\ mutex' = c
            /\ cpc' = [cpc EXCEPT ![c] = "waitBlock"]
    /\ UNCHANGED <<engineVars, cbVars, waitSet, workerVars, budget, started,
                   ghostVars>>

\* cpu_vdf_generate_proof: if Completed, under the mutex, the Wesolowski
\* proof of (initial_form, final_form, target_iterations).
GenerateProof(c) ==
    /\ Call(c)
    /\ state = "Completed"
    /\ mutex = NoHolder
    /\ proofs' = proofs \cup {[x |-> initialForm, y |-> finalForm,
                               t |-> target]}
    /\ UNCHANGED <<engineVars, cbVars, syncVars, workerVars, cpc, started,
                   stopMark, reports, results, crashed>>

\* cpu_vdf_set_callbacks: under the mutex.
SetCallbacks(c) ==
    /\ Call(c)
    /\ mutex = NoHolder
    /\ \E b \in BOOLEAN, iv \in Intervals :
          cbSet' = b /\ updateInterval' = iv
    /\ UNCHANGED <<engineVars, syncVars, workerVars, cpc, started, ghostVars>>

\* cpu_vdf_set_segment_size: rejects 0 and a Computing context.
SetSegmentSize(c) ==
    /\ Call(c)
    /\ state # "Computing"
    /\ \E s \in SegmentSizes \ {0} : segmentSize' = s
    /\ UNCHANGED <<state, cur, shouldStop, target, initialForm, finalForm,
                   storeCps, streaming, cpInterval, cps>>
    /\ UNCHANGED <<cbVars, syncVars, workerVars, cpc, started, ghostVars>>

\* cpu_vdf_get_result_form: the state is tested without the mutex; unless it
\* is Completed the call returns COMPUTATION_FAILED.
GetResultForm(c) ==
    /\ Call(c)
    /\ cpc' = [cpc EXCEPT ![c] = IF state = "Completed" THEN "resultLock"
                                                      ELSE "idle"]
    /\ UNCHANGED <<engineVars, cbVars, syncVars, workerVars, started,
                   ghostVars>>

\* Then, under the mutex, final_form is exported to the caller, who takes
\* it for the result of the context's initial form and target.
GetResultFormRead(c) ==
    /\ cpc[c] = "resultLock"
    /\ mutex = NoHolder
    /\ results' = results \cup {[x |-> initialForm, y |-> finalForm,
                                 t |-> target]}
    /\ cpc' = [cpc EXCEPT ![c] = "idle"]
    /\ UNCHANGED <<engineVars, cbVars, syncVars, workerVars, budget, started,
                   stopMark, reports, proofs, crashed>>

\* cpu_vdf_get_checkpoint_proofs and cpu_vdf_get_checkpoint_count take
\* ctx->mutex before they read checkpoint_proofs.
CheckpointReadLock(c) ==
    /\ Call(c)
    /\ mutex = NoHolder
    /\ mutex' = c
    /\ cpc' = [cpc EXCEPT ![c] = "cpRead"]
    /\ UNCHANGED <<engineVars, cbVars, waitSet, workerVars, started,
                   ghostVars>>

\* They read the vector (its size, or the records with iteration in
\* [start, end], at most *num_proofs of them, copied out) and unlock.
\* No property depends on the copied records, so they are not modelled.
CheckpointReadDone(c) ==
    /\ cpc[c] = "cpRead"
    /\ mutex' = NoHolder
    /\ cpc' = [cpc EXCEPT ![c] = "idle"]
    /\ UNCHANGED <<engineVars, cbVars, waitSet, workerVars, budget, started,
                   ghostVars>>

Client(c) ==
    /\ crashed = "none"
    /\ \/ Start(c) \/ StartWithDiscriminant(c) \/ Stop(c) \/ StopJoin(c)
       \/ Wait(c) \/ WaitBlock(c) \/ WaitWoken(c) \/ GenerateProof(c)
       \/ SetCallbacks(c) \/ SetSegmentSize(c) \/ GetResultForm(c)
       \/ GetResultFormRead(c) \/ CheckpointReadLock(c) \/ CheckpointReadDone(c)

\* The process died, or every client has made its calls and the worker is
\* done: nothing more happens.
Terminated ==
    /\ \/ crashed # "none"
       \/ /\ \A c \in Clients : cpc[c] = "idle" /\ budget[c] = 0
          /\ wpc \in {"idle", "exited"}
    /\ UNCHANGED vars

Next ==
    \/ Worker
    \/ \E c \in Clients : Client(c)
    \/ Terminated

\* The worker is an OS thread that runs while it has work; a client inside
\* a call keeps running it.  Starting a new call is never forced.
Fairness ==
    /\ WF_vars(Worker)
    /\ \A c \in Clients :
          WF_vars(crashed = "none" /\ (StopJoin(c) \/ WaitBlock(c) \/ WaitWoken(c)
                                      \/ GetResultFormRead(c)
                                      \/ CheckpointReadDone(c)))

Spec == Init /\ [][Next]_vars /\ Fairness

-----------------------------------------------------------------------------
(***************************************************************************)
(* Properties.                                                             *)
(***************************************************************************)

\* Iterations at which the worker of the current run stores checkpoints:
\* the sentinel at 0 with streaming proofs, every multiple of the interval,
\* and the target.
ExpectedIters ==
    (IF streaming THEN {0} ELSE {})
    \cup {k \in 1..target : k % cpInterval = 0 \/ k = target}

\* Checkpoint chain (spec 8.7 and scenario S2): the checkpoint list of the
\* running or finished computation is in strictly increasing iteration
\* order, never ahead of current_iteration, each record holds the form
\* reached at its iteration, the sentinel comes first, and each segment
\* proof proves exactly the step from the previous record to this one, so
\* that every blob verifies against its predecessor.
CheckpointChain ==
    \A i \in 1..Len(cps) :
        /\ Holds(initialForm, cps[i].form, cps[i].iter)
        /\ cps[i].iter <= cur
        /\ i > 1 => cps[i - 1].iter < cps[i].iter
        /\ cps[i].kind = "initial" => i = 1
        /\ cps[i].kind = "proof" =>
               /\ i > 1
               /\ cps[i].seg = [x |-> cps[i - 1].form, y |-> cps[i].form,
                                dt |-> cps[i].iter - cps[i - 1].iter]

\* Cancellation latency (spec 8.6): once should_stop is set, the worker
\* finishes at most the one squaring it is in; current_iteration then
\* stops growing.
StopLatency == shouldStop => cur <= stopMark + 1

\* What the worker has published when it stores Completed.
RunPublished ==
    /\ Holds(initialForm, finalForm, target)
    /\ cur = target
    /\ storeCps => {cps[i].iter : i \in 1..Len(cps)} = ExpectedIters

\* Completion publishes the whole run (spec 5, ordering guarantees): the
\* step of the worker that stores Completed has final_form = f0^(2^T),
\* current_iteration = T and every checkpoint of the run, the last at T.
CompletionPublishes ==
    [][state # "Completed" /\ state' = "Completed" => RunPublished']_vars

\* A client inside cpu_vdf_wait_completion(ctx, 0) eventually returns
\* (unless the process dies): the worker's state store and notify_all
\* reach every waiter.
WaitReturns ==
    \A c \in Clients :
        cpc[c] \in {"waitBlock", "waiting", "woken"}
            ~> (cpc[c] = "idle" \/ crashed # "none")

\* A computation ends (spec 4.E): once vdf_computation_thread has stored
\* Computing, its batches advance to T or to a stop, it takes the mutex for
\* the last checkpoint and the publication, and ctx->state reaches
\* Completed, Stopped or Error (unless the process dies).
ComputationEnds ==
    state = "Computing" ~> (state \in Terminal \/ crashed # "none")

\* Every proof cpu_vdf_generate_proof hands out, and every result form
\* cpu_vdf_get_result_form hands out, is a true statement y = x^(2^T) about
\* the context's initial form and target (spec 8.5, scenario S1).
ProofSound == \A p \in proofs \cup results : Holds(p.x, p.y, p.t)

\* The process is never terminated by a std::thread misuse: assigning over
\* a joinable thread (restart, spec 4.E) or joining a joined one.
NoTerminate == crashed # "terminate"

\* The progress update never divides by a zero elapsed time.
NoDivByZero == crashed # "sigfpe"

\* Callbacks report the iterations actually done: completion_cb and
\* progress_cb receive t_cur (spec 4.E).
ReportsExact == \A i \in 1..Len(reports) : reports[i].n = reports[i].done

\* A checkpoint blob carries the absolute iteration t (spec 6).
BlobIteration ==
    \A i \in 1..Len(cps) : cps[i].kind = "proof" => cps[i].blobT = cps[i].iter

\* The first checkpoint has iteration 0 (spec 8.7).
FirstCheckpointInitial == Len(cps) > 0 => cps[1].iter = 0

\* The phase machine of spec 4.E, seen through ctx->state,
\* ctx->current_iteration and ctx->target_iterations.
Phases == INSTANCE EnginePhases WITH
              phase <- state, iter <- cur, goal <- target

\* The engine implements the phase machine: every start, squaring and
\* outcome of vdf_computation_thread and of the start calls is a step of
\* spec 4.E (a start resets t_cur, a computation begins from t_cur = 0,
\* t_cur grows by one per squaring up to T, Completed only at T) or leaves
\* all three fields alone.
PhasesRefined == Phases!Spec

\* A client inside cpu_vdf_get_checkpoint_proofs or get_checkpoint_count
\* holds ctx->mutex while it reads checkpoint_proofs: no other thread
\* changes the vector under it (a change is a data race on std::vector).
ReadIsolated ==
    [][\A c \in Clients : cpc[c] = "cpRead" => cps' = cps]_vars

\* The checkpoint records have the layout spec 6 and 8.7 describe: the
\* first is the iteration-0 record, and each blob header carries the
\* absolute iteration.
CheckpointLayout == BlobIteration /\ FirstCheckpointInitial

=============================================================================
