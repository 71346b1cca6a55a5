# Verification of the kala VDF engine

TLA+ models, TLC runs and TLAPS proofs for the CPU VDF engine in
`src/vdf/src/c_bindings/streamer.cpp` (C API declared in `streamer.h`).

## The system

| Part | Source | What it does |
|---|---|---|
| Engine context and worker | `streamer.cpp` 39-75, 224-343, 382-576, 1034-1091 | `cpu_vdf_context`, with one worker `std::thread` (`vdf_computation_thread`) that squares a class-group form T times, stores checkpoints, and calls progress/completion callbacks. Client threads call the C API on the same context. |
| Prover / checkpoint codec | `streamer.cpp` 105-219, 616-759, 1150-1218 | Wesolowski proofs for the whole run (`cpu_vdf_generate_proof`) and for each checkpoint segment (`generate_checkpoint_proof`), and their byte blobs. |
| Verifier | `streamer.cpp` 772-931 | `cpu_vdf_verify_proof` and `verify_proof_with_challenge`. |
| Discriminants | `streamer.cpp` 435-478, 933-955 | Creation from a seed, and the import and adjustment of caller-supplied discriminants. |
| Class-group arithmetic | chiavdf `vdf.h` (not in `src/`) | `form::generator` and `square`. |
| tick | `src/tick/src/*` | C wrappers over chiavdf forms and reducers. |
| RSW time-lock wrapper | `src/timelocks`, `src/kala-timelocks` | C wrapper around a GPU solver that is not in the repository. |
| Tests | `src/vdf/src/test_streamer.cpp` | Test driver. |

The worker and the clients interact in three ways:

- **Atomics.** `state`, `current_iteration` and `should_stop` are atomic.
- **The mutex.** `ctx->mutex` guards checkpoint appends, the Completed publication, `wait_completion`, `generate_proof`, `set_callbacks` and the checkpoint getters.
- **The condition variable.** The worker calls `completion_cv.notify_all()` once, at the end of the thread.

## Modules

- **`Engine.tla`** models the context, the worker and the state-changing API calls.
  - **Forms.** A form is abstracted to `[d |-> D, k |-> k]`, meaning generator(D) squared k times. `Generator` and `Square` are spec-modelled, because `vdf.h` is not under `src/`.
  - **Worker.** The worker is a program counter `wpc` with one action per segment of `vdf_computation_thread`:
    - `WorkerBegin`: the thread prologue and the iteration-0 sentinel (pushed without the mutex, `:248`);
    - `WorkerLoop`: the outer `while` and `batch_end`;
    - `WorkerInner`: the inner `for` test;
    - `WorkerSquare`: the squaring, the `current_iteration` store and the checkpoint test;
    - `WorkerCheckpoint`: the append under the mutex;
    - `WorkerFail`: the `catch` path;
    - `WorkerBatchEnd`: `completed = batch_end`, the ips division and `progress_cb`;
    - `WorkerFinish`: the final `should_stop` test and the Stopped path;
    - `WorkerPublish`: the Completed path under the mutex;
    - `WorkerNotify`: `notify_all` and the thread exit.
  - **Clients.** Each client thread has a program counter `cpc`. Its actions are:
    - `Start` and `StartWithDiscriminant`, sharing `StartCommon`, which also models the `std::thread` assignment and the unlocked `checkpoint_proofs.clear()`;
    - `Stop`, then `StopJoin` for the join;
    - `Wait`, `WaitBlock` and `WaitWoken`, modelling `wait_completion(ctx, 0)`: lock and test, then `cv.wait` releasing the lock atomically, then relock and retest;
    - `GenerateProof`, `SetCallbacks` and `SetSegmentSize`;
    - `GetResultForm` (the unlocked `state` test) and `GetResultFormRead` (the copy of x, y and T);
    - `CheckpointReadLock` and `CheckpointReadDone`, the critical section of `cpu_vdf_get_checkpoint_count` and `cpu_vdf_get_checkpoint_proofs`.
  - **Guards.** Calls rejected by a guard return an error code and change nothing, so they are the negation of the modelled guards.
  - **Crashes.** `crashed` records a process death: `std::terminate` from thread misuse, or SIGFPE from the division.
  - **Ghost state.** `stopMark`, `reports`, `proofs` and `results` are history variables: the iteration at which the stop was requested, the callbacks, the proofs handed out, and the result forms handed out.
- **`EnginePhases.tla`** is the abstract phase machine of spec section 4.E: `Arm` (a start), `Begin`, `Advance` (one squaring), `Finish` (Completed at T) and `Halt` (Stopped or Error). `Engine` implements it under the mapping `phase <- state, iter <- cur, goal <- target` (`PhasesRefined`). The refinement shows that `state` only moves along the arrows of 4.E, that `current_iteration` only grows one at a time from 0, and that Completed is stored only at T.
- **`Wesolowski.tla`** models the prover, the proof blob and the two verifiers end to end (`streamer.cpp` 105-219, 435-478, 616-931).
  - **Group.** Every form is a power of x = generator(D), named by its exponent modulo the order `N`. `NegB` is the set of exponents whose reduced form has b < 0. `Export` models `mpz_export`, which drops that sign, so it maps such an exponent e to N - e.
  - **Challenge.** `HashPrime` is an uninterpreted constant for `NextPrime(sha256(...))`.
  - **Discriminants.** `AdjustDisc` is the adjustment of `start_with_discriminant`, over integers.
  - **Proofs.** `GenerateProof` is `cpu_vdf_generate_proof`: q = floor(2^T / l), pi = x^q, and the blob.
  - **Verifiers.** `VerifyProof` and `VerifyProofWithChallenge` are the two verifiers, including the `l = 0` crash.
  - **Actions.** Clients issue proofs through either start (`ProveWithChallenge`, `ProveWithDiscriminant`). An attacker writes blobs (`Forge`). Anyone verifies any blob (`Verify`, `VerifyWithChallenge`).
- **`MC_Engine.tla`, `MC_Wesolowski.tla`** instantiate the two models with small constants.
  - `MC_Engine` uses model values for clients and discriminants, targets {1,3}, segment sizes {0,2} and update intervals {0,1}, with client symmetry.
  - `MC_Wesolowski` uses an order-7 group with b < 0 on x^2 and x^3, two seeds, the byte strings {0,5,6,7} (one per residue mod 4, and a zero byte), and a hash standing in for the prime 3 or 5.
- **`EngineProofs.tla`, `WesolowskiProofs.tla`** hold the TLAPS proofs. **`MC_EngineProofs.tla`, `MC_WesolowskiProofs.tla`** model-check their inductive invariants on the same instances.

## Runs

The constants shared by the engine runs, and why they are enough:

- **`BatchSize = 2` with target 3.** The run has a partial last batch, and a stop can land mid-batch.
- **Segment size 2 with target 3.** Checkpoints are stored both at a multiple of the interval and at the target.
- **Update interval in {0,1} with elapsed time in 0..1.** This covers an update that fires, one that does not, and a zero elapsed time.
- **`MaxCalls` bounds each client's number of API calls.** It is 2 to 5, which is enough for start, stop or wait, then restart and prove.

For the Wesolowski runs, T in {1,3} gives both 2^T < l (q = 0) and 2^T > l. The order 7 with `NegB = {2,3}` makes the sign loss reachable for some proofs and not for others.

| Run | Expect | Checks | Shows |
|---|---|---|---|
| `safety` | pass | TypeOK, CheckpointChain, StopLatency, CompletionPublishes, PublishInv, PhasesRefined | 2 clients and failing squarings, about 2.8M states. The checkpoint list is always a chain of segments that each verify from their predecessor. A stop costs at most one more squaring. Completed is stored only after final_form and all checkpoints, the last at T. At every point of the run the stored checkpoints are exactly those due so far (`PublishInv`). The engine refines `EnginePhases`. |
| `liveness` | pass | WaitReturns, ComputationEnds | 1 client and no failures. Under weak fairness, every `wait_completion(ctx,0)` returns on the Completed path, and every computation that stored Computing reaches Completed or Stopped. Both depend on the worker getting `ctx->mutex` for its last checkpoint and its publication. |
| `codec` | pass | TypeOK, HonestRelation, DiscValid, CompleteWhenIntact | Every honest proof satisfies the Wesolowski equation. Every prover discriminant is negative and 1 mod 4. A blob whose pi survived export is accepted when the verifier's D is the prover's. |
| `lost_wakeup` | violation | WaitReturns | A stop races a waiter. The worker stores Stopped and notifies without the mutex, between the waiter's predicate test and its block, and the waiter hangs (`:326`, `:342`). |
| `stale_proof` | violation | ProofSound | A restart leaves `state == Completed` until the new worker runs, so `generate_proof` (`:619`) and `get_result_form` (`:586`) hand out (new x, old y, new T). |
| `restart` | violation | NoTerminate | Two clients. The trace TLC finds is a second start issued before the first worker has stored Computing. The state test (`:415`) still sees Idle, and assigning over the joinable `std::thread` (`:427`, `:503`) calls `std::terminate`. Spec 4.E has start set Computing itself and answer AlreadyRunning. The same property also covers a restart after a finished run and two concurrent stops that both join (`:517`); the model reaches both, but this trace shows neither. |
| `div_zero` | violation | NoDivByZero | With `update_interval_ms = 0`, `(n*1000)/elapsed` divides by 0 (`:304`). |
| `over_report` | violation | ReportsExact | After a mid-batch stop, callbacks report `batch_end` rather than the iterations done (`:297`). |
| `checkpoint_layout` | violation | CheckpointLayout | A checkpoint blob header holds the segment length dt, not the absolute t of spec section 6 (`:187`). `start_with_discriminant` never sets the streaming flag, so it stores no iteration-0 record (`:498`). |
| `read_race` | violation | ReadIsolated | A reader holds `ctx->mutex` while the worker pushes the sentinel (`:248`) or a start clears the vector (`:423`, `:499`), neither under the mutex: a data race on `checkpoint_proofs`. |
| `verify_law` | violation | Complete | An honest proof is rejected. Either pi's b lost its sign in `mpz_export` (`:717`), or the verifier uses -bytes (`:836`) while the prover adjusted it to 1 mod 4. |
| `hostile_blob` | violation | HostileBlobRejected | The verifier takes l from the blob (`:803`): the identity pi with l > 2^T is accepted for any D, and l_size = 0 reduces modulo 0 (`:862`). |

Notes on the runs:

- **Deadlock checking.**
  - `safety` turns it off, because the lost wakeup on the Error path is reachable there and would be reported as a deadlock.
  - `liveness` turns it off because a blocked waiter is exactly what `WaitReturns` reports.
- **Mutants.** Each passing property has a mutant of the code that breaks it. Examples:
  - a segment dt computed as last - current;
  - `last_checkpoint` not advanced;
  - the inner loop ignoring `should_stop`;
  - no checkpoint at the target;
  - Completed stored without the mutex;
  - `last_checkpoint_iter` not reset at thread start;
  - a start that does not reset `current_iteration` (breaks `PhasesRefined`);
  - `completed_iterations` not advanced at a batch end (breaks `ComputationEnds`);
  - a quotient rounded up, and a verifier that forgets the `abs`.

## Fairness

- **Worker.** `WF_vars(Worker)`: the worker is an OS thread that runs whenever it has a step to take.
- **Clients.** Weak fairness for each client's steps *inside* a call (`StopJoin`, `WaitBlock`, `WaitWoken`, `GetResultFormRead`, `CheckpointReadDone`): a thread inside a call keeps running it.
- **New calls.** Starting a new call is never forced.
- **Wesolowski.** `Wesolowski` has no liveness property and no fairness.

## Proofs (TLAPS)

Every theorem holds for every value of the constants that satisfies the module's assumptions (`EngineAssumption`; `GroupAssumption`, `WesolowskiAssumption` and `HashAssumption`).

`EngineProofs.tla`:

- **`TypeCorrect`: `Spec => []TypeOK`.**
  - TypeOK is not inductive on its own. `WorkerCheckpoint` stores the segment length `cur - lastCpIter`, which is a natural number only if `lastCpIter <= cur`.
  - A restart sets `cur` to 0 while `lastCpIter` keeps its old value. Only the next `WorkerBegin` resets it.
  - The strengthening `CheckpointGap` therefore says `lastCpIter <= cur` only while a live worker is inside its loop.
  - The proof shows `Init => IInv` and `IInv /\ [Next]_vars => IInv'`, with one step per action, the readers included. Lemmas cover the record constructors (`RecordTypes`, `ReportType`, `GeneratorType`, `SquareType`) and the completion callback (`CompleteType`).
- **`StopLatencyHolds`: `Spec => []StopLatency`.** The inductive invariant `StopInv` adds that a worker about to square while `should_stop` is set has not passed the mark.
- **`CheckpointChainHolds`: `Spec => []CheckpointChain`.** The checkpoint list is always a chain of segments that each verify from their predecessor, for every value of the constants.
  - The inductive invariant `ChainInv` adds what the loop of `vdf_computation_thread` keeps true:
    - a start clears the list before the thread is spawned, and T is never 0;
    - inside the loop, `current` is f0 squared `current_iteration` times;
    - `last_checkpoint` is f0 squared `last_checkpoint_iter` times and, with streaming proofs on, is the form and the iteration of the last record;
    - a worker about to append has squared past every record.
  - The step for `WorkerCheckpoint` splits on whether the index is an old record or the appended one. The lemma `ChainByLinks` restates the chain as a condition `Link` on each index.
  - It rests on `IInv`, for natural segment lengths, and on `PhaseInv`, for `current_iteration = 0` at thread start.
- **`PhasesRefinedHolds`: `Spec => PhasesRefined`.** The engine implements `EnginePhases` for every value of the constants.
  - Each step is shown to be a step of the phase machine or a stutter of `<<state, cur, target>>` (lemma `NextPhases`). Starts are `Arm`, `WorkerBegin` is `Begin`, `WorkerSquare` is `Advance`, `WorkerPublish` is `Finish`, and `WorkerFail` and the Stopped branch of `WorkerFinish` are `Halt`.
  - The step facts are not visible in the state alone. They come from the inductive invariant `PhaseInv` about where a live worker stands:
    - a spawned thread sits at `current_iteration = 0` outside Computing;
    - the state is Computing from the loop to the publication;
    - `batch_end <= T` and a squaring stays inside its batch;
    - unless a stop is pending, `current_iteration` equals `completed_iterations` between batches and `batch_end` at a batch end;
    - the publication happens at T.
  - A stop makes the last three facts vacuous. This is sound because `should_stop` is only cleared by a start, which the state test rejects while Computing.
- **`CompletionPublishesHolds`: `Spec => CompletionPublishes`.** This is an action property: the step that stores Completed publishes the whole run.
  - The lemma `PublishStep` shows that only `WorkerPublish` can store Completed. In that step `PhaseInv` gives `current_iteration = T`.
  - The inductive invariant `PublishInv` supplies the rest:
    - past the loop, `current` is f0 squared `current_iteration` times;
    - while checkpoints are on, the interval is positive;
    - the stored iterations (`CpIters`) are exactly `DueIters(current_iteration)`: the sentinel 0 when streaming, and every k up to `current_iteration` that is a multiple of the interval or is T;
    - the exception is a worker about to append, which still lacks its own iteration;
    - a worker is about to append only at a due iteration.
  - `DueIters(T)` is `ExpectedIters` by definition. The lemma `DueStep` shows that a squaring adds `n + 1` to the due set exactly when the checkpoint test of `WorkerSquare` fires. The lemma `AppendIters` shows that an append adds its record's iteration to `CpIters`.
  - The invariant is stated over iteration sets, not over counts of batches. This keeps the whole argument within the step-by-step reasoning TLAPS supports.
- **`PublishInvHolds`: `Spec => []PublishInv`.** The `safety` run checks `PublishInv` on a small instance, and this theorem proves it for every value of the constants.
- The strengthenings `IInv`, `StopInv`, `PhaseInv` and `ChainInv` exist only to make the proofs inductive. They are proved inductive as lemmas. They are not run properties, because each restates the shape of the model more than it says anything about the code.

`WesolowskiProofs.tla`:

- **`AdjustDiscCorrect`.** For every byte value B, `AdjustDisc(B)` is negative and 1 mod 4. The `INVALID_DISCRIMINANT` branch of `start_with_discriminant` (`:481`) is dead code.
- **Lemma `WInvHolds`: `Spec => []WInv`.** This is the strengthening behind the theorems below, and not a run property. `WInv` says every honest record is `GenerateProof` of a discriminant its client's start computed, and every verdict is `VerifyProof` of its own arguments.
- **`WesolowskiTypeCorrect`: `Spec => []TypeOK`.**
  - Every record `GenerateProof` returns is a `ProofRec` (lemma `ProofType`), and its exported pi stays in range (`ExportRange`).
  - Every hand-made blob has the blob layout (`ForgeableType`).
  - A verification leaves a single verdict, and `FS_Singleton` gives its cardinality of 1.
  - The proof needs `Seeds \subseteq Int` (in `WesolowskiAssumption`). The code's seed is an `int`.
- **`DiscValidHolds`, `HonestRelationHolds`, `CompleteWhenIntactHolds`.** These follow from `WInv`.
  - `HonestRelation` rests on the lemma `WesolowskiEquation`: q*l + r = 2^T, carried through exponents modulo N with `ModMul` and `ModAdd`.
  - The proofs assume `2^t \in Nat` for every target (in `WesolowskiAssumption`), because the provers know little about exponentiation.

Out of the prover's reach, and checked only by TLC:

- `WaitReturns` and `ComputationEnds`, because liveness and `ENABLED` are beyond TLAPS;
- `ProofSound`, `ReadIsolated`, `NoTerminate`, `NoDivByZero`, `ReportsExact`, `CheckpointLayout`, `Complete` and `HostileBlobRejected`. The code violates these (the violation runs), so there is nothing to prove.

## Not modelled (plan for later work)

- **Codec details.** `generate_proof_for_iterations` ignores its target (`:754-758`). The `initial_form` argument is ignored (`:406-413`).
- **Context lifetime.** `destroy` while a client waits (a use-after-free), and timed waits.
- **Status reads.** `get_status` reads several atomics at different times, so it can return an inconsistent snapshot.
- **Callbacks calling back into the API.** The completion callback runs under the mutex (`:321`), so a re-entrant call self-deadlocks.
- **Further proofs.** Only liveness and the properties the code violates are left unproved.
- **Left out for good.**
  - tick and the RSW wrapper: allocation and string conversion only.
  - The placeholder `sha256` (`:78-91`), abstracted to `HashPrime`.
  - Configuration getters and setters that no property depends on.
