# TLA+ models of RCCL communicator initialisation (`src/src/init.cc`)

This directory holds TLA+ models of the communicator set-up code of RCCL
(`src/src/init.cc`), the TLC configurations that check them, and
`PROJECT.json`, which maps every modelled definition to the lines it
translates and lists the runs, mutants, findings and hazards.

## 1. The system

`init.cc` creates NCCL/RCCL communicators. These are its parts and how they
interact:

| Part | Code | State it changes | Concurrency |
|---|---|---|---|
| Library once-initialisation | `ncclInit`, `initNet`, `initNetPlugin`, `initCollNet` (63-141) | `initialized`, `ncclNet`, `ncclCollNet` | every thread that calls an entry point, under `initLock` |
| Communicator allocation / free | `commAlloc` (367-444), `commFree` (269-362), `commDestroy`, `ncclCommDestroy`, `ncclCommAbort`, `commPoison` (164-166, 1217-1276) | the `ncclComm` fields, the abort flag, the shared intra-process structures | ranks of one process share the `intra*` structures |
| Rendezvous (`initTransportsRank`) | 739-1137 | `peerInfo`, topology graphs, `nChannels`, `nNodes`, `node`, `channels[]`, `collNetSupport` | all ranks of the communicator, through untagged bootstrap AllGathers and P2P setups |
| CollNet setup | `collNetSetup` (620-701), `checkCollNetSetup` (703-734) | CollNet connectors, `collNetSupport` | recv/send masters exchange connect info by `bootstrapSend/Recv`; every rank joins two AllGathers |
| Intra-process state | `ncclCommSetIntra`, `initParams`, `waitForNonNullPtr` (516-589) | `intraBarrier`, `intraParams`, `intraCudaDevs`, `intraCGMode`, `intraCC` | intra rank 0 publishes, the other threads of the process spin |
| Buffer sizes, clique mode, devComm | `computeBuffSizes` (591-612), 826-868, `devCommSetup` (446-460) | `buffSizes`, clique mode, device copies | rank-local |
| Collective trace thread | `ncclCommThreadMain` (168-265, `ENABLE_COLLTRACE`) | `collTraceTail`, trace ring buffer | a host thread reading a ring the GPU writes |
| Entry points | `ncclCommInitRank*`, `ncclCommInitAll` (1139-1215) | | one thread per rank, or one per device for `InitAll` |

The hard behaviours are in the rendezvous. Every rank runs the same sequence
of collective bootstrap exchanges, and the exchanges carry no tag: one rank
that skips an exchange, or runs an extra one, pairs its next exchange with a
different one on the other ranks, or blocks forever. The code has no timeout.
Every early `return` through `NCCLCHECK` between two exchanges is such a
skip. The CollNet part adds point-to-point messages between master ranks, and
a final AllGather that must turn any local failure into a global "no CollNet".

## 2. Modules

| Module | Models | Kind |
|---|---|---|
| `PeerGrouping` | the scans over the AllGather arrays: intra-process rank and node heuristic (776-799; the error check at 802-806 is not modelled), node numbering (965-982), `setupChannel`'s ring rotation (498-514), channel compaction (1026-1030), the clique-mode choice and its peer-access loop (830-868) | RECURSIVE operators, each followed by a declarative reference |
| `MCPeerGrouping` | checks every operator against its reference on all inputs up to 4 ranks | a constant spec over an input variable |
| `InitTransports` | one rank per process: AllGather1 and the duplicate-GPU check, AllGather3 with the node scan and reconciliation, ring/tree P2P setup, the CollNet gate, loop, `collNetSetup` for both roles and `checkCollNetSetup` | state machine, one action per step |
| `RendezvousAbstract` | what the rendezvous promises: proposals, one agreement on the minimum channel count and the node count, one CollNet decision before any rank returns, each rank returning with it | abstract state machine; `InitTransports` refines it |
| `MCInitTransports` | host symmetry for TLC | |
| `NetInit` / `MCNetInit` | `ncclInit` (126-141) with `initNet`, `initNetPlugin`, `initCollNet` (62-122): the unlocked read of `initialized`, `initLock`, the re-check, network selection; several threads, several calls each | state machine, one action per step of a thread |
| `IntraSetup` | `ncclCommSetIntra`, `waitForNonNullPtr`, `initParams` (516-589): rank 0's publication, the others' spin, launch mode and CG flag | state machine, one thread per intra rank |
| `CollTrace` | `ncclCommThreadMain` (168-265) against the GPU writers of the trace ring, and `commFree` stopping and joining it (319-322) | state machine: one host thread, GPU blocks as environment |
| `CommLifecycle` | `ncclCommInitRank`/`ncclCommInitRankDev` (1156-1197), `commAlloc` (367-444) and `ncclCommInitRankSync` (1139-1154), `ncclCommDestroy`/`commDestroy`/`commFree` (268-362, 1217-1261), `ncclCommAbort`, the last-rank barrier | state machine of the application's calls on each rank's handle |

### NetInit

`owner` is `initLock` (`NoThread` when free); `pc[t]` is the thread's place in
`ncclInit`: `FastPath` is the unlocked read (131), `Lock` the mutex, and
`InitUnderLock` the re-check and `initEnv`/`initNet` (133-138). `Unlock` is
139. The outcomes of `bootstrapNetInit`, the plugin (no library, no symbol,
failing init, working; its CollNet missing, failing or working), IB and
socket are chosen once in `env`. `InitNetSelect` is `initNet()`; its error
path leaves through `NCCLCHECK` without unlocking, which the model keeps: the
thread returns with `owner` still itself, and the default mutex is not
recursive. `netInits` counts runs of the critical section. The unlocked read
of `initialized` is a data race; the model lets a reader see the value of the
last store, the only values a bool load can produce.

### IntraSetup

`published` counts the pointers intra rank 0 has stored, in the order of
`Shared`; `Rank0Publish` is lines 539-555 with a failure at any `ncclCalloc`
(or before, in `ncclTopoTuneModel`/`ncclTopoComputeP2pChannels`), after which
only the pointers before it are published. `WaitForNonNullPtr` is one
pointer adopted; the spin itself changes nothing and is not a step.
`SetCgMode` is 561-588 in one step: the rank writes only its own slots of the
shared tables, and its read of `*intraCC` and write of `*intraCGMode` are the
only accesses to shared state. `CgQueryCompiled` says whether the
`#if CUDART_VERSION >= 9000` block is built.

### CommLifecycle

`st[r]` is the comm's state and `handle[r]` the application's pointer.
Before the call the handle holds `NULL` or a stale value (`HandleInit`): an
uninitialised variable, or a comm the application destroyed earlier.
`InitRankDev` is `ncclCommInitRank` and `ncclCommInitRankDev`. Its early
exits (`bootstrapCreateRoot`, `ncclInit`, `hipFree`, `PtrCheck`, the rank
check) return without touching the handle (`EarlyExits`). It then runs
`CommAlloc`, which either sets the handle to the new comm or fails before
`*comret = comm` (`AllocResults`). `InitRankSync` is the rest of
`ncclCommInitRankSync`. It is enabled only once every rank has joined,
because the rendezvous (`InitTransports`) needs them all. A rank that
never joins leaves the others blocked. Both failure paths end in `Cleanup`,
the `cleanup:` label. It dereferences whatever the handle holds and may call
`bootstrapAbort` through it. For a stale handle, whether the `bootstrap`
field reads as set is left to the memory. `foreignAborts` counts those
aborts. `CommDestroy` is `ncclCommDestroy` and
`commDestroy`, with `CommFree` for the error exits of `commFree`: before the
barrier (`inner`: arrays freed, then e.g. `bootstrapClose` fails), after it
(`hostFree`), or none. The barrier `CpuBarrierIn` is the arrival-counting
barrier the spec describes (its code is outside `init.cc`). The guard of
`ncclCommDestroy` reads the freed comm; the model takes the freed block to
keep its poisoned fields (reuse by the allocator is undefined and not
modelled; see the hazard at 1252). Before `commDestroy`,
`ncclCommDestroy` deletes the `cliqueManager` (1258) without clearing the
pointer. `listFrees`, `cliqueFrees`, `commFrees` and `sharedFrees` count
frees, so double frees and early frees are visible. `lastFailed[r]` records
that the application's last destroy returned an error. `RetryAfterError`
says whether the application calls `ncclCommDestroy` again after that.
Destroy and abort calls need `InitReturned`: the application's thread is
inside `ncclCommInitRank` until its rank is `live`, so it cannot pass the
handle to `ncclCommDestroy` before then.

### CollTrace

The GPU code that writes the trace ring is not in this repository, so the
model treats it as the environment:

* `Claim(b)` takes the next position by an atomic increment of `tail`
  (`*collTraceTail`).
* `Complete(b)` fills the slot and stores its type last, so a slot reads
  NotReady until it is complete.
* `MaxPending` bounds how far the kernels run ahead of the printer. The
  pass run keeps it below the ring size; at the ring size a full ring reads
  as empty.

The thread is `ReadTail` (the tail load and `TraceCount`, the count formula
of 191-195), `CheckExit`, and `PrintEntry`, one iteration of the `for`
loop. `head` and `count` are its locals, and `printed` is the sequence of
entries it printed.

`StopThread` and `Join` are the trace part of `commFree`: the exit store
once the kernels are done, and `pthread_join`. The model assumes the thread
was created, which happens only when `NCCL_COLL` info logging is on.

### InitTransports: state and actions

* The inputs are chosen once in `Init`: `host[r]`, `bus[r]` (the GPU), the
  rank-local CollNet gate `gate[r]`, and `can[r]`, which is what
  `canConnect` returns at a master.
* `pc[r]` is the point reached in `initTransportsRank`.
* `log[r]` is the sequence of bootstrap exchanges rank r has entered, each
  named by its call site. `ExchangeDone(r)` holds when every rank has entered
  its k-th exchange, which is how a blocking untagged collective completes. A
  rank that enters a different call site in that position is the mismatch
  `CollectivesMatch` looks for.
* `nCh3`, `nChannels`, `nNodes`, `node` hold the AllGather3 input and its
  reconciled results. `G!NodeScan` is the same operator checked in
  `PeerGrouping`.
* `cnCh`, `cnRet`, `cnFail`, `res`, `conn` hold the CollNet loop: the
  current logic channel, `collNetSetup`'s return value, `collNetSetupFail`,
  the per-channel, per-direction resources, and the connected flags.
* `mail[<<from, to>>]` holds the master-to-master `bootstrapSend` messages
  that have not been received yet.
* `collNetSupport[r]` is `comm->collNetSupport`.
* `pinned[r]` says the thread still runs on the CPU set `ncclTopoSetAffinity`
  chose (1067), not the one saved before it. `Restore` is the
  `affinity_restore` label. `LocalFailures` names the rank-local error exits
  a run allows:
  * `computeBuffSizes`, a plain `NCCLCHECK`;
  * the ring P2P setup and the tree P2P setup, which jump to
    `affinity_restore`;
  * the tail of plain `NCCLCHECK`s from `ncclTopoTuneModel` to
    `ncclProxyCreate` (`Return`).

  Spec §5 (CPU affinity) says the saved affinity is restored on every exit path; that is
  `AffinityRestored`.
* Each action is one step of the code between two points where a rank can
  block or must wait. Its guard is the code's condition, and its failure
  branches (`ret == 0`, `NCCLCHECK` early returns, `goto cleanup`) are
  disjuncts taken with the return values in `SetupResults` and
  `ConnectResults`.

### Refinement of `RendezvousAbstract`

`InitTransports` ends with a refinement mapping, `Abs == INSTANCE
RendezvousAbstract WITH ...`. The mapping is:

* a rank's proposal is `nCh3[r]`, the count it publishes in AllGather3;
* the agreed `chans` and `nodes` are `nChannels` and `nNodes` of any rank
  that has run AllGather3's reductions (`Reconciled`: its `nNodes` is set),
  even if it failed afterwards, and 0 before (`AbsChans`, `AbsNodes`). The first
  `AllGather3Done` is the abstract `Agree`; a later one must change neither;
* the CollNet decision is taken when the last rank enters
  `checkCollNetSetup`'s AllGather (`AbsDecision`): "skip" if any rank's
  `collNetSetupFail` is set, "use" otherwise;
* `out` follows `pc`, and `support` is `collNetSupport`. A rank may fail at
  any point (abstract `Fail`). Once the count is agreed, it returns with the
  decision, with success or an error (abstract `Finish`), because a failure
  after the last exchange still leaves `collNetSupport` set.

`RendezvousRefinement == Abs!Spec` is a PROPERTY of the `rendezvous` run. It
checks four things:

* no rank reconciles to a different count than the first;
* no rank returns before the decision when others will still take it;
* every rank adopts exactly the decision;
* the abstract fairness holds: every rank returns once the count is agreed.

The recv and send masters are the first and (with `CollNetSplit`) the second
rank of the host in `collNetGraph.intra`, which is the output of the
topology search outside `src/`. The model abstracts that to the order of
ranks on a host.

## 3. Runs

| Run | Config | Expect | Shows |
|---|---|---|---|
| `grouping_scans` | `MCPeerGrouping.cfg` | pass | The four scans compute their references for all host/pid assignments of 4 ranks and every compaction of up to 8 channels. The clique-mode loop chooses the single-process clique exactly when all ranks share the process, every ordered pair of GPUs has peer access, and the topology or the override allows it (`CliqueModeCorrect`). This covers all 4096 access matrices of 4 ranks, asymmetric ones included. The `CLIQUE_SINGLE_NODE` branch is dead. Every rank runs the same scan over the same array, so the ranks agree. |
| `rendezvous` | `MCInitTransports.cfg` | pass | With 3 ranks on 1-2 hosts, channel counts {2,4}, `canConnect` failing at any master and connect failing (`ConnectResults={0,2}`), under the TREE pattern and a gate all ranks share: the bootstrap exchanges always pair up (`CollectivesMatch`); all ranks reconcile to the same channel count, which is the minimum (`ReconciledAgree`); CollNet is adopted by all or none, and a rank without it holds no CollNet resources (`CollNetAllOrNothing`); adoption implies every logic channel is connected both ways (`SupportImpliesConnected`); every rank finishes (`InitTerminates`); and the whole protocol implements `RendezvousAbstract` (`RendezvousRefinement`). A rank may also fail in the checks after the last exchange, from `ncclTopoTuneModel` to `ncclProxyCreate` (`LocalFailures = {"tail"}`). |
| `collnet_setup_returns_one` | `_setupOne` | violation | Finding 1: `ncclUnhandledCudaError` (1) returned through `NCCLCHECK` from the int-returning `collNetSetup` is taken as "supported". |
| `collnet_setup_early_return` | `_setupEarlyReturn` | violation | Finding 2: a failed setup returns before the AllGather every rank must join. |
| `collnet_split_connect_fail` | `_splitConnectFail` | violation | Finding 3: with split masters, a failed connect skips the `bootstrapSend` the send master blocks on. |
| `net_init` | `MCNetInit.cfg` | pass | 3 threads, 2 calls each, every plugin and IB outcome: the networks are initialised at most once (`NetInitializedOnce`), `ncclNet` is the first working of plugin, IB, socket, with a CollNet only from the plugin (`SelectedNetIsFirstWorking`), and every call returns (`CallsReturn`). |
| `net_init_lock_leak` | `MCNetInit_lockLeak.cfg` | violation | A failing `initNet` returns holding `initLock`: the next call blocks forever. |
| `intra_cg_mixed_caps` | `MCIntraSetup.cfg` | violation | 3 ranks in GROUP mode, all GPUs supporting cooperative launch, two compute capabilities. A rank whose capability differs from intra rank 0's skips the query at 577 and never writes the fallback, so the shared flag stays 0x11 for mixed GPUs, against spec 4.3 (`CgModeAgreement`). |
| `comm_init_failure_leak` | `_initFails` | violation | A rank's initialisation fails after `ncclCommSetIntra`. The cleanup at 1151 drops its comm without `commFree`, so it never arrives at the barrier; after the other ranks destroy theirs the shared structures are still allocated (`SharedFreedWhenAllDone`). |
| `comm_destroy_retry` | `_retry` | violation | A destroy retried after an error frees again. After a `commDestroy` error the `cliqueManager` is deleted twice (1258). After an error inside `commFree` the arrays are freed twice too (329). |
| `comm_init_stale_handle` | `_staleHandle` | violation | `commAlloc` fails on a rank whose handle was never initialised, or still holds a destroyed comm. The cleanup dereferences that value and may `bootstrapAbort` a bootstrap the call never created (`NoForeignBootstrapAbort`). |
| `coll_trace` | `MCCollTrace.cfg` | pass | A 3-slot ring wraps (5 entries), and two blocks complete their slots in either order. The thread prints every entry once, in claim order. It never prints a slot still being written or left from the previous lap, although its count overshoots after the wrap (`TraceInOrder`). It ends once `collTraceExit` is set, so `commFree`'s join returns (`TraceThreadJoins`). |

Further disagreements the model shows are recorded as hazards in
`PROJECT.json` rather than as runs, each with the constant that exposes it:
a rank-local CollNet gate (`HomogeneousGate = FALSE`), a duplicate GPU
(`AllowDuplicateGpu = TRUE`), a master whose `canConnect` failed still
sending (`NoStrandedConnectInfo`), a HIP build (`CgQueryCompiled = FALSE`),
intra rank 0 failing before publishing, which leaves the other ranks
spinning (`Rank0Failures = {"none", "params"}`, `SetIntraTerminates`), a
destroy retried after `commFree` failed past the barrier, which counts the
rank twice and frees the shared structures while another rank is live
(`"hostFree"`, `SharedNotFreedWhileInUse`), trace entries lost when the thread reads the
tail, then the exit flag set after more entries were completed
(`TraceNoLoss`), and the CPU affinity left pinned when a plain `NCCLCHECK`
after `ncclTopoSetAffinity` fails. `AffinityRestored` holds with
`LocalFailures = {"ringSetup", "treeSetup"}` and is violated with
`{"buffSizes"}` or `{"tail"}`.

Each violation config changes one constant of the pass config, the one that
lets the faulty branch happen, and checks one property.

### Bounds

* `LocalFailures = {"tail"}` in the pass run: failures after the last
  exchange end a rank without blocking the others, so `InitTerminates` and
  the refinement's liveness still apply. Earlier failures block the peers,
  as the spec says they do.
* 3 ranks on 2 hosts give every shape that matters: a host with one rank (the
  master alone), a host with two ranks (a non-master), and 1 or 2 nodes (the
  gate needs `nNodes > 1`).
* Two channel counts make reconciliation take a real minimum.
* `MaxChannels = 8` gives `LogicChannels` 1 or 2 iterations of the CollNet
  loop.
* `SetupResults` and `ConnectResults` include 0 (success), 1 (which is also
  `ncclUnhandledCudaError`) and 2 (another error), so each error branch can
  be reached.
* Hosts are symmetric: no action names a specific host.
* `NetInit`: 3 threads with 2 calls each let two threads race past the
  unlocked read while a third arrives after initialisation, and a thread
  call again after its own error.
* `IntraSetup`: 3 ranks give two waiters, so waiters interleave with each
  other and with rank 0; two capabilities over 3 GPUs put a mismatching GPU
  at rank 0 or at a waiter.
* `CollTrace`: 3 slots and 5 entries make the ring wrap and head pass the
  tail's slot index, which is the overshooting branch of the count. Two
  blocks complete out of claim order.
* `CommLifecycle`: 3 ranks and 3 calls each give a double destroy, a retry
  after an error and an abort on the same handle, with the other ranks at
  every point of their own teardown. The init-failure run needs one call
  per rank, since the leak needs no retry. The stale-handle run needs only
  2 ranks and one call, because the violation is in a single rank's init.
  Both modules have only violation runs: with the inputs where their
  properties hold (one GPU model; no init failure and no retry), each
  property follows from a single store or from the barrier's count.

### Fairness

`Spec` assumes weak fairness of each rank's step. Each rank's initialisation
runs to completion on its own thread, and no step waits on anything but the
other ranks' exchanges. A rank blocked in an exchange is not enabled, so
fairness does not hide a hang. Initialisation is one-shot and really stops,
so the configs set `CHECK_DEADLOCK FALSE`. Hangs are caught by
`InitTerminates`, which requires every rank to reach `done` or `failed`.

### Mutants

Every property of a passing run has a mutant in `PROJECT.json`: a variant of
a mapped definition that reproduces a plausible slip, which TLC must then
catch. The variants are:

* a `<=` loop bound;
* the AllGather skipped by non-masters;
* the running minimum that skips the last rank;
* freeing only the logic channels;
* connecting without the `ret` check;
* the `else if` dropped;
* `intraRank0` overwritten on every match;
* `++nNodes`;
* a backward rotation;
* peer access checked in one direction only (j > i);
* a descending copy;
* `checkCollNetSetup` deciding from the rank's own failure flag instead of
  the gathered ones (breaks `RendezvousRefinement`);
* the trace thread not marking a printed slot NotReady (breaks
  `TraceInOrder`);
* the tail used without `% COLLTRACE_NUM_ITEMS` (breaks
  `TraceThreadJoins`).

`NetInit` and `IntraSetup` assume weak fairness of each thread: a thread
waiting for `initLock` is enabled whenever the lock is free, and the others
make finitely many calls, so weak fairness is enough; a spinning waiter is
not enabled, so fairness cannot make it proceed. In `CollTrace` the trace
thread and `commFree` each run on their own thread, and a block that
claimed a slot finishes writing it. Claiming more entries and destroying
the comm are up to the application and are not fair. `CommLifecycle` states only
safety: the application's calls are not obliged to happen.

## 4. Not modelled (yet)

* **The topology search and `ncclTopoPreset`/`Postset`** (outside `src/`).
  These are abstracted to a host's rank order and to their duplication of
  channels (`Preset`).
* **External errors before AllGather3, and the CollNet `NCCLCHECK` exits.**
  The errors after `ncclTopoSetAffinity` are `LocalFailures`. The topology
  calls before AllGather3 are each one more early return before an
  exchange, of the same kind as finding 2 (`collnet_setup_early_return`).
  The same holds for the CollNet connects, setup and check (1103-1114).
  Spec §5 accepts that a rank failing before an exchange leaves its peers
  blocked. That is why the pass run allows only failures after the last
  exchange.
* **`computeBuffSizes` and the `p2pNet` flag** (598-612, 904-911). Each is a
  single rank-local assignment from an environment parameter and the
  topology type. The one edge, an int64 parameter stored in an `int`, is a
  hazard in `PROJECT.json`. `buffSizes`' type is declared outside this
  repository.
* **Device copies (`devCommSetup`), logging, profiling and the query API.**
  These are pure I/O or field reads. The query calls (`ncclCommCount`,
  `ncclCommCuDevice`, `ncclCommUserRank`, `ncclCommGetAsyncError`) check
  for NULL and read one field. They change no state, so there is no action
  to give them. On a destroyed comm they read freed memory, like the
  destroy guard (hazard at 1252).
* **`ncclCommInitAll`'s own checks.** Its loop is `InitRankDev` for each
  device inside a group. `ncclGroupEnd`, which runs the queued inits, is
  outside `src/`.

## 5. Open work

Done: `IntraSetup`, `CommLifecycle` (init entry points, `commAlloc` and
teardown), `NetInit`, `RendezvousAbstract`, `CollTrace`, the affinity and
local error exits of `initTransportsRank`.

1. `InitTransports`: the split pattern in a pass run whose connect never
   fails.
2. Liveness of `CommLifecycle`. The application's calls are not fair, so
   this needs an assumption about the application that the code does not
   give.
