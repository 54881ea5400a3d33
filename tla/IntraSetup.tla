------------------------------ MODULE IntraSetup ------------------------------
(***************************************************************************)
(* ncclCommSetIntra (src/src/init.cc 516-589), run by every rank of one    *)
(* process at the end of initTransportsRank (1125).  Intra rank 0          *)
(* allocates the structures the process shares (barrier, launch-parameter  *)
(* table, CUDA device table, cooperative-group mode flag, compute          *)
(* capability) and publishes one pointer after the other in its comm; the  *)
(* other ranks spin in waitForNonNullPtr on each pointer in the same       *)
(* order.  Every rank then chooses its launch mode and, in GROUP mode,     *)
(* forces the shared CG flag to the parallel fallback 0x10 when its GPU    *)
(* cannot do a cooperative multi-device launch.                            *)
(***************************************************************************)
EXTENDS Naturals, Sequences

CONSTANTS
  IntraRanks,       \* number of ranks in the process (intraRanks)
  CompCaps,         \* compute capabilities a GPU may report
  SupportResults,   \* answers of cudaDevAttrCooperativeMultiDeviceLaunch
  ParallelEnv,      \* is NCCL_LAUNCH_MODE=PARALLEL set (same for the process)
  StreamResults,    \* outcomes of hipStreamCreateWithFlags
  Rank0Failures,    \* where intra rank 0 may fail before publishing all
  CgQueryCompiled   \* is the block under #if CUDART_VERSION >= 9000 built

ASSUME
  /\ IntraRanks \in Nat \ {0}
  /\ SupportResults \subseteq BOOLEAN /\ StreamResults \subseteq BOOLEAN
  /\ ParallelEnv \subseteq BOOLEAN /\ CgQueryCompiled \in BOOLEAN
  /\ Rank0Failures \subseteq {"none", "tune", "bar", "params", "cudaDevs", "cgMode", "cc"}

IR == 0 .. IntraRanks-1

\* The shared structures, in the order intra rank 0 publishes them.
Shared == <<"bar", "params", "cudaDevs", "cgMode", "cc">>

CgParallel == 16  \* 0x10, the fallback value of *intraCGMode
CgEnabled  == 17  \* 0x11, its initial value

VARIABLES
  cc,          \* ncclCudaCompCap() of each rank's GPU
  support,     \* whether each GPU supports multi-device cooperative launch
  parallel,    \* getenv("NCCL_LAUNCH_MODE") is "PARALLEL"
  streamOk,    \* whether each rank's group stream can be created
  fail0,       \* where intra rank 0 fails, or "none"
  published,   \* how many of Shared intra rank 0 has stored into comm0
  cgMode,      \* *intraCGMode (0 before it is allocated)
  intraCC,     \* *intraCC
  pc,          \* "start" (rank 0), "wait", "tail", "done", "failed"
  adopted,     \* how many shared pointers a non-zero rank has taken
  launchMode   \* comm->launchMode: "none", "GROUP" or "PARALLEL"

vars == <<cc, support, parallel, streamOk, fail0, published, cgMode, intraCC,
          pc, adopted, launchMode>>

Init ==
  /\ cc \in [IR -> CompCaps] /\ support \in [IR -> SupportResults]
  /\ parallel \in ParallelEnv /\ streamOk \in [IR -> StreamResults]
  /\ fail0 \in Rank0Failures
  /\ published = 0 /\ cgMode = 0 /\ intraCC = 0
  /\ pc = [r \in IR |-> IF r = 0 THEN "start" ELSE "wait"]
  /\ adopted = [r \in IR |-> 0]
  /\ launchMode = [r \in IR |-> "none"]

Position(x) == CHOOSE i \in 1..Len(Shared) : Shared[i] = x

(***************************************************************************)
(* Intra rank 0 (1120-1125 and 540-555): ncclTopoTuneModel and             *)
(* ncclTopoComputeP2pChannels may fail before ncclCommSetIntra is called;  *)
(* inside it each NCCLCHECK(ncclCalloc) returns on failure, after the      *)
(* pointers before it have been published.  The CG flag is set to 0x11     *)
(* and the compute capability written before their pointers are stored.   *)
(***************************************************************************)
Rank0Publish ==
  /\ pc[0] = "start"
  /\ LET n == IF fail0 = "none" THEN Len(Shared)
              ELSE IF fail0 = "tune" THEN 0 ELSE Position(fail0) - 1
     IN /\ published' = n
        /\ cgMode'  = IF n >= Position("cgMode") THEN CgEnabled ELSE 0
        /\ intraCC' = IF n >= Position("cc") THEN cc[0] ELSE 0
        /\ pc' = [pc EXCEPT ![0] = IF fail0 = "none" THEN "tail" ELSE "failed"]
  /\ UNCHANGED <<cc, support, parallel, streamOk, fail0, adopted, launchMode>>

(***************************************************************************)
(* waitForNonNullPtr (516-520, 556-560): a non-zero rank takes the next    *)
(* pointer once comm0 holds it; until then it spins with sched_yield,      *)
(* which changes no state.                                                 *)
(***************************************************************************)
WaitForNonNullPtr(r) ==
  /\ r # 0 /\ pc[r] = "wait"
  /\ adopted[r] < published
  /\ adopted' = [adopted EXCEPT ![r] = @ + 1]
  /\ pc' = [pc EXCEPT ![r] = IF adopted[r] + 1 = Len(Shared) THEN "tail" ELSE "wait"]
  /\ UNCHANGED <<cc, support, parallel, streamOk, fail0, published, cgMode, intraCC,
                 launchMode>>

(***************************************************************************)
(* The tail every rank runs (561-588): its entry of intraCudaDevs and its  *)
(* launch parameters (own slots only), the launch mode (PARALLEL for a     *)
(* single-rank process or NCCL_LAUNCH_MODE=PARALLEL), in GROUP mode the    *)
(* group stream (CUDACHECK returns on failure) and, if the GPU has the     *)
(* compute capability *intraCC, the attribute query; a rank whose answer   *)
(* is 0 stores 0x10 into the shared flag.                                  *)
(***************************************************************************)
SetCgMode(r) ==
  LET mode == IF IntraRanks = 1 \/ parallel THEN "PARALLEL" ELSE "GROUP"
      cgMdLaunch == IF /\ mode = "GROUP" /\ CgQueryCompiled
                       /\ intraCC # 0 /\ cc[r] = intraCC
                    THEN support[r] ELSE TRUE
  IN /\ pc[r] = "tail"
     /\ launchMode' = [launchMode EXCEPT ![r] = mode]
     /\ IF mode = "GROUP" /\ ~streamOk[r]
        THEN /\ pc' = [pc EXCEPT ![r] = "failed"] /\ UNCHANGED cgMode
        ELSE /\ pc' = [pc EXCEPT ![r] = "done"]
             /\ cgMode' = IF cgMdLaunch THEN cgMode ELSE CgParallel
     /\ UNCHANGED <<cc, support, parallel, streamOk, fail0, published, intraCC, adopted>>

RankStep(r) == (r = 0 /\ Rank0Publish) \/ WaitForNonNullPtr(r) \/ SetCgMode(r)

Next == \E r \in IR : RankStep(r)

\* Each rank is its own thread and runs ncclCommSetIntra to the end.
Spec == Init /\ [][Next]_vars /\ \A r \in IR : WF_vars(RankStep(r))

-----------------------------------------------------------------------------

\* Spec 4.3: once every rank of the process has set up in GROUP mode, the
\* shared flag keeps cooperative multi-device launch (0x11) exactly when all
\* GPUs have rank 0's compute capability and all report support; otherwise
\* it is 0x10.  The ranks write the flag in any order.
CgModeAgreement ==
  (\A r \in IR : pc[r] = "done" /\ launchMode[r] = "GROUP") =>
    (cgMode = CgEnabled <=> \A r \in IR : cc[r] = cc[0] /\ support[r])

\* Every rank leaves ncclCommSetIntra: none spins forever on a pointer.
SetIntraTerminates == <>(\A r \in IR : pc[r] \in {"done", "failed"})

===============================================================================
