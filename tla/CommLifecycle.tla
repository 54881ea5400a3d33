----------------------------- MODULE CommLifecycle -----------------------------
(***************************************************************************)
(* The life of the communicators of one process (src/src/init.cc):         *)
(* ncclCommInitRank / ncclCommInitRankDev (1156-1197), commAlloc (367-444) *)
(* and ncclCommInitRankSync (1139-1154), ncclCommDestroy / commDestroy /   *)
(* commFree (268-362, 1217-1261), ncclCommAbort (1265-1276), and the rule  *)
(* that the last rank through the CPU barrier in commFree frees the        *)
(* structures ncclCommSetIntra shared between the process's ranks.         *)
(*                                                                         *)
(* A rank that passes commAlloc enters initTransportsRank, whose           *)
(* rendezvous (InitTransports) completes only once every rank has done     *)
(* so; past ncclCommSetIntra it counts among intraRanks.  When it calls    *)
(* ncclCommInitRank, the application's ncclComm_t holds NULL or a stale    *)
(* value (an uninitialised variable, or a comm it destroyed earlier).      *)
(* The application may call ncclCommDestroy on its handle several times    *)
(* (a retry after an error, or a double destroy).  After free(comm) the    *)
(* memory is taken to keep the poisoned fields: the guard in               *)
(* ncclCommDestroy reads freed memory, and the model gives that read the   *)
(* outcome the guard was written for.                                      *)
(***************************************************************************)
EXTENDS Naturals, Functions

CONSTANTS
  IntraRanks,      \* ranks of the process
  MaxCalls,        \* ncclCommDestroy / ncclCommAbort calls per rank
  EarlyExits,      \* may ncclCommInitRankDev return before commAlloc
  AllocResults,    \* outcomes of commAlloc: TRUE = success
  HandleInit,      \* what the application's ncclComm_t holds before init
  InitResults,     \* outcomes of the end of initialisation: TRUE = success
  DestroyFailures, \* where commDestroy may return an error
  RetryAfterError  \* does the application call ncclCommDestroy again after an error

ASSUME
  /\ IntraRanks \in Nat \ {0} /\ MaxCalls \in Nat \ {0}
  /\ EarlyExits \in BOOLEAN /\ AllocResults \subseteq BOOLEAN
  /\ HandleInit \subseteq {"null", "stale"} /\ HandleInit # {}
  /\ InitResults \subseteq BOOLEAN
  /\ DestroyFailures \subseteq {"none", "proxy", "inner", "hostFree"}
  /\ RetryAfterError \in BOOLEAN

IR == 0 .. IntraRanks-1

VARIABLES
  st,          \* "init" (before the call), "rejected" (returned without a comm),
               \* "joined" (in initTransportsRank), "live", "failed" (init
               \* failed past ncclCommSetIntra), "freed" (free(comm) done)
  handle,      \* the application's ncclComm_t: "comm", "null" or "stale"
  foreignAborts, \* bootstrapAbort calls through a handle the call did not set
  arrived,     \* arrivals of each rank at the barrier in commFree
  sharedFrees, \* times the shared intra* structures were freed
  listFrees,   \* times each comm's connectSend/.../peerInfo arrays were freed
  commFrees,   \* times free(comm) ran on each comm
  cliqueFrees, \* times each comm's cliqueManager was deleted
  lastFailed,  \* the application's last ncclCommDestroy returned an error
  abortFlag,   \* *comm->abortFlag
  calls        \* API calls each rank's application has made

vars == <<st, handle, foreignAborts, arrived, sharedFrees, listFrees, commFrees, cliqueFrees,
          lastFailed, abortFlag, calls>>

Init ==
  /\ st = [r \in IR |-> "init"]
  /\ handle \in [IR -> HandleInit]
  /\ foreignAborts = [r \in IR |-> 0]
  /\ arrived = [r \in IR |-> 0] /\ sharedFrees = 0
  /\ listFrees = [r \in IR |-> 0] /\ commFrees = [r \in IR |-> 0]
  /\ cliqueFrees = [r \in IR |-> 0] /\ lastFailed = [r \in IR |-> FALSE]
  /\ abortFlag = [r \in IR |-> 0] /\ calls = [r \in IR |-> 0]

(***************************************************************************)
(* The cleanup label of ncclCommInitRankSync (1150-1153): if *newcomm is   *)
(* not NULL and its bootstrap field is set, bootstrapAbort it; then        *)
(* *newcomm = NULL.  When commAlloc failed, *newcomm is still what the     *)
(* application passed: a stale value is dereferenced, and whether its      *)
(* bootstrap field reads as set is up to the freed or uninitialised memory. *)
(***************************************************************************)
Cleanup(r) ==
  /\ handle' = [handle EXCEPT ![r] = "null"]
  /\ \E aborts \in IF handle[r] = "stale" THEN BOOLEAN ELSE {FALSE} :
       foreignAborts' = [foreignAborts EXCEPT ![r] = @ + (IF aborts THEN 1 ELSE 0)]

(***************************************************************************)
(* commAlloc (367-444): its argument checks cannot fail after              *)
(* ncclCommInitRankDev's; hipEventCreate, a calloc, getBusId or a host     *)
(* allocation may.  Every failure returns before *comret = comm (442), and *)
(* ncclCommInitRankSync goes to its cleanup.                               *)
(***************************************************************************)
CommAlloc(r) ==
  \E ok \in AllocResults :
    IF ok THEN /\ st' = [st EXCEPT ![r] = "joined"]
               /\ handle' = [handle EXCEPT ![r] = "comm"]
               /\ UNCHANGED foreignAborts
          ELSE /\ st' = [st EXCEPT ![r] = "rejected"]
               /\ Cleanup(r)

(***************************************************************************)
(* ncclCommInitRank (1191-1197) and ncclCommInitRankDev (1156-1189): a     *)
(* failing bootstrapCreateRoot, ncclInit or hipFree, a NULL newcomm or a   *)
(* rank out of range go to end without touching *newcomm; otherwise        *)
(* ncclCommInitRankSync runs (directly, or from ncclGroupEnd in a group),  *)
(* after hipSetDevice, starting with commAlloc.                            *)
(***************************************************************************)
InitRankDev(r) ==
  /\ st[r] = "init"
  /\ \/ /\ EarlyExits
        /\ st' = [st EXCEPT ![r] = "rejected"]
        /\ UNCHANGED <<handle, foreignAborts>>
     \/ CommAlloc(r)
  /\ UNCHANGED <<arrived, sharedFrees, listFrees, commFrees, cliqueFrees,
                 lastFailed, abortFlag, calls>>

(***************************************************************************)
(* The rest of ncclCommInitRankSync (1143-1154): initTransportsRank        *)
(* returns only when every rank has joined the rendezvous.  After          *)
(* ncclCommSetIntra, ncclProxyCreate or devCommSetup may still fail; the   *)
(* cleanup then aborts the comm's own bootstrap and sets *newcomm = NULL   *)
(* without commFree: the comm stays allocated and never reaches the        *)
(* barrier.                                                                *)
(***************************************************************************)
InitRankSync(r) ==
  /\ st[r] = "joined"
  /\ \A q \in IR : st[q] \notin {"init", "rejected"}
  /\ \E ok \in InitResults :
       IF ok THEN /\ st' = [st EXCEPT ![r] = "live"]
                  /\ UNCHANGED <<handle, foreignAborts>>
             ELSE /\ st' = [st EXCEPT ![r] = "failed"]
                  /\ Cleanup(r)
  /\ UNCHANGED <<arrived, sharedFrees, listFrees, commFrees, cliqueFrees,
                 lastFailed, abortFlag, calls>>

(***************************************************************************)
(* ncclCpuBarrierIn as the spec describes it (7.3): an arrival-counting    *)
(* barrier on intraBarrier; the arrival that brings the count to           *)
(* intraRanks is the last and frees the shared structures (344-353).       *)
(***************************************************************************)
CpuBarrierIn(r) ==
  /\ arrived' = [arrived EXCEPT ![r] = @ + 1]
  /\ sharedFrees' = sharedFrees + (IF SumFunction(arrived) + 1 = IntraRanks THEN 1 ELSE 0)

(***************************************************************************)
(* commFree (268-362), with the point at which it returns an error:        *)
(*   "inner":    the arrays are freed (271-275, 317), then bootstrapClose, *)
(*               a hipFree, freeChannel or a stream/event destroy fails;   *)
(*   "hostFree": the barrier is passed, then ncclCudaHostFree fails (354); *)
(*   "none":     everything is freed, the comm poisoned and free()d.      *)
(* Neither error path poisons the comm.                                    *)
(***************************************************************************)
CommFree(r, f) ==
  /\ listFrees' = [listFrees EXCEPT ![r] = @ + 1]
  /\ IF f = "inner"
     THEN UNCHANGED <<arrived, sharedFrees, st, commFrees>>
     ELSE /\ CpuBarrierIn(r)
          /\ IF f = "hostFree"
             THEN UNCHANGED <<st, commFrees>>
             ELSE /\ st' = [st EXCEPT ![r] = "freed"]
                  /\ commFrees' = [commFrees EXCEPT ![r] = @ + 1]

\* The application's thread has got its comm back from ncclCommInitRank:
\* until then it is inside the call, and the cliqueManager (866) and the
\* rest of initTransportsRank's state are not yet there.
InitReturned(r) == handle[r] = "comm" /\ st[r] \in {"live", "freed"}

\* Whether rank r's application makes another ncclCommDestroy call.
MayDestroy(r) ==
  /\ calls[r] < MaxCalls /\ InitReturned(r)
  /\ RetryAfterError \/ ~lastFailed[r]

(***************************************************************************)
(* ncclCommDestroy (1245-1261) and commDestroy (1217-1242).  A NULL handle *)
(* returns at once.  The double-destroy check reads rank, nRanks, cudaDev  *)
(* and busId: poisoned fields (-1) give ncclInvalidArgument; a comm that   *)
(* was never freed passes.  The cliqueManager, which initTransportsRank    *)
(* always creates (866), is then deleted and the pointer left as it was.  *)
(* commDestroy may fail in hipStreamSynchronize or ncclProxyDestroy        *)
(* ("proxy") before commFree; otherwise commFree runs.                    *)
(***************************************************************************)
CommDestroy(r) ==
  /\ MayDestroy(r)
  /\ calls' = [calls EXCEPT ![r] = @ + 1]
  /\ IF st[r] = "freed"
     THEN /\ lastFailed' = [lastFailed EXCEPT ![r] = TRUE]
          /\ UNCHANGED <<st, arrived, sharedFrees, listFrees, commFrees, cliqueFrees>>
     ELSE /\ cliqueFrees' = [cliqueFrees EXCEPT ![r] = @ + 1]
          /\ \E f \in DestroyFailures :
               /\ lastFailed' = [lastFailed EXCEPT ![r] = f # "none"]
               /\ IF f = "proxy"
                  THEN UNCHANGED <<st, arrived, sharedFrees, listFrees, commFrees>>
                  ELSE CommFree(r, f)
  /\ UNCHANGED <<handle, foreignAborts, abortFlag>>

\* ncclCommAbort (1265-1276): only STORE(comm->abortFlag, 1); nothing freed.
CommAbort(r) ==
  /\ calls[r] < MaxCalls /\ InitReturned(r)
  /\ calls' = [calls EXCEPT ![r] = @ + 1]
  /\ abortFlag' = [abortFlag EXCEPT ![r] = 1]
  /\ UNCHANGED <<st, handle, foreignAborts, arrived, sharedFrees, listFrees,
                 commFrees, cliqueFrees, lastFailed>>

Next == \E r \in IR : InitRankDev(r) \/ InitRankSync(r) \/ CommDestroy(r) \/ CommAbort(r)

Spec == Init /\ [][Next]_vars

-----------------------------------------------------------------------------

\* Spec 5 (double-destroy guard): however often the application calls
\* ncclCommDestroy, and after whatever errors (when it retries), no comm's
\* arrays, cliqueManager or comm block are freed twice.
NoDoubleFree ==
  \A r \in IR : listFrees[r] <= 1 /\ cliqueFrees[r] <= 1 /\ commFrees[r] <= 1

\* Spec 3 (last rank frees): the shared intra* structures are freed at most
\* once, and only when no rank with a live comm is still to reach commFree.
SharedNotFreedWhileInUse ==
  /\ sharedFrees <= 1
  /\ sharedFrees = 1 => \A r \in IR : st[r] = "live" => arrived[r] > 0

\* Spec 3: once every rank's comm is either freed or was never handed out,
\* the shared intra* structures have been freed exactly once.
SharedFreedWhenAllDone ==
  (\A r \in IR : st[r] \in {"freed", "failed"}) => sharedFrees = 1

\* A failed ncclCommInitRank aborts no bootstrap but that of the comm it
\* allocated itself: the cleanup in ncclCommInitRankSync never acts through
\* the value the application's ncclComm_t held before the call.
NoForeignBootstrapAbort == \A r \in IR : foreignAborts[r] = 0

===============================================================================
