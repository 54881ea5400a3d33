--------------------------- MODULE InitTransports ---------------------------
(***************************************************************************)
(* The rendezvous protocol of initTransportsRank (src/src/init.cc 739-1137) *)
(* run by N ranks, one initialising thread each.  A rank's steps between   *)
(* two blocking bootstrap exchanges touch only its own state, so each      *)
(* action below runs from one blocking exchange to the next.               *)
(*                                                                         *)
(* Bootstrap exchanges: log[r] is the sequence of call sites of the        *)
(* collective bootstrap exchanges rank r has entered.  The bootstrap does  *)
(* not tag them: the k-th exchange of one rank pairs with the k-th of      *)
(* every other rank, and it completes for a rank once every rank has       *)
(* entered its k-th exchange from the same call site.  ncclTransportP2pSetup *)
(* (an exchange with every ring/tree peer) is modelled the same way.  The  *)
(* CollNet master-to-master bootstrapSend/bootstrapRecv are messages in    *)
(* mail, matched by sender only, as bootstrapRecv matches them.            *)
(*                                                                         *)
(* External collaborators are inputs: the topology search gives each rank  *)
(* its channel count; ncclTopoPreset gives ringRecv[0], the lowest rank of *)
(* the host; collNetGraph.intra gives the CollNet masters of a node; the   *)
(* CollNet transport's canConnect, setup and connect give results.         *)
(***************************************************************************)
EXTENDS Integers, Sequences, FiniteSets, FiniteSetsExt

CONSTANTS
  N,                  \* nranks
  Hosts,              \* host identities (peerInfo.hostHash)
  ChannelCounts,      \* min(ringGraph, treeGraph).nChannels a rank's search may find
  MaxChannels,        \* MAXCHANNELS
  CollNetSplit,       \* collNetGraph.pattern # TREE: the send master is the 2nd GPU
  HomogeneousGate,    \* every rank evaluates the CollNet gate the same way
  AllowDuplicateGpu,  \* two ranks of a host may report the same busId
  SetupResults,       \* ncclResult_t values collNetTransport setup may return
  ConnectResults,     \* ncclResult_t values collNetTransport connect may return
  LocalFailures       \* the rank-local error exits that may be taken (below)

ASSUME /\ N \in Nat \ {0}
       /\ ChannelCounts \subseteq 1..MaxChannels \div 2
       /\ {CollNetSplit, HomogeneousGate, AllowDuplicateGpu} \subseteq BOOLEAN
       /\ 0 \in SetupResults /\ 0 \in ConnectResults
       /\ LocalFailures \subseteq {"buffSizes", "ringSetup", "treeSetup", "tail"}

Ranks == 0 .. N-1

G == INSTANCE PeerGrouping WITH NR <- N, HostIds <- Hosts, PidIds <- Hosts

ncclSuccess == 0

Sites == {"AllGather1", "AllGather3", "P2pSetupRing", "P2pSetupTree",
          "CollNetRecvAllGather", "P2pSetupCollNet", "CheckCollNetSetup"}
Dirs == {"send", "recv"}
PCs == {"init", "ag1", "ag3", "ring", "tree", "cnRecv", "cnRecvAG", "cnSend",
        "cnP2p", "cnCheck", "done", "failed"}

VARIABLES
  host, bus, gate, can,  \* inputs: hostHash, busId, CollNet gate, canConnect
  pc,              \* where the initialising thread of each rank is
  log,             \* call sites of the bootstrap exchanges each rank entered
  nCh3,            \* nChannels each rank published in AllGather3
  nChannels,       \* comm->nChannels
  nNodes, node,    \* comm->nNodes, comm->node
  cnCh,            \* logic channel c of the CollNet setup loop
  cnRet,           \* ret of the running collNetSetup (canConnect result)
  cnFail,          \* collNetSetupFail
  mail,            \* bootstrapSend messages not yet received, per (from, to)
  res,             \* CollNet transportResources held: <<channel, dir>>
  conn,            \* CollNet connectors connected: <<channel, dir>>
  collNetSupport,  \* comm->collNetSupport
  pinned           \* the thread runs on ncclTopoSetAffinity's CPU set, not the saved one

inputs == <<host, bus, gate, can>>
vars == <<host, bus, gate, can, pc, log, nCh3, nChannels, nNodes, node,
          cnCh, cnRet, cnFail, mail, res, conn, collNetSupport, pinned>>

-----------------------------------------------------------------------------
\* Ranks of the host of r, the first of which is ringRecv[0] of its topoRanks
\* and collNetGraph.intra[c*localRanks+0]; the second is intra[..+1].
OnHost(r) == {s \in Ranks : host[s] = host[r]}
FirstRank(r) == Min(OnHost(r))
RecvMaster(r) == FirstRank(r)
SendMaster(r) == IF CollNetSplit /\ OnHost(r) # {FirstRank(r)}
                 THEN Min(OnHost(r) \ {FirstRank(r)})
                 ELSE FirstRank(r)

LogicChannels(r) == nChannels[r] \div 2
\* nNodes > 1 && ncclParamCollNetEnable() == 1 && collNetSupport() && collNetGraph.nChannels
CollNetGate(r) == nNodes[r] > 1 /\ gate[r]

Enter(r, site) == log' = [log EXCEPT ![r] = Append(@, site)]

\* The exchange rank r is blocked in has been entered by every rank, from
\* the same call site.
ExchangeDone(r) ==
  LET k == Len(log[r])
  IN \A s \in Ranks : Len(log[s]) >= k /\ log[s][k] = log[r][k]

(***************************************************************************)
(* CPU affinity (init.cc 1063-1067, 1129-1132): the saved set is restored *)
(* at the affinity_restore label.  The ring and tree connections jump      *)
(* there on error (NCCLCHECKGOTO); every other check after                 *)
(* ncclTopoSetAffinity is a plain NCCLCHECK that returns at once.          *)
(* LocalFailures names the error exits a run lets happen:                  *)
(*   "buffSizes": computeBuffSizes fails (1070), a plain NCCLCHECK;        *)
(*   "ringSetup": ncclTransportP2pSetup of the rings fails (1079), goto;   *)
(*   "treeSetup": ncclTransportP2pSetup of the trees fails (1089), goto;   *)
(*   "tail":      ncclTopoTuneModel, ncclTopoComputeP2pChannels,          *)
(*                ncclCommSetIntra or ncclProxyCreate fails (1120-1127),   *)
(*                plain NCCLCHECKs after the last exchange.                *)
(***************************************************************************)
Restore(r) == pinned' = [pinned EXCEPT ![r] = FALSE]

\* The end of initTransportsRank (1116-1136): the tail of plain NCCLCHECKs,
\* then affinity_restore and a successful return.
Return(r) ==
  \/ /\ "tail" \in LocalFailures
     /\ pc' = [pc EXCEPT ![r] = "failed"]
     /\ UNCHANGED pinned
  \/ /\ pc' = [pc EXCEPT ![r] = "done"]
     /\ Restore(r)

Init ==
  /\ host \in [Ranks -> Hosts]
  /\ bus \in IF AllowDuplicateGpu THEN [Ranks -> Ranks] ELSE {[r \in Ranks |-> r]}
  /\ gate \in IF HomogeneousGate THEN {[r \in Ranks |-> b] : b \in BOOLEAN}
                                 ELSE [Ranks -> BOOLEAN]
  /\ can \in [Ranks -> {0, 1}]
  /\ pc = [r \in Ranks |-> "init"]
  /\ log = [r \in Ranks |-> <<>>]
  /\ nCh3 = [r \in Ranks |-> 0]
  /\ nChannels = [r \in Ranks |-> 0]
  /\ nNodes = [r \in Ranks |-> 0]
  /\ node = [r \in Ranks |-> -1]
  /\ cnCh = [r \in Ranks |-> 0]
  /\ cnRet = [r \in Ranks |-> 0]
  /\ cnFail = [r \in Ranks |-> FALSE]
  /\ mail = [p \in Ranks \X Ranks |-> <<>>]
  /\ res = [r \in Ranks |-> {}]
  /\ conn = [r \in Ranks |-> {}]
  /\ collNetSupport = [r \in Ranks |-> FALSE]
  /\ pinned = [r \in Ranks |-> FALSE]

-----------------------------------------------------------------------------
\* bootstrapInit, fillInfo and entry into AllGather1 (init.cc 744-765).
AllGather1(r) ==
  /\ pc[r] = "init"
  /\ Enter(r, "AllGather1")
  /\ pc' = [pc EXCEPT ![r] = "ag1"]
  /\ UNCHANGED <<inputs, pinned, nCh3, nChannels, nNodes, node, cnCh, cnRet, cnFail,
                 mail, res, conn, collNetSupport>>

\* AllGather1 returns: duplicate-GPU check, intra-rank scan, topology
\* search, graph computation, ncclTopoPreset, and entry into AllGather3
\* publishing min(tree, ring) nChannels (init.cc 767-963).
AllGather1Done(r) ==
  /\ pc[r] = "ag1"
  /\ ExchangeDone(r)
  /\ IF \E i \in Ranks \ {r} : host[i] = host[r] /\ bus[i] = bus[r]
     THEN /\ pc' = [pc EXCEPT ![r] = "failed"]   \* ncclInvalidUsage
          /\ UNCHANGED <<log, nCh3, nChannels>>
     ELSE \E c \in ChannelCounts :
            /\ nCh3' = [nCh3 EXCEPT ![r] = c]
            /\ nChannels' = [nChannels EXCEPT ![r] = c]
            /\ Enter(r, "AllGather3")
            /\ pc' = [pc EXCEPT ![r] = "ag3"]
  /\ UNCHANGED <<inputs, pinned, nNodes, node, cnCh, cnRet, cnFail, mail, res, conn,
                 collNetSupport>>

\* Fault model: the reconciliation loop stops one rank short.
ReconcileNChannelsSkipLast(r) ==
  LET RECURSIVE M(_)
      M(i) == IF i = 0 THEN nChannels[r] ELSE Min({nCh3[i-1], M(i-1)})
  IN M(N-1)

\* The loop of init.cc 988-992: comm->nChannels = min over all ranks,
\* starting from the rank's own value.
ReconcileNChannels(r) ==
  LET RECURSIVE M(_)
      M(i) == IF i = 0 THEN nChannels[r] ELSE Min({nCh3[i-1], M(i-1)})
  IN M(N)

\* AllGather3 returns: node scan, channel-count reconciliation, compaction,
\* ncclTopoPostset, ncclTopoSetAffinity, computeBuffSizes, ring setup and
\* entry into the ring P2P setup (init.cc 965-1079).
AllGather3Done(r) ==
  /\ pc[r] = "ag3"
  /\ ExchangeDone(r)
  /\ LET ns == G!NodeScan([i \in Ranks |-> FirstRank(i)])
     IN /\ nNodes' = [nNodes EXCEPT ![r] = ns.nNodes]
        /\ node' = [node EXCEPT ![r] = ns.node[r]]
  /\ nChannels' = [nChannels EXCEPT ![r] = ReconcileNChannels(r)]
  /\ pinned' = [pinned EXCEPT ![r] = TRUE]
  /\ \/ /\ "buffSizes" \in LocalFailures
        /\ pc' = [pc EXCEPT ![r] = "failed"]
        /\ UNCHANGED log
     \/ /\ Enter(r, "P2pSetupRing")
        /\ pc' = [pc EXCEPT ![r] = "ring"]
  /\ UNCHANGED <<inputs, nCh3, cnCh, cnRet, cnFail, mail, res, conn,
                 collNetSupport>>

\* Rings connected; tree connections and entry into the tree P2P setup
\* (init.cc 1080-1089).
RingsConnected(r) ==
  /\ pc[r] = "ring"
  /\ ExchangeDone(r)
  /\ \/ /\ "ringSetup" \in LocalFailures
        /\ pc' = [pc EXCEPT ![r] = "failed"]
        /\ Restore(r) /\ UNCHANGED log
     \/ /\ Enter(r, "P2pSetupTree")
        /\ pc' = [pc EXCEPT ![r] = "tree"]
        /\ UNCHANGED pinned
  /\ UNCHANGED <<inputs, nCh3, nChannels, nNodes, node, cnCh, cnRet, cnFail,
                 mail, res, conn, collNetSupport>>

\* Trees connected (an error of their P2P setup restores the affinity and
\* returns); either start the CollNet setup loop or, when the gate
\* is closed, tune, set up intra-process state and finish (init.cc 1090-1136).
TreesConnected(r) ==
  /\ pc[r] = "tree"
  /\ ExchangeDone(r)
  /\ \/ /\ "treeSetup" \in LocalFailures
        /\ pc' = [pc EXCEPT ![r] = "failed"]
        /\ Restore(r) /\ UNCHANGED log
     \/ /\ ~CollNetGate(r)
        /\ Return(r) /\ UNCHANGED log
     \/ /\ CollNetGate(r)
        /\ IF LogicChannels(r) > 0
           THEN pc' = [pc EXCEPT ![r] = "cnRecv"] /\ UNCHANGED log
           ELSE Enter(r, "P2pSetupCollNet") /\ pc' = [pc EXCEPT ![r] = "cnP2p"]
        /\ UNCHANGED pinned
  /\ UNCHANGED <<inputs, nCh3, nChannels, nNodes, node, cnCh, cnRet, cnFail,
                 mail, res, conn, collNetSupport>>

-----------------------------------------------------------------------------
(***************************************************************************)
(* The CollNet loop (init.cc 1096-1112) and collNetSetup (620-701).         *)
(***************************************************************************)
\* Fault model: the loop bound compared with <= instead of <.
NextLogicChannelLe(r) ==
  IF cnCh[r] + 1 <= LogicChannels(r)
  THEN /\ cnCh' = [cnCh EXCEPT ![r] = @ + 1]
       /\ pc' = [pc EXCEPT ![r] = "cnRecv"]
       /\ UNCHANGED log
  ELSE /\ Enter(r, "P2pSetupCollNet")
       /\ pc' = [pc EXCEPT ![r] = "cnP2p"]
       /\ UNCHANGED cnCh

\* Next iteration of the loop over logic channels, or the CollNet P2P setup.
NextLogicChannel(r) ==
  IF cnCh[r] + 1 < LogicChannels(r)
  THEN /\ cnCh' = [cnCh EXCEPT ![r] = @ + 1]
       /\ pc' = [pc EXCEPT ![r] = "cnRecv"]
       /\ UNCHANGED log
  ELSE /\ Enter(r, "P2pSetupCollNet")
       /\ pc' = [pc EXCEPT ![r] = "cnP2p"]
       /\ UNCHANGED cnCh

\* Fault model: the send setup runs whatever the recv setup returned
\* (two ifs instead of if / else if).
RecvSetupReturnedNoElse(r, v) ==
  /\ cnFail' = IF v # 1 THEN [cnFail EXCEPT ![r] = TRUE] ELSE cnFail
  /\ pc' = [pc EXCEPT ![r] = "cnSend"]
  /\ UNCHANGED <<cnCh, log>>

\* The caller tests the int collNetSetup returned against 1 (init.cc
\* 1107-1110): the recv setup returning 1 goes on to the send setup.
RecvSetupReturned(r, v) ==
  IF v # 1
  THEN cnFail' = [cnFail EXCEPT ![r] = TRUE] /\ NextLogicChannel(r)
  ELSE pc' = [pc EXCEPT ![r] = "cnSend"] /\ UNCHANGED <<cnCh, cnFail, log>>

SendSetupReturned(r, v) ==
  /\ cnFail' = IF v # 1 THEN [cnFail EXCEPT ![r] = TRUE] ELSE cnFail
  /\ NextLogicChannel(r)

\* Fault model: only masters take part in the recv-side AllGather.
CollNetRecvSetupMastersOnly(r) ==
  /\ pc[r] = "cnRecv"
  /\ LET isMaster == r = RecvMaster(r)
         ret == IF isMaster THEN can[r] ELSE 1
         ch == LogicChannels(r) + cnCh[r]
     IN /\ cnRet' = [cnRet EXCEPT ![r] = ret]
        /\ IF ~isMaster
           THEN UNCHANGED res /\ RecvSetupReturned(r, 1)
           ELSE /\ res' = IF ret > 0 THEN [res EXCEPT ![r] = @ \cup {<<ch, "recv">>}] ELSE res
                /\ Enter(r, "CollNetRecvAllGather")
                /\ pc' = [pc EXCEPT ![r] = "cnRecvAG"]
                /\ UNCHANGED <<cnCh, cnFail>>
  /\ UNCHANGED <<inputs, pinned, nCh3, nChannels, nNodes, node, mail, conn,
                 collNetSupport>>

\* collNetSetup(type = 1) up to the recv-side AllGather: the master probes
\* canConnect and runs setup; an error of setup leaves through NCCLCHECK,
\* returning the ncclResult_t as the int result (init.cc 621-667).
CollNetRecvSetup(r) ==
  /\ pc[r] = "cnRecv"
  /\ LET isMaster == r = RecvMaster(r)
         ret == IF isMaster THEN can[r] ELSE 1
         ch == LogicChannels(r) + cnCh[r]
     IN /\ cnRet' = [cnRet EXCEPT ![r] = ret]
        /\ \E e \in IF isMaster /\ ret > 0 THEN SetupResults ELSE {ncclSuccess} :
             IF e = ncclSuccess
             THEN /\ res' = IF isMaster /\ ret > 0
                            THEN [res EXCEPT ![r] = @ \cup {<<ch, "recv">>}]
                            ELSE res
                  /\ Enter(r, "CollNetRecvAllGather")
                  /\ pc' = [pc EXCEPT ![r] = "cnRecvAG"]
                  /\ UNCHANGED <<cnCh, cnFail>>
             ELSE UNCHANGED res /\ RecvSetupReturned(r, e)
  /\ UNCHANGED <<inputs, pinned, nCh3, nChannels, nNodes, node, mail, conn,
                 collNetSupport>>

CollNetRecvConnect(r) ==
  /\ pc[r] = "cnRecvAG"
  /\ ExchangeDone(r)
  /\ LET isMaster == r = RecvMaster(r)
         ret == cnRet[r]
         ch == LogicChannels(r) + cnCh[r]
         to == <<r, SendMaster(r)>>
     IN \E e \in IF isMaster /\ ret > 0 THEN ConnectResults ELSE {ncclSuccess} :
          /\ conn' = IF isMaster /\ ret > 0 /\ e = ncclSuccess
                     THEN [conn EXCEPT ![r] = @ \cup {<<ch, "recv">>}]
                     ELSE conn
          /\ mail' = IF isMaster /\ e = ncclSuccess
                     THEN [mail EXCEPT ![to] = Append(@, cnCh[r])]
                     ELSE mail
          /\ RecvSetupReturned(r, IF ret > 0 /\ e = ncclSuccess THEN 1 ELSE 0)
  /\ UNCHANGED <<inputs, pinned, nCh3, nChannels, nNodes, node, cnRet, res,
                 collNetSupport>>

\* collNetSetup(type = 0): the send master probes canConnect, blocks in
\* bootstrapRecv from the recv master, then sets up and connects (620-701).
CollNetSendSetup(r) ==
  /\ pc[r] = "cnSend"
  /\ LET isMaster == r = SendMaster(r)
         ret == IF isMaster THEN can[r] ELSE 1
         ch == cnCh[r]
         from == <<RecvMaster(r), r>>
     IN IF ~isMaster
        THEN SendSetupReturned(r, 1) /\ UNCHANGED <<mail, res, conn>>
        ELSE /\ mail[from] # <<>>
             /\ mail' = [mail EXCEPT ![from] = Tail(@)]
             /\ \E e \in IF ret > 0 THEN SetupResults ELSE {ncclSuccess} :
                \E f \in IF ret > 0 /\ e = ncclSuccess THEN ConnectResults ELSE {ncclSuccess} :
                  /\ res' = IF ret > 0 /\ e = ncclSuccess
                            THEN [res EXCEPT ![r] = @ \cup {<<ch, "send">>}]
                            ELSE res
                  /\ conn' = IF ret > 0 /\ e = ncclSuccess /\ f = ncclSuccess
                             THEN [conn EXCEPT ![r] = @ \cup {<<ch, "send">>}]
                             ELSE conn
                  /\ SendSetupReturned(r, IF ret = 0 THEN 0
                                          ELSE IF e # ncclSuccess THEN e
                                          ELSE IF f = ncclSuccess THEN 1 ELSE 0)
  /\ UNCHANGED <<inputs, pinned, nCh3, nChannels, nNodes, node, cnRet, collNetSupport>>

\* ncclTransportP2pSetup(collNetGraph) done; checkCollNetSetup enters its
\* AllGather of the failure flags (init.cc 1112-1114, 703-709).
CollNetP2pDone(r) ==
  /\ pc[r] = "cnP2p"
  /\ ExchangeDone(r)
  /\ Enter(r, "CheckCollNetSetup")
  /\ pc' = [pc EXCEPT ![r] = "cnCheck"]
  /\ UNCHANGED <<inputs, pinned, nCh3, nChannels, nNodes, node, cnCh, cnRet, cnFail,
                 mail, res, conn, collNetSupport>>

\* Fault model: the free loop stops at the logic-channel count.
CheckCollNetSetupHalfFree(r) ==
  /\ pc[r] = "cnCheck"
  /\ ExchangeDone(r)
  /\ IF \E s \in Ranks : cnFail[s]
     THEN /\ res' = [res EXCEPT ![r] = {x \in @ : x[1] >= LogicChannels(r)}]
          /\ collNetSupport' = [collNetSupport EXCEPT ![r] = FALSE]
     ELSE /\ collNetSupport' = [collNetSupport EXCEPT ![r] = TRUE]
          /\ UNCHANGED res
  /\ Return(r)
  /\ UNCHANGED <<inputs, log, nCh3, nChannels, nNodes, node, cnCh, cnRet,
                 cnFail, mail, conn>>

\* Fault model: a rank decides from its own failure flag, not the gathered ones.
CheckCollNetSetupOwnFlag(r) ==
  /\ pc[r] = "cnCheck"
  /\ ExchangeDone(r)
  /\ IF cnFail[r]
     THEN /\ res' = [res EXCEPT ![r] = {x \in @ : x[1] >= nChannels[r]}]
          /\ collNetSupport' = [collNetSupport EXCEPT ![r] = FALSE]
     ELSE /\ collNetSupport' = [collNetSupport EXCEPT ![r] = TRUE]
          /\ UNCHANGED res
  /\ Return(r)
  /\ UNCHANGED <<inputs, log, nCh3, nChannels, nNodes, node, cnCh, cnRet,
                 cnFail, mail, conn>>

\* checkCollNetSetup after its AllGather: any failure frees the CollNet
\* resources of every channel and clears collNetSupport (init.cc 710-733);
\* then the rank tunes, sets up intra-process state and finishes.
CheckCollNetSetup(r) ==
  /\ pc[r] = "cnCheck"
  /\ ExchangeDone(r)
  /\ IF \E s \in Ranks : cnFail[s]
     THEN /\ res' = [res EXCEPT ![r] = {x \in @ : x[1] >= nChannels[r]}]
          /\ collNetSupport' = [collNetSupport EXCEPT ![r] = FALSE]
     ELSE /\ collNetSupport' = [collNetSupport EXCEPT ![r] = TRUE]
          /\ UNCHANGED res
  /\ Return(r)
  /\ UNCHANGED <<inputs, log, nCh3, nChannels, nNodes, node, cnCh, cnRet,
                 cnFail, mail, conn>>

-----------------------------------------------------------------------------
RankStep(r) ==
  \/ AllGather1(r) \/ AllGather1Done(r) \/ AllGather3Done(r)
  \/ RingsConnected(r) \/ TreesConnected(r)
  \/ CollNetRecvSetup(r) \/ CollNetRecvConnect(r) \/ CollNetSendSetup(r)
  \/ CollNetP2pDone(r) \/ CheckCollNetSetup(r)

Next == \E r \in Ranks : RankStep(r)

\* Each rank's initialising thread keeps running until it returns.
Spec == Init /\ [][Next]_vars /\ \A r \in Ranks : WF_vars(RankStep(r))

-----------------------------------------------------------------------------
TypeOK ==
  /\ host \in [Ranks -> Hosts] /\ bus \in [Ranks -> Ranks]
  /\ gate \in [Ranks -> BOOLEAN] /\ can \in [Ranks -> {0, 1}]
  /\ pc \in [Ranks -> PCs]
  /\ log \in [Ranks -> Seq(Sites)]
  /\ nCh3 \in [Ranks -> 0..MaxChannels] /\ nChannels \in [Ranks -> 0..MaxChannels]
  /\ nNodes \in [Ranks -> 0..N] /\ node \in [Ranks -> -1..N-1]
  /\ cnCh \in [Ranks -> 0..(MaxChannels \div 4) - 1] /\ cnRet \in [Ranks -> {0, 1}]
  /\ cnFail \in [Ranks -> BOOLEAN]
  /\ mail \in [Ranks \X Ranks -> Seq(0..MaxChannels)]
  /\ res \in [Ranks -> SUBSET ((0..MaxChannels-1) \X Dirs)]
  /\ conn \in [Ranks -> SUBSET ((0..MaxChannels-1) \X Dirs)]
  /\ collNetSupport \in [Ranks -> BOOLEAN]
  /\ pinned \in [Ranks -> BOOLEAN]

\* The bootstrap exchanges pair up: the k-th exchange every rank enters is
\* the same call site, so no rank reads the CollNet connect table of one
\* call as the failure flags of another (collNetSetup, checkCollNetSetup,
\* ncclTransportP2pSetup all share the untagged bootstrap).
CollectivesMatch ==
  \A r, s \in Ranks :
    \A k \in 1..Min({Len(log[r]), Len(log[s])}) : log[r][k] = log[s][k]

\* Rank r has run the reductions after AllGather3 (nNodes is set there),
\* whether it went on or failed afterwards.
Reconciled(r) == nNodes[r] > 0

\* After AllGather3 every rank holds the same channel count, the smallest
\* any rank published, and the same node count; two ranks share a node
\* exactly when they share a host.
ReconciledAgree ==
  \A r, s \in Ranks : Reconciled(r) /\ Reconciled(s) =>
    /\ nChannels[r] = nChannels[s]
    /\ nChannels[r] = Min({nCh3[i] : i \in Ranks})
    /\ nNodes[r] = nNodes[s]
    /\ (node[r] = node[s]) <=> (host[r] = host[s])

\* CollNet is adopted all-or-nothing: ranks that finished initialisation
\* agree on collNetSupport, and a rank without it holds no CollNet
\* transport resources (checkCollNetSetup frees and clears them).
CollNetAllOrNothing ==
  \A r, s \in Ranks :
    /\ pc[r] = "done" /\ pc[s] = "done" => collNetSupport[r] = collNetSupport[s]
    /\ pc[r] = "done" /\ ~collNetSupport[r] => res[r] = {}

\* A rank that finished with collNetSupport has, for every logic channel,
\* a connected recv connector at its recv master and a connected send
\* connector at its send master.
SupportImpliesConnected ==
  \A r \in Ranks : pc[r] = "done" /\ collNetSupport[r] =>
    \A c \in 0..LogicChannels(r)-1 :
      /\ <<LogicChannels(r) + c, "recv">> \in conn[RecvMaster(r)]
      /\ <<c, "send">> \in conn[SendMaster(r)]

\* Every connect-info message a recv master sends with bootstrapSend has
\* been received by the time every rank has finished initialising.
NoStrandedConnectInfo ==
  (\A r \in Ranks : pc[r] = "done") => \A p \in Ranks \X Ranks : mail[p] = <<>>

\* Spec section 5 (CPU affinity): however initTransportsRank returns, with
\* success or an error, it has restored the CPU affinity it saved before ncclTopoSetAffinity,
\* so no failed init leaves the caller's thread pinned near the GPU.
AffinityRestored == \A r \in Ranks : pc[r] \in {"done", "failed"} => ~pinned[r]

\* Every rank's initTransportsRank eventually returns, with success or an
\* error; no rank stays blocked in a bootstrap exchange or bootstrapRecv.
InitTerminates == <>(\A r \in Ranks : pc[r] \in {"done", "failed"})


-----------------------------------------------------------------------------
(***************************************************************************)
(* Refinement mapping to RendezvousAbstract.  A rank's proposal is the     *)
(* nChannels it publishes in AllGather3.  The agreement is the first       *)
(* AllGather3 to return: a reconciled rank's nChannels and nNodes.  The    *)
(* CollNet decision is taken when the last rank enters checkCollNetSetup's *)
(* AllGather: from then on the failure flags it gathers are fixed.         *)
(***************************************************************************)
EnteredCheck(r) == \E k \in 1..Len(log[r]) : log[r][k] = "CheckCollNetSetup"

AbsChans == IF \E r \in Ranks : Reconciled(r)
            THEN nChannels[CHOOSE r \in Ranks : Reconciled(r)] ELSE 0
AbsNodes == IF \E r \in Ranks : Reconciled(r)
            THEN nNodes[CHOOSE r \in Ranks : Reconciled(r)] ELSE 0
AbsDecision == IF \A r \in Ranks : EnteredCheck(r)
               THEN IF \E s \in Ranks : cnFail[s] THEN "skip" ELSE "use"
               ELSE "undecided"
AbsOut == [r \in Ranks |-> CASE pc[r] = "done"   -> "done"
                             [] pc[r] = "failed" -> "failed"
                             [] OTHER            -> "running"]

Abs == INSTANCE RendezvousAbstract
         WITH Ranks <- Ranks, Hosts <- Hosts, ChannelCounts <- ChannelCounts,
              hostOf <- host, proposal <- nCh3, chans <- AbsChans,
              nodes <- AbsNodes, decision <- AbsDecision, out <- AbsOut,
              support <- collNetSupport

\* initTransportsRank implements the abstract rendezvous: every step of the
\* ranks' threads is a proposal, the agreement, the CollNet decision, a
\* rank returning with that decision, or changes none of them; and every
\* rank returns once the channel count is agreed.
RendezvousRefinement == Abs!Spec

===============================================================================
