--------------------------- MODULE MCPeerGrouping ---------------------------
(***************************************************************************)
(* Checks the scans of PeerGrouping against their reference definitions:   *)
(* the initial state picks one input of one scan, from every small input,  *)
(* and the invariants compare the loop with the reference on it.           *)
(***************************************************************************)
EXTENDS PeerGrouping

VARIABLE input

Perms(S) == {p \in [1..Cardinality(S) -> S] : Range(p) = S}

Inputs ==
       [kind : {"intra"}, host : [Rk -> HostIds], pid : [Rk -> PidIds], me : Rk]
  \cup [kind : {"node"}, firstRank : [Rk -> Rk]]
  \cup [kind : {"ring"}, ringRanks : Perms(Rk), rank : Rk]
  \cup [kind : {"compact"}, nOrig : 1..MaxChannels \div 2, n : 1..MaxChannels \div 2]
  \cup [kind : {"clique"}, canAccess : [Pairs -> BOOLEAN], intraRanks : {NR-1, NR},
        force : BOOLEAN, cr8g : BOOLEAN]

Init == input \in {i \in Inputs : i.kind = "compact" => i.n <= i.nOrig}

Next == UNCHANGED input

Spec == Init /\ [][Next]_input



\* Every rank finds the same intra-process rank 0, its own position among
\* the ranks of its (host, process), their number, and the node-count
\* classification 1 / 2 / more-than-2 that selects the tree pattern
\* (AllGather1 loop of initTransportsRank).
IntraScanCorrect ==
  input.kind = "intra" =>
    LET s == IntraScan(input.host, input.pid, input.me)
    IN [intraRank0 |-> s.intraRank0, intraRank |-> s.intraRank,
        intraRanks |-> s.intraRanks, tmpNnodes |-> s.tmpNnodes]
       = IntraRef(input.host, input.pid, input.me)

\* The AllGather3 node scan numbers the nodes by the first occurrence of
\* their first rank, and counts one node per distinct first rank.
NodeScanCorrect ==
  input.kind = "node" => NodeScan(input.firstRank) = NodeRef(input.firstRank)

\* setupChannel leaves userRanks as the rotation of the ring that starts at
\* the local rank.
RotationCorrect ==
  input.kind = "ring" =>
    SetupChannelRing(input.ringRanks, input.rank) = RotationRef(input.ringRanks, input.rank)

\* When AllGather3 lowers the channel count from nOrig to n, compaction
\* leaves channels 0..n-1 untouched and their duplicates in n..2n-1, so
\* the first 2n slots are exactly what ncclTopoPreset would have built for n.
CompactionKeepsLanes ==
  input.kind = "compact" =>
    LET after == Compact(Preset(input.nOrig), input.nOrig, input.n)
    IN \A c \in 0..2*input.n-1 : after[c] = Preset(input.n)[c]

\* The clique mode the rank's loop over hipDeviceCanAccessPeer chooses is
\* the single-process clique exactly when all ranks share the process,
\* every GPU can access every other one in both directions, and the CR8G
\* topology or RCCL_FORCE_ENABLE_CLIQUE allows it.
CliqueModeCorrect ==
  input.kind = "clique" =>
    CliqueModeOf(input.canAccess, NR, input.intraRanks, input.force, input.cr8g)
      = CliqueRef(input.canAccess, NR, input.intraRanks, input.force, input.cr8g)
===============================================================================
