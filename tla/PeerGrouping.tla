---------------------------- MODULE PeerGrouping ----------------------------
(***************************************************************************)
(* The deterministic scans that every rank of initTransportsRank           *)
(* (src/src/init.cc) runs over the arrays returned by its bootstrap        *)
(* AllGathers, written as operators that follow the C loops step by step,  *)
(* and checked against declarative reference definitions over every small  *)
(* input.  Every rank runs the same scan over the same gathered array, so  *)
(* a scan that computes the reference value computes the same value on    *)
(* every rank.                                                             *)
(***************************************************************************)
EXTENDS Integers, Sequences, FiniteSets, FiniteSetsExt, Functions

CONSTANTS
  NR,          \* nranks of the arrays checked here
  HostIds,     \* values of peerInfo.hostHash
  PidIds,      \* values of peerInfo.pidHash
  MaxChannels  \* MAXCHANNELS

ASSUME NR \in Nat \ {0} /\ MaxChannels \in Nat /\ MaxChannels % 2 = 0

Rk == 0 .. NR-1

\* Fault model: intraRank0 taken at every match, not only the first.
IntraScanLastRank0(host, pid, me) ==
  LET RECURSIVE Step(_)
      Step(i) ==
        IF i = 0
        THEN [intraRank0 |-> -1, intraRank |-> -1, intraRanks |-> 0,
              tmpNnodes |-> 1, otherHostHash |-> host[me]]
        ELSE LET s == Step(i-1)
                 j == i-1
             IN IF host[j] = host[me]
                THEN IF pid[j] = pid[me]
                     THEN [s EXCEPT !.intraRank0 = j,
                             !.intraRank  = IF j = me THEN s.intraRanks ELSE @,
                             !.intraRanks = @ + 1]
                     ELSE s
                ELSE IF s.tmpNnodes = 1
                     THEN [s EXCEPT !.otherHostHash = host[j], !.tmpNnodes = 2]
                     ELSE IF s.tmpNnodes = 2 /\ s.otherHostHash # host[j]
                          THEN [s EXCEPT !.tmpNnodes = 3]
                          ELSE s
  IN Step(NR)

(***************************************************************************)
(* AllGather1 scan (init.cc 776-799): intra-process rank of `me`, the      *)
(* first rank of its process, the number of ranks in its process, and the  *)
(* node-count heuristic tmpNnodes (1, 2, or 3 meaning "more than 2").      *)
(* The loop state is a record; Step(i) is the state after ranks 0..i-1.    *)
(***************************************************************************)
IntraScan(host, pid, me) ==
  LET RECURSIVE Step(_)
      Step(i) ==
        IF i = 0
        THEN [intraRank0 |-> -1, intraRank |-> -1, intraRanks |-> 0,
              tmpNnodes |-> 1, otherHostHash |-> host[me]]
        ELSE LET s == Step(i-1)
                 j == i-1
             IN IF host[j] = host[me]
                THEN IF pid[j] = pid[me]
                     THEN [s EXCEPT
                             !.intraRank0 = IF s.intraRanks = 0 THEN j ELSE @,
                             !.intraRank  = IF j = me THEN s.intraRanks ELSE @,
                             !.intraRanks = @ + 1]
                     ELSE s
                ELSE IF s.tmpNnodes = 1
                     THEN [s EXCEPT !.otherHostHash = host[j], !.tmpNnodes = 2]
                     ELSE IF s.tmpNnodes = 2 /\ s.otherHostHash # host[j]
                          THEN [s EXCEPT !.tmpNnodes = 3]
                          ELSE s
  IN Step(NR)

\* Reference: the ranks sharing `me`'s host and process, and the number of
\* distinct hosts capped at 3.
IntraRef(host, pid, me) ==
  LET same == {j \in Rk : host[j] = host[me] /\ pid[j] = pid[me]}
      nh   == Cardinality({host[j] : j \in Rk})
  IN [intraRank0 |-> Min(same),
      intraRank  |-> Cardinality({j \in same : j < me}),
      intraRanks |-> Cardinality(same),
      tmpNnodes  |-> IF nh > 3 THEN 3 ELSE nh]

\* Fault model: a new node takes the incremented count (++nNodes).
NodeScanPreIncrement(firstRank) ==
  LET RECURSIVE Step(_)
      Step(i) ==
        IF i = 0 THEN [nodesFirstRank |-> <<>>, node |-> [r \in Rk |-> -1]]
        ELSE LET s  == Step(i-1)
                 j  == i-1
                 nf == s.nodesFirstRank
                 hit == {n \in 0..Len(nf)-1 : nf[n+1] = firstRank[j]}
             IN IF hit = {}
                THEN [nodesFirstRank |-> Append(nf, firstRank[j]),
                      node |-> [s.node EXCEPT ![j] = Len(nf) + 1]]
                ELSE [s EXCEPT !.node[j] = Max(hit)]
      final == Step(NR)
  IN [nNodes |-> Len(final.nodesFirstRank), node |-> final.node]

(***************************************************************************)
(* AllGather3 scan (init.cc 965-982): nodesFirstRank collects the distinct *)
(* values of topoRanks.ringRecv[0] in the order they are met; the node of  *)
(* rank i is the position of its value in that list.                       *)
(***************************************************************************)
NodeScan(firstRank) ==
  LET RECURSIVE Step(_)
      Step(i) ==
        IF i = 0 THEN [nodesFirstRank |-> <<>>, node |-> [r \in Rk |-> -1]]
        ELSE LET s  == Step(i-1)
                 j  == i-1
                 nf == s.nodesFirstRank
                 hit == {n \in 0..Len(nf)-1 : nf[n+1] = firstRank[j]}
             IN IF hit = {}
                THEN [nodesFirstRank |-> Append(nf, firstRank[j]),
                      node |-> [s.node EXCEPT ![j] = Len(nf)]]
                ELSE [s EXCEPT !.node[j] = Max(hit)]
      final == Step(NR)
  IN [nNodes |-> Len(final.nodesFirstRank), node |-> final.node]

\* Reference: one node per distinct first rank, numbered by first occurrence.
NodeRef(firstRank) ==
  LET FirstOcc(j) == Min({k \in Rk : firstRank[k] = firstRank[j]})
  IN [nNodes |-> Cardinality({firstRank[j] : j \in Rk}),
      node   |-> [j \in Rk |-> Cardinality({firstRank[k] : k \in 0..FirstOcc(j)-1})]]

\* Fault model: the ring rotated the wrong way.
SetupChannelRingBackward(ringRanks, rank) ==
  LET n     == Len(ringRanks)
      shift == IF \E k \in 1..n : ringRanks[k] = rank
               THEN Min({k \in 1..n : ringRanks[k] = rank}) - 1
               ELSE n
  IN [i \in 1..n |-> ringRanks[((i-1-shift) % n) + 1]]

(***************************************************************************)
(* setupChannel (init.cc 498-514): rotate the ring so it starts at `rank`. *)
(***************************************************************************)
SetupChannelRing(ringRanks, rank) ==
  LET n     == Len(ringRanks)
      shift == IF \E k \in 1..n : ringRanks[k] = rank
               THEN Min({k \in 1..n : ringRanks[k] = rank}) - 1
               ELSE n
  IN [i \in 1..n |-> ringRanks[((i-1+shift) % n) + 1]]

\* Reference: the rotation of the ring whose first element is `rank`.
RotationRef(ringRanks, rank) ==
  LET n == Len(ringRanks)
  IN CHOOSE u \in [1..n -> Range(ringRanks)] :
       /\ u[1] = rank
       /\ \E k \in 0..n-1 : \A i \in 1..n : u[i] = ringRanks[((i-1+k) % n) + 1]

\* Fault model: the duplicates moved down in descending order.
CompactDescending(channels, nOrig, n) ==
  LET RECURSIVE Move(_, _)
      Move(ch, i) ==
        IF i = 0 THEN ch
        ELSE Move([ch EXCEPT ![n+i-1] = ch[nOrig+i-1]], i-1)
  IN IF n < nOrig THEN Move(channels, n) ELSE channels

(***************************************************************************)
(* Channel compaction (init.cc 1026-1030).  ncclTopoPreset has duplicated   *)
(* channel c into slot c+nChannelsOrig; after AllGather3 reduced the count *)
(* to nChannels the duplicates are moved down one memcpy at a time, in     *)
(* ascending order.                                                        *)
(***************************************************************************)
Compact(channels, nOrig, n) ==
  LET RECURSIVE Move(_, _)
      Move(ch, i) ==
        IF i = n THEN ch
        ELSE Move([ch EXCEPT ![n+i] = ch[nOrig+i]], i+1)
  IN IF n < nOrig THEN Move(channels, 0) ELSE channels

\* Channel slots as ncclTopoPreset leaves them: slot c and its duplicate
\* c+n hold the lane c; NoLane marks an unused slot.
NoLane == -1
Preset(n) == [c \in 0..MaxChannels-1 |-> IF c < 2*n THEN c % n ELSE NoLane]


\* Ordered pairs of distinct ranks: the arguments of hipDeviceCanAccessPeer.
Pairs == {p \in Rk \X Rk : p[1] # p[2]}

\* Fault model: each pair queried in one direction only (j > i).
PeerAccessScanUpper(canAccess, n) ==
  LET RECURSIVE Inner(_, _), Outer(_, _)
      Inner(i, j) == IF j >= n THEN TRUE
                     ELSE IF j <= i THEN Inner(i, j+1)
                     ELSE canAccess[<<i, j>>] /\ Inner(i, j+1)
      Outer(i, ok) == IF i >= n \/ ~ok THEN ok ELSE Outer(i+1, Inner(i, 0))
  IN Outer(0, TRUE)

(***************************************************************************)
(* The peer-access loop of the clique-mode choice (init.cc 835-849):       *)
(* hasPeerAccess starts TRUE; for each i while it holds, the inner loop    *)
(* over j skips i == j and, at the first pair whose hipDeviceCanAccessPeer *)
(* fails or answers 0, clears it and breaks.  canAccess[<<i, j>>] is FALSE *)
(* for either outcome.                                                     *)
(***************************************************************************)
PeerAccessScan(canAccess, n) ==
  LET RECURSIVE Inner(_, _), Outer(_, _)
      Inner(i, j) == IF j >= n THEN TRUE
                     ELSE IF i = j THEN Inner(i, j+1)
                     ELSE canAccess[<<i, j>>] /\ Inner(i, j+1)
      Outer(i, ok) == IF i >= n \/ ~ok THEN ok ELSE Outer(i+1, Inner(i, 0))
  IN Outer(0, TRUE)

(***************************************************************************)
(* The clique mode (init.cc 830-868): only when every rank is in this      *)
(* process; the inner intraRanks == nranks test always holds there, so     *)
(* CLIQUE_SINGLE_NODE is never chosen.  Without RCCL_FORCE_ENABLE_CLIQUE   *)
(* the mode is disabled unless the topology is CR8G with a GPU per rank   *)
(* (cr8g).                                                                 *)
(***************************************************************************)
CliqueModeOf(canAccess, nranks, intraRanks, force, cr8g) ==
  IF intraRanks # nranks THEN "DISABLED"
  ELSE LET found == IF PeerAccessScan(canAccess, nranks)
                    THEN IF intraRanks = nranks THEN "SINGLE_PROCESS" ELSE "SINGLE_NODE"
                    ELSE "DISABLED"
       IN IF ~force /\ ~cr8g THEN "DISABLED" ELSE found

\* Reference: clique kernels when all ranks share the process, every GPU can
\* access every other, and the topology allows it or the user forces it.
CliqueRef(canAccess, nranks, intraRanks, force, cr8g) ==
  IF /\ intraRanks = nranks
     /\ \A p \in Pairs : canAccess[p]
     /\ force \/ cr8g
  THEN "SINGLE_PROCESS" ELSE "DISABLED"

===============================================================================
