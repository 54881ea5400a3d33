------------------------- MODULE RendezvousAbstract -------------------------
(***************************************************************************)
(* What the rendezvous of initTransportsRank promises its callers, without *)
(* the bootstrap exchanges that implement it.  Every rank proposes the     *)
(* channel count its own topology search found; one agreement, made once   *)
(* all have proposed, fixes the communicator's channel count to the        *)
(* smallest proposal and its node count to the number of distinct hosts.   *)
(* At most one CollNet decision is taken, before any rank has returned,    *)
(* and each rank returns, with success or an error, with collNetSupport   *)
(* equal to that decision (FALSE when no decision was taken).  A rank may  *)
(* also fail at any point before it returns.                               *)
(***************************************************************************)
EXTENDS Naturals, FiniteSets, FiniteSetsExt

CONSTANTS
  Ranks,          \* the ranks of the communicator
  Hosts,          \* host identities
  ChannelCounts   \* channel counts a topology search may find

VARIABLES
  hostOf,         \* the host of each rank (fixed)
  proposal,       \* the channel count each rank proposed, 0 before
  chans,          \* the agreed channel count, 0 before the agreement
  nodes,          \* the agreed node count, 0 before the agreement
  decision,       \* "undecided", "use" or "skip" (CollNet)
  out,            \* "running", "done" or "failed" for each rank
  support         \* the collNetSupport each rank returned with

avars == <<hostOf, proposal, chans, nodes, decision, out, support>>

Init ==
  /\ hostOf \in [Ranks -> Hosts]
  /\ proposal = [r \in Ranks |-> 0]
  /\ chans = 0 /\ nodes = 0
  /\ decision = "undecided"
  /\ out = [r \in Ranks |-> "running"]
  /\ support = [r \in Ranks |-> FALSE]

Propose(r) ==
  /\ out[r] = "running" /\ proposal[r] = 0
  /\ \E c \in ChannelCounts : proposal' = [proposal EXCEPT ![r] = c]
  /\ UNCHANGED <<hostOf, chans, nodes, decision, out, support>>

Fail(r) ==
  /\ out[r] = "running"
  /\ out' = [out EXCEPT ![r] = "failed"]
  /\ UNCHANGED <<hostOf, proposal, chans, nodes, decision, support>>

Agree ==
  /\ chans = 0
  /\ \A r \in Ranks : proposal[r] # 0
  /\ chans' = Min({proposal[r] : r \in Ranks})
  /\ nodes' = Cardinality({hostOf[r] : r \in Ranks})
  /\ UNCHANGED <<hostOf, proposal, decision, out, support>>

Decide ==
  /\ chans # 0 /\ decision = "undecided"
  /\ \A r \in Ranks : out[r] = "running"
  /\ decision' \in {"use", "skip"}
  /\ UNCHANGED <<hostOf, proposal, chans, nodes, out, support>>

Finish(r) ==
  /\ chans # 0 /\ out[r] = "running"
  /\ \E o \in {"done", "failed"} : out' = [out EXCEPT ![r] = o]
  /\ support' = [support EXCEPT ![r] = (decision = "use")]
  /\ UNCHANGED <<hostOf, proposal, chans, nodes, decision>>

Next ==
  \/ Agree \/ Decide
  \/ \E r \in Ranks : Propose(r) \/ Fail(r) \/ Finish(r)

\* Once every rank has proposed, the agreement is made; once it is made,
\* every rank returns.
Spec ==
  /\ Init /\ [][Next]_avars
  /\ WF_avars(Agree)
  /\ \A r \in Ranks : WF_avars(Finish(r))

===============================================================================
