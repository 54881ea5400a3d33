------------------------------ MODULE CollTrace ------------------------------
(***************************************************************************)
(* The collective trace thread of a communicator (src/src/init.cc 168-265, *)
(* built with ENABLE_COLLTRACE), and how commFree stops it (319-322).      *)
(*                                                                         *)
(* The GPU kernels write trace entries into a ring of COLLTRACE_NUM_ITEMS  *)
(* slots in host memory.  That device code is not in this repository; it  *)
(* is modelled as the environment: a block claims the next position by an  *)
(* atomic increment of *collTraceTail, fills the slot, and stores its type *)
(* last, so a slot reads as ncclCollTraceNotReady until it is complete.    *)
(* The host thread ncclCommThreadMain keeps its own head, reads the tail,  *)
(* prints the ready entries from head on, marks each printed slot          *)
(* NotReady again, and stops when it finds nothing to print and           *)
(* collTraceExit set.  commFree sets collTraceExit and joins the thread.   *)
(***************************************************************************)
EXTENDS Naturals, Sequences

CONSTANTS
  NumItems,    \* COLLTRACE_NUM_ITEMS
  Blocks,      \* GPU blocks writing trace entries
  Entries,     \* trace entries the kernels write over the comm's life
  MaxPending   \* most entries written and not yet printed the kernels run ahead

ASSUME /\ NumItems \in Nat \ {0} /\ Entries \in Nat
       /\ MaxPending \in 1..NumItems

Slots == 0 .. NumItems-1

VARIABLES
  tail,      \* *collTraceTail: positions claimed so far
  slot,      \* the ring: ready flag and the entry (its position + 1) of each slot
  claim,     \* the position + 1 a block has claimed and not yet completed, or 0
  exitFlag,  \* collTraceExit
  head,      \* the thread's local head
  count,     \* entries the thread computed from head and tail
  tpc,       \* "read", "exit", "item" (in the for loop), "ended"
  printed,   \* the entries the thread printed, in order
  joined     \* commFree's pthread_join has returned

vars == <<tail, slot, claim, exitFlag, head, count, tpc, printed, joined>>

Init ==
  /\ tail = 0   \* commAlloc zeroes the tail, the ring and the exit flag (414-423)
  /\ slot = [s \in Slots |-> [ready |-> FALSE, entry |-> 0]]
  /\ claim = [b \in Blocks |-> 0]
  /\ exitFlag = FALSE
  /\ head = 0 /\ count = 0
  /\ tpc = "read"
  /\ printed = <<>>
  /\ joined = FALSE

-----------------------------------------------------------------------------
(* The GPU side (environment).                                             *)

\* A block claims the next position while the kernels are not more than
\* MaxPending entries ahead of the printer.
Claim(b) ==
  /\ claim[b] = 0 /\ tail < Entries /\ ~exitFlag
  /\ tail - Len(printed) < MaxPending
  /\ claim' = [claim EXCEPT ![b] = tail + 1]
  /\ tail' = tail + 1
  /\ UNCHANGED <<slot, exitFlag, head, count, tpc, printed, joined>>

\* The block fills its slot and stores the entry's type last.
Complete(b) ==
  /\ claim[b] # 0
  /\ slot' = [slot EXCEPT ![(claim[b] - 1) % NumItems] =
                [ready |-> TRUE, entry |-> claim[b]]]
  /\ claim' = [claim EXCEPT ![b] = 0]
  /\ UNCHANGED <<tail, exitFlag, head, count, tpc, printed, joined>>

-----------------------------------------------------------------------------
(* ncclCommThreadMain.                                                     *)

\* The number of entries from head to the tail (init.cc 191-195).
TraceCount(h, t) == IF h <= t THEN t - h ELSE NumItems + h - t

\* Fault model: the tail used without reducing it modulo the ring size.
ReadTailNoModulo ==
  LET c == TraceCount(head, tail)
  IN /\ tpc = "read"
     /\ count' = c
     /\ tpc' = IF c = 0 THEN "exit" ELSE "item"
     /\ UNCHANGED <<tail, slot, claim, exitFlag, head, printed, joined>>

\* Load the tail and compute the count; with nothing to print, go on to the
\* exit check (190-197).
ReadTail ==
  LET c == TraceCount(head, tail % NumItems)
  IN /\ tpc = "read"
     /\ count' = c
     /\ tpc' = IF c = 0 THEN "exit" ELSE "item"
     /\ UNCHANGED <<tail, slot, claim, exitFlag, head, printed, joined>>

\* With nothing to print: stop if collTraceExit is set, else sleep 1ms and
\* read the tail again (197-203, 256-258).
CheckExit ==
  /\ tpc = "exit"
  /\ tpc' = IF exitFlag THEN "ended" ELSE "read"
  /\ UNCHANGED <<tail, slot, claim, exitFlag, head, count, printed, joined>>

\* Fault model: the printed slot is not marked NotReady.
PrintEntryNoReset ==
  /\ tpc = "item"
  /\ IF ~slot[head].ready
     THEN /\ tpc' = "read"
          /\ UNCHANGED <<head, count, printed>>
     ELSE /\ printed' = Append(printed, slot[head].entry)
          /\ head' = (head + 1) % NumItems
          /\ count' = count - 1
          /\ tpc' = IF count = 1 THEN "read" ELSE "item"
  /\ UNCHANGED <<tail, slot, claim, exitFlag, joined>>

\* One iteration of the for loop (204-254): a slot still NotReady ends the
\* loop; otherwise the entry is printed, its slot marked NotReady, and head
\* advanced modulo the ring size.
PrintEntry ==
  /\ tpc = "item"
  /\ IF ~slot[head].ready
     THEN /\ tpc' = "read"
          /\ UNCHANGED <<slot, head, count, printed>>
     ELSE /\ printed' = Append(printed, slot[head].entry)
          /\ slot' = [slot EXCEPT ![head].ready = FALSE]
          /\ head' = (head + 1) % NumItems
          /\ count' = count - 1
          /\ tpc' = IF count = 1 THEN "read" ELSE "item"
  /\ UNCHANGED <<tail, claim, exitFlag, joined>>

-----------------------------------------------------------------------------
(* commFree (319-322): once the kernels have finished, set collTraceExit   *)
(* and join the thread; the ring is freed after the join.                  *)

StopThread ==
  /\ ~exitFlag
  /\ tail = Entries /\ \A b \in Blocks : claim[b] = 0
  /\ exitFlag' = TRUE
  /\ UNCHANGED <<tail, slot, claim, head, count, tpc, printed, joined>>

Join ==
  /\ exitFlag /\ tpc = "ended" /\ ~joined
  /\ joined' = TRUE
  /\ UNCHANGED <<tail, slot, claim, exitFlag, head, count, tpc, printed>>

Thread == ReadTail \/ CheckExit \/ PrintEntry

Next ==
  \/ \E b \in Blocks : Claim(b) \/ Complete(b)
  \/ Thread \/ StopThread \/ Join

\* The trace thread and commFree run on their own; a block that claimed a
\* slot completes it.  Claiming more entries and destroying the comm are
\* up to the application.
Spec ==
  /\ Init /\ [][Next]_vars
  /\ WF_vars(Thread) /\ WF_vars(Join)
  /\ \A b \in Blocks : WF_vars(Complete(b))

-----------------------------------------------------------------------------

\* The thread prints the trace entries in the order the kernels claimed
\* their positions, each once, and never a slot that is still being
\* written or holds an entry of the previous lap of the ring: the NotReady
\* check and the reset of each printed slot keep it from running past the
\* writers, even when its count overshoots after the ring wraps.
TraceInOrder == printed = [i \in 1 .. Len(printed) |-> i]

\* Once commFree has set collTraceExit, the thread ends and pthread_join
\* returns: with every entry printed the thread's count is 0, and it sees
\* the exit flag.
TraceThreadJoins == exitFlag ~> joined

\* Every entry the kernels wrote has been printed by the time commFree has
\* joined the trace thread.
TraceNoLoss == joined => Len(printed) = Entries

===============================================================================
