------------------------------- MODULE NetInit -------------------------------
(***************************************************************************)
(* Library once-initialisation (src/src/init.cc 62-141).  Every entry      *)
(* point that needs the network (ncclGetUniqueId, ncclCommInitRankDev)     *)
(* calls ncclInit, a double-checked lock: an unlocked read of              *)
(* `initialized`, then initLock, a second read, and initNet, which picks   *)
(* the network in the order plugin, IB, socket.                            *)
(*                                                                         *)
(* The outcome of every external initialisation (bootstrapNetInit, the     *)
(* plugin's dlopen/dlsym/init, IB, socket) is an input chosen once in      *)
(* Init: the library's environment does not change between calls.         *)
(***************************************************************************)
EXTENDS Naturals

CONSTANTS
  Threads,        \* application threads calling into the library
  MaxCalls,       \* entry-point calls per thread
  BootNetResults, \* outcomes of bootstrapNetInit: TRUE = ncclSuccess
  PluginResults,  \* outcomes of loading librccl-net.so
  CollNetResults, \* outcomes of the plugin's CollNet symbol and init
  IbResults,      \* outcomes of initNet(&ncclNetIb)
  SocketResults,  \* outcomes of initNet(&ncclNetSocket)
  NoThread        \* model value: initLock is free

ASSUME
  /\ MaxCalls \in Nat \ {0}
  /\ BootNetResults \subseteq BOOLEAN /\ IbResults \subseteq BOOLEAN
  /\ SocketResults \subseteq BOOLEAN
  /\ PluginResults \subseteq {"absent", "nosym", "fail", "ok"}
  /\ CollNetResults \subseteq {"nosym", "fail", "ok"}
  /\ NoThread \notin Threads

VARIABLES
  env,          \* the outcomes of the external initialisations
  initialized,  \* static bool initialized
  owner,        \* holder of initLock, or NoThread
  ncclNet,      \* "none" (NULL), "plugin", "ib" or "socket"
  ncclCollNet,  \* "none" (NULL) or "plugin"
  pc,           \* where each thread is in ncclInit
  calls,        \* entry-point calls each thread has made
  ret,          \* what ncclInit last returned to each thread
  netInits      \* how many times the body of the critical section ran

vars == <<env, initialized, owner, ncclNet, ncclCollNet, pc, calls, ret, netInits>>

Env == [bootNet : BootNetResults, plugin : PluginResults,
        collNet : CollNetResults, ib : IbResults, socket : SocketResults]

(***************************************************************************)
(* initNetPlugin (78-108): no library or no symbol leaves both pointers    *)
(* NULL; a plugin whose net initialises is taken, with its CollNet when    *)
(* that symbol exists and initialises.  It always returns ncclSuccess.     *)
(***************************************************************************)
InitNetPlugin(e) ==
  IF e.plugin = "ok"
  THEN [net |-> "plugin", collNet |-> IF e.collNet = "ok" THEN "plugin" ELSE "none"]
  ELSE [net |-> "none", collNet |-> "none"]

\* Fault model: the IB/socket fallback runs even when the plugin was taken.
InitNetSelectNoEarlyReturn(e) ==
  LET p == InitNetPlugin(e)
  IN CASE ~e.bootNet -> [ok |-> FALSE, net |-> "none", collNet |-> "none"]
       [] e.ib       -> [ok |-> TRUE, net |-> "ib", collNet |-> p.collNet]
       [] e.socket   -> [ok |-> TRUE, net |-> "socket", collNet |-> p.collNet]
       [] OTHER      -> [ok |-> FALSE, net |-> "none", collNet |-> p.collNet]

(***************************************************************************)
(* initNet() (110-122): bootstrapNetInit, then the plugin, then IB, then   *)
(* socket.  A failing bootstrap network or socket returns an error through *)
(* NCCLCHECK; ncclNet is then left as the plugin search left it (NULL).    *)
(***************************************************************************)
InitNetSelect(e) ==
  LET p == InitNetPlugin(e)
  IN CASE ~e.bootNet          -> [ok |-> FALSE, net |-> "none", collNet |-> "none"]
       [] p.net = "plugin"    -> [ok |-> TRUE, net |-> "plugin", collNet |-> p.collNet]
       [] e.ib                -> [ok |-> TRUE, net |-> "ib", collNet |-> p.collNet]
       [] e.socket            -> [ok |-> TRUE, net |-> "socket", collNet |-> p.collNet]
       [] OTHER               -> [ok |-> FALSE, net |-> "none", collNet |-> p.collNet]

Init ==
  /\ env \in Env
  /\ initialized = FALSE
  /\ owner = NoThread
  /\ ncclNet = "none" /\ ncclCollNet = "none"
  /\ pc = [t \in Threads |-> "idle"]
  /\ calls = [t \in Threads |-> 0]
  /\ ret = [t \in Threads |-> "none"]
  /\ netInits = 0

\* ncclGetUniqueId (152) or ncclCommInitRankDev (1164) enter ncclInit, whose
\* first line reads `initialized` without the lock (131).
FastPath(t) ==
  /\ pc[t] = "idle" /\ calls[t] < MaxCalls
  /\ calls' = [calls EXCEPT ![t] = @ + 1]
  /\ IF initialized
     THEN /\ ret' = [ret EXCEPT ![t] = "ok"]
          /\ UNCHANGED pc
     ELSE /\ pc' = [pc EXCEPT ![t] = "lock"]
          /\ UNCHANGED ret
  /\ UNCHANGED <<env, initialized, owner, ncclNet, ncclCollNet, netInits>>

\* pthread_mutex_lock (132): blocks while any thread, this one included,
\* holds the default (non-recursive) mutex.
Lock(t) ==
  /\ pc[t] = "lock" /\ owner = NoThread
  /\ owner' = t
  /\ pc' = [pc EXCEPT ![t] = "check"]
  /\ UNCHANGED <<env, initialized, ncclNet, ncclCollNet, calls, ret, netInits>>

\* Fault model: the second check of `initialized` is left out.
InitUnderLockNoRecheck(t) ==
  LET r == InitNetSelect(env)
  IN /\ pc[t] = "check"
     /\ netInits' = netInits + 1
     /\ ncclNet' = r.net /\ ncclCollNet' = r.collNet
     /\ IF r.ok
        THEN /\ initialized' = TRUE /\ pc' = [pc EXCEPT ![t] = "unlock"]
             /\ UNCHANGED ret
        ELSE /\ pc' = [pc EXCEPT ![t] = "idle"] /\ ret' = [ret EXCEPT ![t] = "error"]
             /\ UNCHANGED initialized
     /\ UNCHANGED <<env, owner, calls>>

(***************************************************************************)
(* The critical section (133-138): a second read of `initialized`; if it   *)
(* is still FALSE, initEnv and initNet.  NCCLCHECK(initNet()) returns the  *)
(* error at once, before the unlock at 139, so the thread leaves ncclInit  *)
(* still holding initLock.                                                 *)
(***************************************************************************)
InitUnderLock(t) ==
  LET r == InitNetSelect(env)
  IN /\ pc[t] = "check"
     /\ IF initialized
        THEN /\ pc' = [pc EXCEPT ![t] = "unlock"]
             /\ UNCHANGED <<initialized, ncclNet, ncclCollNet, ret, netInits>>
        ELSE /\ netInits' = netInits + 1
             /\ ncclNet' = r.net /\ ncclCollNet' = r.collNet
             /\ IF r.ok
                THEN /\ initialized' = TRUE /\ pc' = [pc EXCEPT ![t] = "unlock"]
                     /\ UNCHANGED ret
                ELSE /\ pc' = [pc EXCEPT ![t] = "idle"]
                     /\ ret' = [ret EXCEPT ![t] = "error"]
                     /\ UNCHANGED initialized
     /\ UNCHANGED <<env, owner, calls>>

\* Fault model: the mutex is not released.
UnlockKeepsLock(t) ==
  /\ pc[t] = "unlock"
  /\ pc' = [pc EXCEPT ![t] = "idle"]
  /\ ret' = [ret EXCEPT ![t] = "ok"]
  /\ UNCHANGED <<env, initialized, owner, ncclNet, ncclCollNet, calls, netInits>>

\* pthread_mutex_unlock and return ncclSuccess (139-140).
Unlock(t) ==
  /\ pc[t] = "unlock"
  /\ owner' = NoThread
  /\ pc' = [pc EXCEPT ![t] = "idle"]
  /\ ret' = [ret EXCEPT ![t] = "ok"]
  /\ UNCHANGED <<env, initialized, ncclNet, ncclCollNet, calls, netInits>>

ThreadStep(t) == FastPath(t) \/ Lock(t) \/ InitUnderLock(t) \/ Unlock(t)

Next == \E t \in Threads : ThreadStep(t)

\* Each thread runs on its own; a thread waiting for initLock is enabled
\* whenever the lock is free, and the other threads make finitely many calls.
Spec == Init /\ [][Next]_vars /\ \A t \in Threads : WF_vars(ThreadStep(t))

-----------------------------------------------------------------------------

\* Double-checked locking: however the unlocked reads of `initialized`
\* interleave with the critical section, the networks are initialised at
\* most once (a second initNet would re-run the plugin's and IB's init).
NetInitializedOnce == netInits <= 1

\* Once initialised, ncclNet is the first of plugin, IB, socket whose
\* initialisation succeeded, and a CollNet is used only with the plugin's net.
NetOrder == <<"plugin", "ib", "socket">>
Works(e, n) ==
  CASE n = "plugin" -> e.plugin = "ok" [] n = "ib" -> e.ib [] n = "socket" -> e.socket
SelectedNetIsFirstWorking ==
  initialized =>
    /\ \E i \in 1..3 : /\ ncclNet = NetOrder[i] /\ Works(env, NetOrder[i])
                       /\ \A j \in 1..i-1 : ~Works(env, NetOrder[j])
    /\ ncclCollNet = "plugin" => ncclNet = "plugin"

\* Every call into ncclInit returns: no thread waits on initLock forever.
CallsReturn == \A t \in Threads : pc[t] # "idle" ~> pc[t] = "idle"

===============================================================================
