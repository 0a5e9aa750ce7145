------------------------------ MODULE Startup --------------------------------
(***************************************************************************)
(* How main (server.cc) starts the worker threads and how each takes its   *)
(* event loop and connection tree (initworkThread, threads/threads.c).     *)
(*                                                                         *)
(* After the loop that creates the workers, main initializes               *)
(* lock[THREADCNT], one behind the last mutex of the array.  In the build  *)
(* those bytes are the first of eloopidLock, the next global, with its     *)
(* lock word.  The mutex is followed down to that word: 0 free, 1 locked,  *)
(* 2 locked and perhaps waited for.                                        *)
(***************************************************************************)
EXTENDS Integers, FiniteSets

CONSTANT THREADCNT

ASSUME StartupAssumption == THREADCNT \in Nat \ {0}

Workers == 0..(THREADCNT - 1)

VARIABLES
  i,           \* the loop variable of main
  initialized, \* lock[THREADCNT] has been initialized
  word,        \* the lock word of eloopidLock
  eloopid,
  pc,          \* where a worker is in initworkThread
  eLoop, tree, \* the indices of server->eLoop and server->tree
  tmp,         \* eloopid as read by eloopid++
  overwritten  \* history: a worker was inside when main wrote the word

mainVars == <<i, initialized>>
vars == <<mainVars, word, eloopid, pc, eLoop, tree, tmp, overwritten>>

Inside == {"loop", "tree", "load", "store", "unlock"}

Init ==
  /\ i = 0 /\ initialized = FALSE /\ word = 0 /\ eloopid = 0
  /\ pc = [w \in Workers |-> "none"] /\ overwritten = FALSE
  /\ eLoop = [w \in Workers |-> 0] /\ tree = [w \in Workers |-> 0] /\ tmp = [w \in Workers |-> 0]

Goto(w, label) == pc' = [pc EXCEPT ![w] = label]

------------------------------------------------------------------------------
(* main *)

\* As CreateWorker, but the loop goes one too far.
CreateWorker_OneMore ==
  /\ i <= THREADCNT
  /\ pc' = [w \in Workers |-> IF w = i THEN "start" ELSE pc[w]]
  /\ i' = i + 1
  /\ UNCHANGED <<initialized, word, eloopid, eLoop, tree, tmp, overwritten>>

CreateWorker ==
  /\ i < THREADCNT
  /\ Goto(i, "start")
  /\ i' = i + 1
  /\ UNCHANGED <<initialized, word, eloopid, eLoop, tree, tmp, overwritten>>

InitLock ==
  /\ i = THREADCNT
  /\ ~initialized
  /\ initialized' = TRUE
  /\ word' = 0
  /\ overwritten' = \E w \in Workers : pc[w] \in Inside \cup {"wait"}
  /\ UNCHANGED <<i, eloopid, pc, eLoop, tree, tmp>>

------------------------------------------------------------------------------
(* initworkThread *)

\* As Lock, but the word is not tested.
Lock_NoTest(w) ==
  /\ pc[w] \in {"start", "woken"}
  /\ word' = 1
  /\ Goto(w, "loop")
  /\ UNCHANGED <<mainVars, eloopid, eLoop, tree, tmp, overwritten>>

\* pthread_mutex_lock: take the word, or mark it and sleep.
Lock(w) ==
  /\ pc[w] \in {"start", "woken"}
  /\ word' = IF word = 0 /\ pc[w] = "start" THEN 1 ELSE 2
  /\ Goto(w, IF word = 0 THEN "loop" ELSE "wait")
  /\ UNCHANGED <<mainVars, eloopid, eLoop, tree, tmp, overwritten>>

TakeLoop(w) ==
  /\ pc[w] = "loop"
  /\ eLoop' = [eLoop EXCEPT ![w] = eloopid]
  /\ Goto(w, "tree")
  /\ UNCHANGED <<mainVars, word, eloopid, tree, tmp, overwritten>>

TakeTree(w) ==
  /\ pc[w] = "tree"
  /\ tree' = [tree EXCEPT ![w] = eloopid]
  /\ Goto(w, "load")
  /\ UNCHANGED <<mainVars, word, eloopid, eLoop, tmp, overwritten>>

Load(w) ==
  /\ pc[w] = "load"
  /\ tmp' = [tmp EXCEPT ![w] = eloopid]
  /\ Goto(w, "store")
  /\ UNCHANGED <<mainVars, word, eloopid, eLoop, tree, overwritten>>

Store(w) ==
  /\ pc[w] = "store"
  /\ eloopid' = tmp[w] + 1
  /\ Goto(w, "unlock")
  /\ UNCHANGED <<mainVars, word, eLoop, tree, tmp, overwritten>>

\* As Unlock, but the lock is kept.
Unlock_Missing(w) ==
  /\ pc[w] = "unlock"
  /\ Goto(w, "mainLoop")
  /\ UNCHANGED <<mainVars, word, eloopid, eLoop, tree, tmp, overwritten>>

\* pthread_mutex_unlock: a sleeper is woken only if the word is 2.
Unlock(w) ==
  /\ pc[w] = "unlock"
  /\ word' = 0
  /\ IF word = 2 /\ \E v \in Workers : pc[v] = "wait"
     THEN \E v \in Workers : /\ pc[v] = "wait"
                             /\ pc' = [pc EXCEPT ![w] = "mainLoop", ![v] = "woken"]
     ELSE Goto(w, "mainLoop")
  /\ UNCHANGED <<mainVars, eloopid, eLoop, tree, tmp, overwritten>>

Worker(w) == Lock(w) \/ TakeLoop(w) \/ TakeTree(w) \/ Load(w) \/ Store(w) \/ Unlock(w)

Next == CreateWorker \/ InitLock \/ \E w \in Workers : Worker(w)

\* The operating system schedules every thread.
Spec == /\ Init /\ [][Next]_vars
        /\ WF_vars(CreateWorker \/ InitLock)
        /\ \A w \in Workers : WF_vars(Worker(w))

------------------------------------------------------------------------------
(* Properties *)

\* The types of the variables.  The index with which a worker reads globalEloop
\* and globalconnTree is inside the arrays, also when the lock is overwritten.
TypeOK ==
  /\ i \in 0..THREADCNT /\ initialized \in BOOLEAN /\ word \in 0..2
  /\ eloopid \in 0..THREADCNT /\ overwritten \in BOOLEAN
  /\ pc \in [Workers -> Inside \cup {"none", "start", "wait", "woken", "mainLoop"}]
  /\ eLoop \in [Workers -> Workers] /\ tree \in [Workers -> Workers]
  /\ tmp \in [Workers -> 0..THREADCNT]

HasTaken(w) == pc[w] \in {"load", "store", "unlock", "mainLoop"}

\* The loops and trees are shared out: a worker's loop and tree have the same
\* index, and no two workers have the same.
SharedOut ==
  /\ \A w \in Workers : HasTaken(w) => eLoop[w] = tree[w]
  /\ \A w, v \in Workers : w # v /\ HasTaken(w) /\ HasTaken(v) => tree[w] # tree[v]

\* They are, "each thread has its own connection [t]ree" (threads.c:37), unless
\* main overwrites eloopidLock while a worker uses it.
SharedOutUnlessOverwritten == overwritten \/ SharedOut

\* Every worker reaches mainLoop, unless main overwrites eloopidLock while a
\* worker uses it (a sleeper may then never be woken).
AllWorkersRun == <>(overwritten \/ \A w \in Workers : pc[w] = "mainLoop")
==============================================================================
