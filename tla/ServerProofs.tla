----------------------------- MODULE ServerProofs ----------------------------
(***************************************************************************)
(* For every number of workers and descriptors: the types of Server, that  *)
(* a descriptor has one owner, that connCnt counts the tree, and that only *)
(* the shutdown of another worker frees a connection tcpRead is using.     *)
(***************************************************************************)
EXTENDS Server, FiniteSetTheorems, TLAPS

Adding == {"choose", "add", "new", "inserting"}

\* A descriptor waits in the backlog once and before it is opened; loops and
\* trees hold open descriptors; the one the accept thread is adding is in no
\* tree, and in no loop but the one it was registered with.
Ownership ==
  /\ \A k, l \in 1..Len(backlog) : backlog[k] = backlog[l] => k = l
  /\ \A k \in 1..Len(backlog) : backlog[k] \notin open
  /\ \A w \in Workers : mask[w] \subseteq open /\ tree[w] \subseteq open
  /\ apc \in Adding =>
       /\ connfd \in open
       /\ \A w \in Workers : connfd \notin tree[w]
       /\ \A w \in Workers : apc = "choose" \/ w # minconnsindex => connfd \notin mask[w]

\* The inductive invariant.
IInv == TypeOK /\ Ownership /\ OneOwner /\ CountIsSize

------------------------------------------------------------------------------
\* The clients keep the types.
LEMMA ClientType == TypeOK /\ Client => TypeOK'
<1> SUFFICES ASSUME TypeOK, Client PROVE TypeOK'
  OBVIOUS
<1> USE ServerAssumption
<1>0. UNCHANGED <<events, trees, acceptor, worker>>
  BY Zenon DEF Client
<1>1. PICK f \in Fds : Connect(f) \/ Send(f, "command") \/ Send(f, "shutdown") \/ Hangup(f)
  BY Zenon DEF Client
<1>2. CASE Connect(f)
  <2>1. backlog' \in Seq(Fds)
    BY <1>2 DEF TypeOK, Connect
  <2> QED
    BY <1>0, <1>2, <2>1, ZenonT(60) DEF TypeOK, Connect, events, trees, acceptor, worker
<1>3. ASSUME NEW r \in {"command", "shutdown"}, Send(f, r) PROVE TypeOK'
  <2>1. Append(inbox[f], r) \in Seq({"command", "shutdown"})
    BY DEF TypeOK
  <2>2. inbox' \in [Fds -> Seq({"command", "shutdown"})]
    BY <1>3, <2>1, Zenon DEF TypeOK, Send
  <2>3. asked' \in [Fds -> 0..MaxRequests]
    BY <1>3, SMTT(30) DEF TypeOK, Send
  <2> QED
    BY <1>0, <1>3, <2>2, <2>3, ZenonT(60) DEF TypeOK, Send, events, trees, acceptor, worker
<1>4. CASE Hangup(f)
  BY <1>0, <1>4, SMTT(30) DEF TypeOK, Hangup, events, trees, acceptor, worker
<1> QED
  BY <1>1, <1>2, <1>3, <1>4, Zenon

\* The accept thread keeps the types.
LEMMA AcceptorType == TypeOK /\ Ownership /\ Acceptor => TypeOK'
<1> SUFFICES ASSUME TypeOK, Ownership, Acceptor PROVE TypeOK'
  OBVIOUS
<1> USE DEF TypeOK, AcceptLabels, sockets, events, trees, worker
<1>1. CASE Accept
  <2>1. backlog' \in Seq(Fds) /\ Head(backlog) \in Fds
    BY <1>1 DEF Accept
  <2>2. i' \in 1..THREADCNT /\ minconnsindex' \in Workers
    BY <1>1, ServerAssumption DEF Accept, Workers
  <2> QED
    BY <1>1, <2>1, <2>2, ZenonT(60) DEF Accept
<1>10. CASE AcceptFails
  <2>1. backlog' \in Seq(Fds) /\ Head(backlog) \in Fds
    BY <1>10 DEF AcceptFails
  <2> QED
    BY <1>10, <2>1, ZenonT(60) DEF AcceptFails, acceptor
<1>2. CASE Choose
  <2>1. i' \in 1..THREADCNT /\ i \in Workers
    BY <1>2, ServerAssumption DEF Choose, Workers
  <2>2. minconnsindex' \in Workers
    BY <1>2, <2>1, Zenon DEF Choose
  <2> QED
    BY <1>2, <2>1, <2>2, ZenonT(60) DEF Choose
<1>3. CASE Refuse
  BY <1>3, Zenon DEF Refuse
<1>4. CASE CreateUndefined
  BY <1>4, Zenon DEF CreateUndefined
<1>5. CASE createFileEvent
  <2>1. connfd \in Fds
    BY <1>5, Zenon DEF createFileEvent, Ownership, Adding
  <2> QED
    BY <1>5, <2>1, Zenon DEF createFileEvent
<1>6. CASE aePollAddEvent
  <2>1. connfd \in Fds
    BY <1>6, Zenon DEF aePollAddEvent, Ownership, Adding
  <2> QED
    BY <1>6, <2>1, Zenon DEF aePollAddEvent
<1>7. CASE AddFails
  BY <1>7, Zenon DEF AddFails
<1>8. CASE newConn
  BY <1>8, Zenon DEF newConn
<1>9. CASE newConnEnd
  <2>1. connfd \in Fds
    BY <1>9, Zenon DEF newConnEnd, Ownership, Adding
  <2>2. connCnt' \in [Workers -> Int]
    BY <1>9 DEF newConnEnd
  <2> QED
    BY <1>9, <2>1, <2>2 DEF newConnEnd
<1> QED
  BY <1>1, <1>2, <1>3, <1>4, <1>5, <1>6, <1>7, <1>8, <1>9, <1>10, ZenonT(60) DEF Acceptor

\* The loop of rocksShutdown over the trees stays inside globalconnTree.
LEMMA NextTree == \A t \in Workers : t + 1 < THREADCNT => t + 1 \in Workers
BY ServerAssumption DEF Workers

\* freeConn leaves sets of descriptors and whole numbers.
LEMMA FreeConnType ==
  ASSUME TypeOK, NEW w \in Workers, freeConnEnd(w)
  PROVE  tree' \in [Workers -> SUBSET Fds] /\ connCnt' \in [Workers -> Int]
<1>1. tree \in [Workers -> SUBSET Fds] /\ connCnt \in [Workers -> Int]
  BY Zenon DEF TypeOK
<1>2. \/ UNCHANGED <<tree, connCnt>>
      \/ /\ tree' = [tree EXCEPT ![target[w]] = @ \ {fd[w]}]
         /\ connCnt' = [connCnt EXCEPT ![target[w]] = @ - 1]
  BY Zenon DEF freeConnEnd
<1>3. [tree EXCEPT ![target[w]] = @ \ {fd[w]}] \in [Workers -> SUBSET Fds]
  BY <1>1, Zenon
<1>4. [connCnt EXCEPT ![target[w]] = @ - 1] \in [Workers -> Int]
  <2>1. target[w] \in Workers
    BY Zenon DEF TypeOK
  <2>2. connCnt[target[w]] - 1 \in Int
    BY <1>1, <2>1
  <2> QED
    BY <1>1, <2>1, <2>2, Zenon
<1> QED
  BY <1>1, <1>2, <1>3, <1>4, Zenon

\* A worker keeps the types.
LEMMA WorkerType == ASSUME TypeOK, NEW w \in Workers, Worker(w) PROVE TypeOK'
<1> USE DEF TypeOK, WorkerLabels, Goto, sockets, events, trees, acceptor
<1>1. CASE aePollPoll(w)
  BY <1>1, Zenon DEF aePollPoll, Ready
<1>2. CASE Dispatch(w)
  BY <1>2 DEF Dispatch
<1>3. CASE Search(w)
  BY <1>3, Zenon DEF Search
<1>4. CASE SearchEnd(w)
  BY <1>4, Zenon DEF SearchEnd
<1>5. CASE ReadCommand(w)
  <2>1. \A f \in Fds : inbox[f] # <<>> => Tail(inbox[f]) \in Seq({"command", "shutdown"})
    OBVIOUS
  <2>2. inbox' \in [Fds -> Seq({"command", "shutdown"})]
    BY <1>5, <2>1, Zenon DEF ReadCommand
  <2> QED
    BY <1>5, <2>2, Zenon DEF ReadCommand, worker
<1>6. CASE ReadAgain(w)
  BY <1>6, Zenon DEF ReadAgain
<1>7. CASE ReadShutdown(w)
  <2>1. \A f \in Fds : inbox[f] # <<>> => Tail(inbox[f]) \in Seq({"command", "shutdown"})
    OBVIOUS
  <2>2. inbox' \in [Fds -> Seq({"command", "shutdown"})]
    BY <1>7, <2>1, ZenonT(60) DEF ReadShutdown
  <2>3. 0 \in Workers
    BY ServerAssumption DEF Workers
  <2> QED
    BY <1>7, <2>2, <2>3, Zenon DEF ReadShutdown
<1>8. CASE deleteFileEvent(w)
  BY <1>8, Zenon DEF deleteFileEvent
<1>13. CASE DeleteFails(w)
  BY <1>13, Zenon DEF DeleteFails
<1>9. CASE freeConn(w)
  BY <1>9, Zenon DEF freeConn
<1>10. CASE freeConnEnd(w)
  <2>1. tree' \in [Workers -> SUBSET Fds] /\ connCnt' \in [Workers -> Int]
    BY <1>10, FreeConnType, Zenon
  <2>2. wpc' \in [Workers -> WorkerLabels] /\ connLock' \in Workers \cup {None}
    BY <1>10, Zenon DEF freeConnEnd
  <2>3. UNCHANGED <<sockets, events, acceptor, fired, fd, target, stopping, exited>>
    BY <1>10, Zenon DEF freeConnEnd
  <2> QED
    BY <2>1, <2>2, <2>3, Zenon
<1>11. CASE freeConns(w)
  BY <1>11 DEF freeConns
<1>12. CASE freeConnsEnd(w)
  <2>1. target[w] + 1 < THREADCNT => target[w] + 1 \in Workers
    BY NextTree, Zenon
  <2>2. target' \in [Workers -> Workers] /\ exited' \in BOOLEAN
    BY <1>12, <2>1, ZenonT(60) DEF freeConnsEnd
  <2> QED
    BY <1>12, <2>2 DEF freeConnsEnd
<1> QED
  BY <1>1, <1>2, <1>3, <1>4, <1>5, <1>6, <1>7, <1>8, <1>9, <1>10, <1>11, <1>12, <1>13, Zenon DEF Worker

------------------------------------------------------------------------------
\* The clients and everything that leaves loops, trees and counters alone.
LEMMA ClientOwnership ==
  IInv /\ Client => Ownership' /\ OneOwner' /\ CountIsSize'
<1> SUFFICES ASSUME IInv, Client PROVE Ownership' /\ OneOwner' /\ CountIsSize'
  OBVIOUS
<1>0. UNCHANGED <<events, trees, acceptor, open>>
  BY Zenon DEF Client, Connect, Send, Hangup
<1>1. OneOwner' /\ CountIsSize'
  BY <1>0, Zenon DEF IInv, OneOwner, CountIsSize, events, trees
<1>2. /\ \A k, l \in 1..Len(backlog') : backlog'[k] = backlog'[l] => k = l
      /\ \A k \in 1..Len(backlog') : backlog'[k] \notin open
  <2>1. CASE UNCHANGED backlog
    BY <2>1, Zenon DEF IInv, Ownership
  <2>2. ASSUME NEW f \in Fds, Connect(f)
        PROVE  /\ \A k, l \in 1..Len(backlog') : backlog'[k] = backlog'[l] => k = l
               /\ \A k \in 1..Len(backlog') : backlog'[k] \notin open
    <3>1. f \notin open /\ \A k \in 1..Len(backlog) : backlog[k] # f
      BY <2>2, Zenon DEF Connect, Connected, Waiting
    <3>2. backlog \in Seq(Fds) /\ backlog' = Append(backlog, f)
      BY <2>2, Zenon DEF Connect, IInv, TypeOK
    <3> QED
      BY <3>1, <3>2 DEF IInv, Ownership
  <2> QED
    BY <2>1, <2>2, Zenon DEF Client, Send, Hangup
<1>3. Ownership'
  BY <1>0, <1>2, Zenon DEF IInv, Ownership, events, trees, acceptor
<1> QED
  BY <1>1, <1>3, Zenon

\* The accept thread: a new descriptor was nowhere before.
LEMMA AcceptorOwnership ==
  IInv /\ Acceptor => Ownership' /\ OneOwner' /\ CountIsSize'
<1> SUFFICES ASSUME IInv, Acceptor PROVE Ownership' /\ OneOwner' /\ CountIsSize'
  OBVIOUS
<1> USE DEF IInv, Adding, sockets, events, trees, worker
<1>1. CASE Accept
  <2>1. /\ backlog \in Seq(Fds) /\ backlog # <<>> /\ backlog' = Tail(backlog)
        /\ connfd' = Head(backlog) /\ open' = open \cup {Head(backlog)}
        /\ UNCHANGED <<mask, tree, connCnt>> /\ apc' = "choose"
    BY <1>1, Zenon DEF Accept, TypeOK
  <2>2. OneOwner' /\ CountIsSize'
    BY <2>1, Zenon DEF OneOwner, CountIsSize
  <2>3. connfd' \notin open /\ connfd' \in open'
    BY <2>1 DEF Ownership
  <2>4. /\ \A k, l \in 1..Len(backlog') : backlog'[k] = backlog'[l] => k = l
        /\ \A k \in 1..Len(backlog') : backlog'[k] \notin open'
    BY <2>1 DEF Ownership
  <2>5. \A w \in Workers : connfd' \notin tree[w] /\ connfd' \notin mask[w]
    BY <2>3, Zenon DEF Ownership
  <2> QED
    BY <2>1, <2>2, <2>3, <2>4, <2>5, Zenon DEF Ownership
<1>10. CASE AcceptFails
  <2>1. /\ backlog \in Seq(Fds) /\ backlog # <<>> /\ backlog' = Tail(backlog)
        /\ open' = open \cup {Head(backlog)}
        /\ UNCHANGED <<mask, tree, connCnt, apc, connfd, minconnsindex>>
    BY <1>10, Zenon DEF AcceptFails, TypeOK, acceptor
  <2>2. OneOwner' /\ CountIsSize'
    BY <2>1, Zenon DEF OneOwner, CountIsSize
  <2>3. /\ \A k, l \in 1..Len(backlog') : backlog'[k] = backlog'[l] => k = l
        /\ \A k \in 1..Len(backlog') : backlog'[k] \notin open'
    BY <2>1 DEF Ownership
  <2> QED
    BY <2>1, <2>2, <2>3, Zenon DEF Ownership
<1>2. CASE Choose
  BY <1>2, Zenon DEF Choose, Ownership, OneOwner, CountIsSize
<1>3. CASE Refuse
  BY <1>3, Zenon DEF Refuse, Ownership, OneOwner, CountIsSize
<1>4. CASE CreateUndefined
  BY <1>4, Zenon DEF CreateUndefined, Ownership, OneOwner, CountIsSize
<1>5. CASE createFileEvent
  <2>1. /\ apc = "choose" /\ apc' = "add" /\ UNCHANGED <<backlog, open, tree, connCnt, connfd, minconnsindex>>
        /\ \A w \in Workers : mask'[w] = IF w = minconnsindex THEN mask[w] \cup {connfd} ELSE mask[w]
    BY <1>5, ZenonT(60) DEF createFileEvent, TypeOK
  <2>2. Ownership'
    BY <2>1, ZenonT(60) DEF Ownership
  <2>3. OneOwner'
    <3> SUFFICES ASSUME NEW v \in Workers, NEW u \in Workers, v # u, NEW f,
                        f \in mask'[v] \cup tree'[v], f \in mask'[u] \cup tree'[u]
                 PROVE  FALSE
      BY Zenon DEF OneOwner
    <3>1. f # connfd => f \in mask[v] \cup tree[v] /\ f \in mask[u] \cup tree[u]
      BY <2>1, ZenonT(60)
    <3>2. f = connfd => v = minconnsindex /\ u = minconnsindex
      BY <2>1, ZenonT(60) DEF Ownership
    <3> QED
      BY <3>1, <3>2, Zenon DEF OneOwner
  <2> QED
    BY <2>1, <2>2, <2>3, Zenon DEF CountIsSize
<1>6. CASE aePollAddEvent
  BY <1>6, Zenon DEF aePollAddEvent, Ownership, OneOwner, CountIsSize
<1>7. CASE AddFails
  BY <1>7, Zenon DEF AddFails, Ownership, OneOwner, CountIsSize
<1>8. CASE newConn
  BY <1>8, Zenon DEF newConn, Ownership, OneOwner, CountIsSize
<1>9. CASE newConnEnd
  <2>1. /\ apc = "inserting" /\ apc' = "poll" /\ UNCHANGED <<backlog, open, mask>>
        /\ \A w \in Workers : tree'[w] = IF w = minconnsindex THEN tree[w] \cup {connfd} ELSE tree[w]
        /\ \A w \in Workers : connCnt'[w] = IF w = minconnsindex THEN connCnt[w] + 1 ELSE connCnt[w]
    BY <1>9, ZenonT(60) DEF newConnEnd, TypeOK
  <2>2. Ownership'
    BY <2>1, ZenonT(60) DEF Ownership
  <2>3. OneOwner'
    <3> SUFFICES ASSUME NEW v \in Workers, NEW u \in Workers, v # u, NEW f,
                        f \in mask'[v] \cup tree'[v], f \in mask'[u] \cup tree'[u]
                 PROVE  FALSE
      BY Zenon DEF OneOwner
    <3>1. f # connfd => f \in mask[v] \cup tree[v] /\ f \in mask[u] \cup tree[u]
      BY <2>1, ZenonT(60)
    <3>2. f = connfd => v = minconnsindex /\ u = minconnsindex
      BY <2>1, ZenonT(60) DEF Ownership
    <3> QED
      BY <3>1, <3>2, Zenon DEF OneOwner
  <2>4. ASSUME NEW w \in Workers PROVE connCnt'[w] = Cardinality(tree'[w])
    <3>1. IsFiniteSet(tree[w])
      BY ServerAssumption, FS_Subset DEF TypeOK
    <3>2. connfd \notin tree[w]
      BY <2>1, Zenon DEF Ownership
    <3>3. Cardinality(tree[w] \cup {connfd}) = Cardinality(tree[w]) + 1
      BY <3>1, <3>2, FS_AddElement, ZenonT(60)
    <3> QED
      BY <2>1, <3>3, Zenon DEF CountIsSize
  <2> QED
    BY <2>2, <2>3, <2>4, Zenon DEF CountIsSize
<1> QED
  BY <1>1, <1>2, <1>3, <1>4, <1>5, <1>6, <1>7, <1>8, <1>9, <1>10, Zenon DEF Acceptor

\* A worker only takes descriptors away.
LEMMA WorkerOwnership ==
  ASSUME IInv, NEW w \in Workers, Worker(w)
  PROVE  Ownership' /\ OneOwner' /\ CountIsSize'
<1>1. UNCHANGED <<backlog, open, acceptor>>
  BY Zenon DEF Worker, aePollPoll, Dispatch, Search, SearchEnd, ReadCommand, ReadAgain, ReadShutdown,
         deleteFileEvent, DeleteFails, freeConn, freeConnEnd, freeConns, freeConnsEnd, sockets
<1>2. CASE UNCHANGED <<mask, tree, connCnt>>
  BY <1>1, <1>2, Zenon DEF IInv, Ownership, OneOwner, CountIsSize, acceptor
<1>3. CASE deleteFileEvent(w)
  <2>1. /\ UNCHANGED <<tree, connCnt>>
        /\ \A v \in Workers : mask'[v] \subseteq mask[v]
    BY <1>3, Zenon DEF deleteFileEvent, IInv, TypeOK, trees
  <2> QED
    BY <1>1, <2>1, Zenon DEF IInv, Ownership, OneOwner, CountIsSize, acceptor
<1>4. CASE freeConnEnd(w) /\ connCnt[target[w]] > 0 /\ fd[w] \in tree[target[w]]
  <2> DEFINE t == target[w]
  <2>1. /\ UNCHANGED mask /\ fd[w] \in tree[t] /\ t \in Workers
        /\ \A v \in Workers : tree'[v] = IF v = t THEN tree[v] \ {fd[w]} ELSE tree[v]
        /\ \A v \in Workers : connCnt'[v] = IF v = t THEN connCnt[v] - 1 ELSE connCnt[v]
    <3>1. /\ UNCHANGED events /\ t \in Workers
          /\ tree' = [tree EXCEPT ![t] = @ \ {fd[w]}]
          /\ connCnt' = [connCnt EXCEPT ![t] = @ - 1]
      BY <1>4, Zenon DEF freeConnEnd, IInv, TypeOK
    <3> HIDE DEF t
    <3> QED
      BY <1>4, <3>1, Zenon DEF t, IInv, TypeOK, events
  <2> HIDE DEF t
  <2>2. Ownership' /\ OneOwner'
    BY <1>1, <2>1, ZenonT(60) DEF IInv, Ownership, OneOwner, acceptor
  <2>3. ASSUME NEW v \in Workers PROVE connCnt'[v] = Cardinality(tree'[v])
    <3>1. IsFiniteSet(tree[v])
      BY ServerAssumption, FS_Subset DEF IInv, TypeOK
    <3>2. Cardinality(tree[v]) \in Nat
      BY <3>1, FS_CardinalityType, Zenon
    <3>3. fd[w] \in tree[v] => Cardinality(tree[v] \ {fd[w]}) = Cardinality(tree[v]) - 1
      BY <3>1, FS_RemoveElement, Zenon
    <3> QED
      BY <2>1, <3>2, <3>3, ZenonT(60) DEF IInv, CountIsSize
  <2> QED
    BY <2>2, <2>3, Zenon DEF CountIsSize
<1>5. CASE freeConnEnd(w) /\ ~(connCnt[target[w]] > 0 /\ fd[w] \in tree[target[w]])
  <2>1. UNCHANGED <<mask, tree, connCnt>>
    BY <1>5, Zenon DEF freeConnEnd, events
  <2> QED
    BY <1>2, <2>1, Zenon
<1>6. ASSUME ~deleteFileEvent(w), ~freeConnEnd(w) PROVE UNCHANGED <<mask, tree, connCnt>>
  BY <1>6, Zenon DEF Worker, aePollPoll, Dispatch, Search, SearchEnd, ReadCommand, ReadAgain, ReadShutdown,
         DeleteFails, freeConn, freeConns, freeConnsEnd, events, trees
<1> QED
  BY <1>2, <1>3, <1>4, <1>5, <1>6, Zenon

------------------------------------------------------------------------------
\* main starts with empty loops and trees.
LEMMA InitIInv == Init => IInv
<1> SUFFICES ASSUME Init PROVE IInv
  OBVIOUS
<1>1. TypeOK
  <2>1. 0 \in Workers /\ 1 \in 1..THREADCNT /\ 0 \in 0..MaxRequests
    BY ServerAssumption DEF Workers
  <2>2. /\ <<>> \in Seq(Fds) /\ [f \in Fds |-> <<>>] \in [Fds -> Seq({"command", "shutdown"})]
        /\ [w \in Workers |-> w] \in [Workers -> Workers]
    OBVIOUS
  <2>3. /\ backlog \in Seq(Fds) /\ open \subseteq Fds
        /\ inbox \in [Fds -> Seq({"command", "shutdown"})]
        /\ asked \in [Fds -> 0..MaxRequests] /\ fin \in [Fds -> BOOLEAN]
    BY <2>1, <2>2, Zenon DEF Init
  <2>4. /\ mask \in [Workers -> SUBSET Fds] /\ interest \in [Workers -> SUBSET Fds]
        /\ tree \in [Workers -> SUBSET Fds] /\ connCnt \in [Workers -> Int]
        /\ connLock \in Workers \cup {None}
    BY DEF Init
  <2>5. /\ apc \in AcceptLabels /\ connfd \in Fds \cup {None}
        /\ i \in 1..THREADCNT /\ minconnsindex \in Workers
    BY <2>1, Zenon DEF Init, AcceptLabels
  <2>6. /\ wpc \in [Workers -> WorkerLabels] /\ fired \in [Workers -> SUBSET Fds]
        /\ fd \in [Workers -> Fds \cup {None}] /\ target \in [Workers -> Workers]
        /\ stopping \in [Workers -> BOOLEAN] /\ exited \in BOOLEAN
    BY <2>2, ZenonT(60) DEF Init, WorkerLabels
  <2> QED
    BY <2>3, <2>4, <2>5, <2>6, Zenon DEF TypeOK
<1>2. Ownership
  BY DEF Init, Ownership, Adding
<1>3. OneOwner /\ CountIsSize
  BY FS_EmptySet, Zenon DEF Init, OneOwner, CountIsSize
<1> QED
  BY <1>1, <1>2, <1>3, Zenon DEF IInv

\* The invariant holds in every state of Server, whatever the number of workers,
\* connections and requests, with hangups, shutdowns and failures.
THEOREM Invariance == Spec => []IInv
<1>1. IInv /\ [Next]_vars => IInv'
  <2> SUFFICES ASSUME IInv, [Next]_vars PROVE IInv'
    OBVIOUS
  <2>1. CASE Client
    BY <2>1, ClientType, ClientOwnership, Zenon DEF IInv
  <2>2. CASE Acceptor
    BY <2>2, AcceptorType, AcceptorOwnership, Zenon DEF IInv
  <2>3. ASSUME NEW w \in Workers, Worker(w) PROVE IInv'
    BY <2>3, WorkerType, WorkerOwnership, Zenon DEF IInv
  <2>4. CASE UNCHANGED vars
    BY <2>4, Zenon DEF IInv, TypeOK, Ownership, OneOwner, CountIsSize, vars, sockets, events, trees, acceptor, worker
  <2> QED
    BY <2>1, <2>2, <2>3, <2>4, Zenon DEF Next
<1> QED
  BY InitIInv, <1>1, PTL DEF Spec

\* The types of Server hold for every value of its constants.
THEOREM TypeCorrect == Spec => []TypeOK
<1>1. IInv => TypeOK
  BY Zenon DEF IInv
<1> QED
  BY Invariance, <1>1, PTL

\* No descriptor is ever in the loops or trees of two workers, for any number
\* of workers (tcpAcceptCallback, deleteFileEvent, freeConn).
THEOREM DescriptorHasOneOwner == Spec => []OneOwner
<1>1. IInv => OneOwner
  BY Zenon DEF IInv
<1> QED
  BY Invariance, <1>1, PTL

\* connCnt is the size of the tree after every newConn and freeConn, also when a
\* shutdown and a hangup free the same connection.
THEOREM CounterIsSize == Spec => []CountIsSize
<1>1. IInv => CountIsSize
  BY Zenon DEF IInv
<1> QED
  BY Invariance, <1>1, PTL

------------------------------------------------------------------------------
\* Nothing takes back a hangup or a shutdown that has begun.
LEMMA StopIsFinal ==
  ASSUME TypeOK, [Next]_vars
  PROVE  /\ \A f \in Fds : fin[f] => fin'[f]
         /\ \A w \in Workers : stopping[w] => stopping'[w]
<1>1. CASE UNCHANGED vars
  BY <1>1, Zenon DEF vars, sockets, worker
<1>2. CASE Client
  BY <1>2, Zenon DEF Client, Connect, Send, Hangup, worker, TypeOK
<1>3. CASE Acceptor
  BY <1>3, Zenon DEF Acceptor, Accept, AcceptFails, Choose, Refuse, CreateUndefined, createFileEvent, aePollAddEvent,
              AddFails, newConn, newConnEnd, sockets, worker
<1>4. ASSUME NEW w \in Workers, Worker(w)
      PROVE  UNCHANGED fin /\ \A v \in Workers : stopping[v] => stopping'[v]
  BY <1>4, Zenon DEF Worker, aePollPoll, Dispatch, Search, SearchEnd, ReadCommand, ReadAgain,
              ReadShutdown, deleteFileEvent, DeleteFails, freeConn, freeConnEnd, freeConns, freeConnsEnd,
              sockets, worker, TypeOK
<1> QED
  BY <1>1, <1>2, <1>3, <1>4, Zenon DEF Next

------------------------------------------------------------------------------
(* Event loops and trees agree *)

NoStop == \A w \in Workers : ~stopping[w]

\* The loop may keep this descriptor without a connection.
Orphan(f) == Failures /\ fin[f]

\* EventIffConn, made inductive: what has been done for the descriptor that is
\* being added, and that one that is being freed is still in the worker's own tree.
Agree ==
  /\ \A w \in Workers : interest[w] \subseteq mask[w]
  /\ \A w \in Workers, f \in Fds : f \in interest[w] => f \in tree[w] \/ BeingAdded(w, f) \/ Orphan(f)
  /\ \A w \in Workers, f \in Fds : f \in tree[w] => f \in interest[w] \/ BeingFreed(w, f)
  /\ apc = "add" => connfd \in mask[minconnsindex] /\ connfd \notin interest[minconnsindex]
  /\ apc \in {"new", "inserting"} => connfd \in interest[minconnsindex]
  /\ \A w \in Workers : wpc[w] \in {"lock", "freeing"} =>
       target[w] = w /\ fd[w] \in tree[w] /\ (fd[w] \in interest[w] => Orphan(fd[w]))
  /\ \A w \in Workers : wpc[w] # "freeConns"

\* The accept thread registers a descriptor with the loop before the tree.
LEMMA AcceptorAgree == ASSUME IInv, Agree, Acceptor PROVE Agree'
<1>0. TypeOK /\ Ownership /\ UNCHANGED worker /\ UNCHANGED fin
  BY Zenon DEF IInv, Acceptor, Accept, AcceptFails, Choose, Refuse, CreateUndefined, createFileEvent,
         aePollAddEvent, AddFails, newConn, newConnEnd, sockets
<1>6. CASE AcceptFails
  <2>1. UNCHANGED <<mask, interest, tree, wpc, fd, target, fin, apc, connfd, minconnsindex>>
    BY <1>0, <1>6, Zenon DEF AcceptFails, events, trees, acceptor, worker
  <2> QED
    BY <2>1, SMT DEF Agree, BeingAdded, BeingFreed, Orphan
<1>1. CASE Accept \/ Choose \/ Refuse \/ CreateUndefined
  <2>1. /\ UNCHANGED <<mask, interest, tree, wpc, fd, target, fin>>
        /\ apc \in {"poll", "choose"} /\ apc' \in {"poll", "choose", "undefined"}
    BY <1>0, <1>1, Zenon DEF Accept, Choose, Refuse, CreateUndefined, events, trees, worker
  <2> QED
    BY <2>1, SMTT(30) DEF Agree, BeingAdded, BeingFreed, Orphan
<1> USE DEF Agree, BeingAdded, BeingFreed, Orphan, TypeOK, Ownership, Adding, worker
<1>2. CASE createFileEvent
  BY <1>0, <1>2, SMTT(30) DEF createFileEvent, trees
<1>3. CASE aePollAddEvent
  BY <1>0, <1>3 DEF aePollAddEvent, trees
<1>4. CASE AddFails \/ newConn
  BY <1>0, <1>4 DEF AddFails, newConn, events, trees
<1>5. CASE newConnEnd
  <2>1. /\ UNCHANGED <<mask, interest, wpc, fd, target>>
        /\ apc = "inserting" /\ apc' = "poll"
    BY <1>0, <1>5, Zenon DEF newConnEnd, events
  <2>2. \A w \in Workers : tree[w] \subseteq tree'[w]
    BY <1>0, <1>5 DEF newConnEnd
  <2>3. connfd \in Fds /\ minconnsindex \in Workers /\ connfd \in interest[minconnsindex]
    BY <1>0, <2>1, Zenon
  <2>4. \A w \in Workers, f \in Fds :
          f \in tree'[w] => f \in tree[w] \/ (w = minconnsindex /\ f = connfd)
    BY <1>0, <1>5 DEF newConnEnd
  <2>5. connfd \in tree'[minconnsindex]
    BY <1>0, <1>5, <2>3 DEF newConnEnd
  <2>6. \A w \in Workers, f \in Fds : f \in interest'[w] => f \in tree'[w] \/ Orphan(f)'
    BY <1>0, <2>1, <2>2, <2>5
  <2>7. \A w \in Workers, f \in Fds : f \in tree'[w] => f \in interest'[w] \/ BeingFreed(w, f)'
    BY <2>1, <2>3, <2>4
  <2> QED
    BY <1>0, <2>1, <2>2, <2>6, <2>7, Zenon
<1> QED
  BY <1>1, <1>2, <1>3, <1>4, <1>5, <1>6, Zenon DEF Acceptor

\* A worker drops the event before the connection.
LEMMA WorkerAgree ==
  ASSUME IInv, Agree, NoStop, NoStop', ~StaleConn, NEW w \in Workers, Worker(w) PROVE Agree'
<1>0. TypeOK /\ Ownership /\ CountIsSize /\ UNCHANGED acceptor
  BY Zenon DEF IInv, Worker, aePollPoll, Dispatch, Search, SearchEnd, ReadCommand, ReadAgain,
         ReadShutdown, deleteFileEvent, DeleteFails, freeConn, freeConnEnd, freeConns, freeConnsEnd
<1>7. UNCHANGED fin
  BY Zenon DEF Worker, aePollPoll, Dispatch, Search, SearchEnd, ReadCommand, ReadAgain, ReadShutdown,
         deleteFileEvent, DeleteFails, freeConn, freeConnEnd, freeConns, freeConnsEnd, sockets
<1>1. ~ReadShutdown(w) /\ ~freeConns(w) /\ ~freeConnsEnd(w)
  BY <1>0 DEF ReadShutdown, freeConns, freeConnsEnd, NoStop, Agree, TypeOK
<1>2. CASE aePollPoll(w) \/ Dispatch(w) \/ Search(w) \/ SearchEnd(w) \/ ReadCommand(w) \/ ReadAgain(w)
  <2>1. UNCHANGED <<events, trees, target>>
    BY <1>2, Zenon DEF aePollPoll, Dispatch, Search, SearchEnd, ReadCommand, ReadAgain, worker
  <2>2. wpc[w] \in {"loop", "search", "searching", "read"} /\ wpc'[w] \notin {"lock", "freeing", "freeConns"}
    <3>1. CASE Dispatch(w)
      <4>1. PICK f \in fired[w] : wpc' = [wpc EXCEPT ![w] = IF f \in mask[w] THEN "search" ELSE "loop"]
        BY <3>1, Zenon DEF Dispatch, Goto
      <4> QED
        BY <1>0, <3>1, <4>1, Zenon DEF Dispatch, TypeOK
    <3>2. CASE aePollPoll(w) \/ ReadCommand(w)
      BY <3>2, Zenon DEF aePollPoll, ReadCommand, worker
    <3>3. CASE Search(w) \/ ReadAgain(w)
      BY <1>0, <3>3, Zenon DEF Search, ReadAgain, Goto, TypeOK
    <3>4. CASE SearchEnd(w)
      BY <1>0, <3>4, Zenon DEF SearchEnd, Goto, TypeOK
    <3> QED
      BY <1>2, <3>1, <3>2, <3>3, <3>4, Zenon
  <2>3. \A v \in Workers : v # w => wpc'[v] = wpc[v] /\ fd'[v] = fd[v]
    <3>1. CASE Dispatch(w)
      <4>1. PICK f \in fired[w] : /\ wpc' = [wpc EXCEPT ![w] = IF f \in mask[w] THEN "search" ELSE "loop"]
                                  /\ fd' = [fd EXCEPT ![w] = f]
        BY <3>1, Zenon DEF Dispatch, Goto
      <4> QED
        BY <1>0, <4>1, Zenon DEF TypeOK
    <3>2. CASE aePollPoll(w) \/ ReadCommand(w)
      BY <3>2, Zenon DEF aePollPoll, ReadCommand, worker
    <3>3. CASE Search(w) \/ ReadAgain(w) \/ SearchEnd(w)
      BY <1>0, <3>3, Zenon DEF Search, ReadAgain, SearchEnd, Goto, TypeOK
    <3> QED
      BY <1>2, <3>1, <3>2, <3>3, Zenon
  <2>4. UNCHANGED <<mask, interest, tree, target, apc, connfd, minconnsindex>>
    BY <1>0, <2>1, Zenon DEF events, trees, acceptor
  <2>5. \A v \in Workers, f \in Fds : BeingFreed(v, f) => BeingFreed(v, f)'
    BY <2>2, <2>3, Zenon DEF BeingFreed
  <2>6. \A v \in Workers : /\ wpc'[v] # "freeConns"
                           /\ wpc'[v] \in {"lock", "freeing"} => v # w
    BY <2>2, <2>3, Zenon DEF Agree
  <2>7. \A v \in Workers, f \in Fds : f \in interest'[v] => f \in tree'[v] \/ BeingAdded(v, f)' \/ Orphan(f)'
    BY <1>7, <2>4, Zenon DEF Agree, BeingAdded, Orphan
  <2>8. \A v \in Workers, f \in Fds : f \in tree'[v] => f \in interest'[v] \/ BeingFreed(v, f)'
    BY <2>4, <2>5, Zenon DEF Agree
  <2>9. \A v \in Workers : wpc'[v] \in {"lock", "freeing"} =>
          target'[v] = v /\ fd'[v] \in tree'[v] /\ (fd'[v] \in interest'[v] => Orphan(fd[v])')
    BY <1>7, <2>3, <2>4, <2>6, Zenon DEF Agree, Orphan
  <2> QED
    BY <2>4, <2>6, <2>7, <2>8, <2>9, Zenon DEF Agree
<1>3. CASE deleteFileEvent(w)
  <2>1. fd[w] \in tree[w] /\ (apc \in Adding => fd[w] # connfd)
    BY <1>0, <1>3, Zenon DEF deleteFileEvent, StaleConn, Ownership
  <2>2. /\ UNCHANGED <<tree, fd, apc, connfd, minconnsindex>>
        /\ mask' = [mask EXCEPT ![w] = @ \ {fd[w]}]
        /\ interest' = [interest EXCEPT ![w] = @ \ {fd[w]}]
        /\ wpc' = [wpc EXCEPT ![w] = "lock"]
        /\ wpc[w] \notin {"lock", "freeing", "freeConns"}
        /\ target' = [target EXCEPT ![w] = w]
    BY <1>3, Zenon DEF deleteFileEvent, Goto, trees, acceptor
  <2>3. DOMAIN mask = Workers /\ DOMAIN interest = Workers /\ DOMAIN wpc = Workers /\ DOMAIN target = Workers
    BY <1>0, Zenon DEF TypeOK
  <2>4. /\ target'[w] = w /\ wpc'[w] = "lock"
        /\ interest'[w] = interest[w] \ {fd[w]} /\ mask'[w] = mask[w] \ {fd[w]}
    BY <2>2, <2>3, Zenon
  <2>5. \A v \in Workers \ {w} : mask'[v] = mask[v] /\ interest'[v] = interest[v]
    BY <2>2, <2>3, Zenon
  <2>6. \A v \in Workers \ {w} : wpc'[v] = wpc[v] /\ target'[v] = target[v]
    BY <2>2, <2>3, Zenon
  <2>7. \A v \in Workers : interest'[v] \subseteq mask'[v]
    BY <2>4, <2>5, Zenon DEF Agree
  <2>8. \A v \in Workers, f \in Fds : f \in interest'[v] => f \in tree'[v] \/ BeingAdded(v, f)' \/ Orphan(f)'
    <3>1. \A v \in Workers : interest'[v] \subseteq interest[v]
      BY <2>4, <2>5, Zenon
    <3>2. \A v \in Workers, f \in Fds : BeingAdded(v, f) => BeingAdded(v, f)'
      BY <2>2, Zenon DEF BeingAdded
    <3> QED
      BY <1>7, <2>2, <3>1, <3>2, Zenon DEF Agree, Orphan
  <2>9. \A v \in Workers, f \in Fds : f \in tree'[v] => f \in interest'[v] \/ BeingFreed(v, f)'
    <3>1. \A v \in Workers \ {w}, f \in Fds : BeingFreed(v, f) => BeingFreed(v, f)'
      BY <2>2, <2>6, Zenon DEF BeingFreed
    <3>2. BeingFreed(w, fd[w])' /\ \A f \in Fds : ~BeingFreed(w, f)
      BY <2>2, <2>4, Zenon DEF BeingFreed
    <3>3. \A v \in Workers, f \in Fds : f \in tree[v] => f \in interest[v] \/ BeingFreed(v, f)
      BY Zenon DEF Agree
    <3> QED
      BY <2>2, <2>4, <2>5, <3>1, <3>2, <3>3, Zenon
  <2>10. /\ apc' = "add" => connfd' \in mask'[minconnsindex'] /\ connfd' \notin interest'[minconnsindex']
         /\ apc' \in {"new", "inserting"} => connfd' \in interest'[minconnsindex']
    <3>1. interest'[minconnsindex] = interest[minconnsindex] \/ interest'[minconnsindex] = interest[minconnsindex] \ {fd[w]}
      BY <2>2
    <3>2. mask'[minconnsindex] = mask[minconnsindex] \/ mask'[minconnsindex] = mask[minconnsindex] \ {fd[w]}
      BY <2>2
    <3>3. /\ apc = "add" => connfd \in mask[minconnsindex] /\ connfd \notin interest[minconnsindex]
          /\ apc \in {"new", "inserting"} => connfd \in interest[minconnsindex]
      BY Zenon DEF Agree
    <3> QED
      BY <2>1, <2>2, <3>1, <3>2, <3>3, Zenon DEF Adding
  <2>11. \A v \in Workers : wpc'[v] # "freeConns"
    BY <2>4, <2>6, Zenon DEF Agree
  <2>12. \A v \in Workers : wpc'[v] \in {"lock", "freeing"} =>
           target'[v] = v /\ fd'[v] \in tree'[v] /\ (fd'[v] \in interest'[v] => Orphan(fd[v])')
    <3>1. \A v \in Workers : wpc[v] \in {"lock", "freeing"} =>
            target[v] = v /\ fd[v] \in tree[v] /\ (fd[v] \in interest[v] => Orphan(fd[v]))
      BY Zenon DEF Agree
    <3>2. \A v \in Workers \ {w} : wpc'[v] \in {"lock", "freeing"} =>
            target'[v] = v /\ fd'[v] \in tree'[v] /\ (fd'[v] \in interest'[v] => Orphan(fd[v])')
      BY <1>7, <2>2, <2>5, <2>6, <3>1, Zenon DEF Orphan
    <3>3. target'[w] = w /\ fd'[w] \in tree'[w] /\ fd'[w] \notin interest'[w]
      BY <2>1, <2>2, <2>4, Zenon
    <3> QED
      BY <3>2, <3>3, Zenon
  <2> QED
    BY <2>7, <2>8, <2>9, <2>10, <2>11, <2>12, Zenon DEF Agree
<1>4. CASE freeConn(w)
  BY <1>0, <1>4, <1>7, SMTT(30)
  DEF freeConn, Agree, BeingAdded, BeingFreed, Orphan, Goto, events, acceptor, TypeOK
<1>5. CASE freeConnEnd(w)
  <2>1. target[w] = w /\ fd[w] \in tree[w] /\ (fd[w] \in interest[w] => Orphan(fd[w]))
    BY <1>5, Zenon DEF freeConnEnd, Agree
  <2>2. connCnt[w] > 0
    <3>1. IsFiniteSet(tree[w]) /\ connCnt[w] = Cardinality(tree[w])
      BY <1>0, FS_Subset, ServerAssumption, Zenon DEF TypeOK, CountIsSize
    <3>2. connCnt[w] \in Nat
      BY <3>1, FS_CardinalityType, Zenon
    <3>3. connCnt[w] # 0
      BY <2>1, <3>1, FS_EmptySet, Zenon
    <3> QED
      BY <3>2, <3>3
  <2>3. /\ tree' = [tree EXCEPT ![w] = @ \ {fd[w]}] /\ wpc' = [wpc EXCEPT ![w] = "loop"]
        /\ UNCHANGED <<events, fd, target>>
    BY <1>5, <2>1, <2>2, ZenonT(60) DEF freeConnEnd, Goto, NoStop
  <2> QED
    BY <1>0, <1>7, <2>1, <2>3, SMTT(30)
    DEF Agree, BeingAdded, BeingFreed, Orphan, events, acceptor, TypeOK
<1>6. CASE DeleteFails(w)
  <2>1. fd[w] \in tree[w] /\ Orphan(fd[w])
    BY <1>6, Zenon DEF DeleteFails, StaleConn, Orphan
  <2>2. /\ UNCHANGED <<mask, interest, tree, fd, apc, connfd, minconnsindex>>
        /\ wpc' = [wpc EXCEPT ![w] = "lock"]
        /\ wpc[w] \notin {"lock", "freeing", "freeConns"}
        /\ target' = [target EXCEPT ![w] = w]
    BY <1>6, Zenon DEF DeleteFails, Goto, events, trees, acceptor
  <2>3. DOMAIN wpc = Workers /\ DOMAIN target = Workers
    BY <1>0, Zenon DEF TypeOK
  <2>4. target'[w] = w /\ wpc'[w] = "lock" /\ \A v \in Workers \ {w} : wpc'[v] = wpc[v] /\ target'[v] = target[v]
    BY <2>2, <2>3, Zenon
  <2>5. \A v \in Workers, f \in Fds : BeingFreed(v, f) => BeingFreed(v, f)'
    BY <2>2, <2>4, Zenon DEF BeingFreed
  <2>6. \A v \in Workers : wpc'[v] \in {"lock", "freeing"} =>
          target'[v] = v /\ fd'[v] \in tree'[v] /\ (fd'[v] \in interest'[v] => Orphan(fd[v])')
    <3>1. \A v \in Workers \ {w} : wpc[v] \in {"lock", "freeing"} =>
            target[v] = v /\ fd[v] \in tree[v] /\ (fd[v] \in interest[v] => Orphan(fd[v]))
      BY Zenon DEF Agree
    <3>2. \A v \in Workers : Orphan(fd[v])' <=> Orphan(fd[v])
      BY <1>7, <2>2, Zenon DEF Orphan
    <3> QED
      BY <2>1, <2>2, <2>4, <3>1, <3>2, Zenon
  <2>7. \A v \in Workers : wpc'[v] # "freeConns"
    BY <2>4, Zenon DEF Agree
  <2>8. \A v \in Workers, f \in Fds :
          /\ f \in interest'[v] => f \in tree'[v] \/ BeingAdded(v, f)' \/ Orphan(f)'
          /\ f \in tree'[v] => f \in interest'[v] \/ BeingFreed(v, f)'
    BY <1>7, <2>2, <2>5, Zenon DEF Agree, BeingAdded, Orphan
  <2> QED
    BY <2>2, <2>6, <2>7, <2>8, Zenon DEF Agree
<1> QED
  BY <1>1, <1>2, <1>3, <1>4, <1>5, <1>6, Zenon DEF Worker

\* Until a shutdown the loop and the tree of every worker hold the same
\* descriptors, but for one that is being added or freed, for any number of
\* workers; failures of epoll_ctl leave in a loop only descriptors whose client
\* has hung up.
THEOREM LoopsAndTreesAgree == Spec => []EventIffConn
<1>1. Init => (NoStop => Agree)
  BY ServerAssumption, Zenon DEF Init, Agree, BeingAdded, BeingFreed
<1>2. IInv /\ (NoStop => Agree) /\ [Next]_vars => (NoStop => Agree)'
  <2> SUFFICES ASSUME IInv, NoStop => Agree, [Next]_vars, NoStop' PROVE Agree'
    OBVIOUS
  <2>1. NoStop
    BY StopIsFinal, Zenon DEF IInv, NoStop
  <2>2. CASE UNCHANGED vars
    BY <2>1, <2>2, Zenon DEF Agree, BeingAdded, BeingFreed, Orphan, vars, sockets, events, trees, acceptor, worker
  <2>3. CASE Client
    <3>1. UNCHANGED <<mask, interest, tree, wpc, fd, target, apc, connfd, minconnsindex>>
      BY <2>3, Zenon DEF Client, events, trees, acceptor, worker
    <3>2. \A f \in Fds : Orphan(f) => Orphan(f)'
      BY StopIsFinal, Zenon DEF IInv, Orphan
    <3>3. \A w \in Workers : fd[w] \in tree[w] => fd[w] \in Fds
      BY Zenon DEF IInv, TypeOK
    <3>4. \A w \in Workers, f \in Fds : /\ BeingAdded(w, f)' <=> BeingAdded(w, f)
                                        /\ BeingFreed(w, f)' <=> BeingFreed(w, f)
      BY <3>1, Zenon DEF BeingAdded, BeingFreed
    <3>5. \A w \in Workers : wpc'[w] \in {"lock", "freeing"} =>
            target'[w] = w /\ fd'[w] \in tree'[w] /\ (fd'[w] \in interest'[w] => Orphan(fd[w])')
      <4>1. ASSUME NEW w \in Workers, Orphan(fd[w]), fd[w] \in Fds PROVE Orphan(fd[w])'
        BY <3>1, <3>2, <4>1, Zenon DEF Orphan
      <4> QED
        BY <2>1, <3>1, <3>3, <4>1, Zenon DEF Agree
    <3>6. \A w \in Workers, f \in Fds :
            /\ f \in interest'[w] => f \in tree'[w] \/ BeingAdded(w, f)' \/ Orphan(f)'
            /\ f \in tree'[w] => f \in interest'[w] \/ BeingFreed(w, f)'
      BY <2>1, <3>1, <3>2, <3>4, Zenon DEF Agree
    <3> QED
      BY <2>1, <3>1, <3>5, <3>6, Zenon DEF Agree
  <2>4. CASE Next /\ ~Client
    <3>1. ~StaleConn
      BY <2>4, Zenon DEF Next, Stopped, Undefined
    <3> QED
      BY <2>1, <2>4, <3>1, AcceptorAgree, WorkerAgree, Zenon DEF Next
  <2> QED
    BY <2>2, <2>3, <2>4, Zenon
<1>3. (NoStop => Agree) => EventIffConn
  BY Zenon DEF Agree, Orphan, EventIffConn, NoStop
<1> QED
  BY Invariance, <1>1, <1>2, <1>3, PTL DEF Spec

------------------------------------------------------------------------------
(* Dealing in turn *)

\* What the loop of tcpAcceptCallback has found in the trees before n: up to
\* minconnsindex they have one connection more, and from there on the same number.
Chosen(n) ==
  /\ minconnsindex < n
  /\ \A v \in Workers : v < n =>
       connCnt[v] = connCnt[minconnsindex] + (IF v < minconnsindex THEN 1 ELSE 0)

\* While no client hangs up or shuts the server down, workers only read.
OnlyReads ==
  /\ \A w \in Workers : wpc[w] \in {"loop", "search", "searching", "read"}
  /\ \A w \in Workers : wpc[w] # "loop" => fd[w] \in Fds

\* The counters go down by at most one from tree to tree.
InTurn == \A w, v \in Workers : w < v => connCnt[w] - connCnt[v] \in {0, 1}

LoopFound ==
  /\ apc = "choose" => Chosen(i)
  /\ apc \in {"add", "new", "inserting"} => Chosen(THREADCNT)

TurnInv == OnlyReads /\ InTurn /\ LoopFound

\* A worker of a quiet server leaves the counters alone.
LEMMA WorkerTurn ==
  ASSUME Quiet, Quiet', TypeOK, TurnInv, NEW w \in Workers, Worker(w) PROVE TurnInv'
<1>1. wpc[w] = "read" => fd[w] \in Fds /\ ~fin[fd[w]]
  BY Zenon DEF TurnInv, OnlyReads, Quiet
<1>2. wpc[w] \in {"loop", "search", "searching", "read"}
  BY Zenon DEF TurnInv, OnlyReads
<1>3. ~ReadShutdown(w)
  BY Zenon DEF ReadShutdown, Quiet, TypeOK
<1>4. aePollPoll(w) \/ Dispatch(w) \/ Search(w) \/ SearchEnd(w) \/ ReadCommand(w) \/ ReadAgain(w)
  BY <1>1, <1>2, <1>3, Zenon DEF Worker, deleteFileEvent, DeleteFails, freeConn, freeConnEnd, freeConns, freeConnsEnd
<1>5. UNCHANGED <<trees, acceptor>>
  BY <1>4, Zenon DEF aePollPoll, Dispatch, Search, SearchEnd, ReadCommand, ReadAgain
<1>6. ASSUME NEW v \in Workers
      PROVE  /\ wpc'[v] \in {"loop", "search", "searching", "read"}
             /\ wpc'[v] # "loop" => fd'[v] \in Fds
  <2>1. /\ wpc[v] \in {"loop", "search", "searching", "read"}
        /\ wpc[v] # "loop" => fd[v] \in Fds
    BY Zenon DEF TurnInv, OnlyReads
  <2>2. CASE Dispatch(w)
    <3>1. PICK f \in fired[w] :
            /\ fd' = [fd EXCEPT ![w] = f]
            /\ wpc' = [wpc EXCEPT ![w] = IF f \in mask[w] THEN "search" ELSE "loop"]
      BY <2>2, Zenon DEF Dispatch, Goto
    <3>2. f \in Fds /\ DOMAIN fd = Workers /\ DOMAIN wpc = Workers
      BY Zenon DEF TypeOK
    <3> QED
      BY <2>1, <3>1, <3>2, Zenon
  <2>3. CASE aePollPoll(w) \/ ReadCommand(w)
    BY <2>1, <2>3, Zenon DEF aePollPoll, ReadCommand, worker
  <2>4. CASE Search(w) \/ SearchEnd(w) \/ ReadAgain(w)
    BY <2>1, <2>4, Zenon DEF Search, SearchEnd, ReadAgain, Goto, TypeOK
  <2> QED
    BY <1>4, <2>2, <2>3, <2>4, Zenon
<1>7. OnlyReads'
  BY <1>6, Zenon DEF OnlyReads
<1>8. InTurn' /\ LoopFound'
  BY <1>5, Zenon DEF TurnInv, InTurn, LoopFound, Chosen, trees, acceptor
<1> QED
  BY <1>7, <1>8, Zenon DEF TurnInv

\* One iteration of the loop that picks a tree.
LEMMA ChooseTurn == ASSUME TypeOK, InTurn, apc = "choose", Chosen(i), Choose PROVE Chosen(i)'
<1>1. /\ i \in Nat /\ i > 0 /\ i \in Workers /\ i - 1 \in Workers /\ i' = i + 1
      /\ 0 \in Workers /\ minconnsindex \in Workers /\ minconnsindex < i
      /\ UNCHANGED connCnt
  BY ServerAssumption DEF TypeOK, Choose, Chosen, Workers, trees
<1>2. \A v \in Workers : v \in Nat /\ connCnt[v] \in Int
  BY ServerAssumption DEF TypeOK, Workers
<1>3. connCnt[i - 1] = connCnt[minconnsindex]
  BY <1>1, <1>2 DEF Chosen
<1>4. connCnt[i - 1] - connCnt[i] \in {0, 1} /\ connCnt[0] - connCnt[i] \in {0, 1}
  BY <1>1, <1>2 DEF InTurn
<1>5. CASE connCnt[i] < connCnt[i - 1]
  <2>1. minconnsindex' = i
    BY <1>5, Zenon DEF Choose
  <2>2. minconnsindex = 0
    BY <1>1, <1>2, <1>3, <1>4, <1>5 DEF Chosen
  <2>3. ASSUME NEW v \in Workers, v < i + 1
        PROVE  connCnt[v] = connCnt[i] + (IF v < i THEN 1 ELSE 0)
    BY <1>1, <1>2, <1>3, <1>4, <1>5, <2>2, <2>3 DEF Chosen
  <2> QED
    BY <1>1, <2>1, <2>3 DEF Chosen
<1>6. CASE ~(connCnt[i] < connCnt[i - 1])
  <2>1. minconnsindex' = minconnsindex
    BY <1>6, Zenon DEF Choose
  <2>2. connCnt[i] = connCnt[minconnsindex]
    BY <1>1, <1>2, <1>3, <1>4, <1>6
  <2> QED
    BY <1>1, <1>2, <2>1, <2>2 DEF Chosen
<1> QED
  BY <1>5, <1>6, Zenon

\* The accept thread of a quiet server gives the new connection to the first
\* tree of those that have the fewest.
LEMMA AcceptorTurn == ASSUME TypeOK, TurnInv, Acceptor PROVE TurnInv'
<1>0. OnlyReads'
  BY Zenon DEF Acceptor, Accept, AcceptFails, Choose, Refuse, CreateUndefined, createFileEvent, aePollAddEvent,
         AddFails, newConn, newConnEnd, worker, TurnInv, OnlyReads
<1> USE DEF TurnInv
<1>1. CASE Accept
  <2>1. /\ apc' = "choose" /\ i' = 1 /\ minconnsindex' = 0 /\ UNCHANGED connCnt
    BY <1>1, Zenon DEF Accept, trees
  <2>2. \A v \in Workers : v < 1 => v = 0 /\ connCnt[v] \in Int
    BY ServerAssumption DEF Workers, TypeOK
  <2>3. Chosen(i)'
    BY <2>1, <2>2 DEF Chosen
  <2> QED
    BY <1>0, <2>1, <2>3, Zenon DEF InTurn, LoopFound
<1>2. CASE Choose
  <2>1. Chosen(i)' /\ apc' = "choose" /\ UNCHANGED connCnt
    BY <1>2, ChooseTurn, Zenon DEF Choose, LoopFound, trees
  <2> QED
    BY <1>0, <2>1, Zenon DEF InTurn, LoopFound
<1>6. CASE AcceptFails
  BY <1>0, <1>6, Zenon DEF AcceptFails, trees, acceptor, InTurn, LoopFound, Chosen
<1>3. CASE Refuse \/ CreateUndefined \/ AddFails
  <2>1. apc' \in {"poll", "undefined"} /\ UNCHANGED connCnt
    BY <1>3, Zenon DEF Refuse, CreateUndefined, AddFails, trees
  <2> QED
    BY <1>0, <2>1, Zenon DEF InTurn, LoopFound
<1>4. CASE createFileEvent \/ aePollAddEvent \/ newConn
  <2>1. /\ apc' \in {"add", "new", "inserting"} /\ UNCHANGED <<connCnt, minconnsindex>>
        /\ Chosen(THREADCNT)
    BY <1>4, Zenon DEF createFileEvent, aePollAddEvent, newConn, trees, LoopFound
  <2> QED
    BY <1>0, <2>1, Zenon DEF InTurn, LoopFound, Chosen
<1>5. CASE newConnEnd
  <2> DEFINE m == minconnsindex
  <2>1. /\ Chosen(THREADCNT) /\ apc' = "poll" /\ m \in Workers
        /\ \A v \in Workers : connCnt'[v] = IF v = m THEN connCnt[v] + 1 ELSE connCnt[v]
    BY <1>5, Zenon DEF newConnEnd, LoopFound, TypeOK
  <2>2. \A v \in Workers : v \in Nat /\ v < THREADCNT /\ connCnt[v] \in Int
    BY ServerAssumption DEF TypeOK, Workers
  <2>3. \A v \in Workers : connCnt'[v] = connCnt[m] + (IF v <= m THEN 1 ELSE 0)
    BY <2>1, <2>2 DEF Chosen
  <2>4. InTurn'
    <3> HIDE DEF m
    <3> QED
      BY <2>1, <2>2, <2>3 DEF InTurn
  <2> QED
    BY <1>0, <2>1, <2>4, Zenon DEF LoopFound
<1> QED
  BY <1>1, <1>2, <1>3, <1>4, <1>5, <1>6, Zenon DEF Acceptor

\* Until a client hangs up or shuts the server down, tcpAcceptCallback deals
\* connections to any number of workers in turn, although its loop compares only
\* neighbours and reads the counters without a lock.
THEOREM ConnectionsDealtInTurn == Spec => []DealtInTurn
<1>1. Init => (Quiet => TurnInv)
  BY DEF Init, TurnInv, OnlyReads, InTurn, LoopFound
<1>2. IInv /\ (Quiet => TurnInv) /\ [Next]_vars => (Quiet => TurnInv)'
  <2> SUFFICES ASSUME IInv, Quiet => TurnInv, [Next]_vars, Quiet' PROVE TurnInv'
    OBVIOUS
  <2>1. TypeOK
    BY Zenon DEF IInv
  <2>2. Quiet
    BY <2>1, StopIsFinal, Zenon DEF Quiet
  <2>3. CASE UNCHANGED vars
    BY <2>2, <2>3, Zenon DEF TurnInv, OnlyReads, InTurn, LoopFound, Chosen, vars, trees, acceptor, worker
  <2>4. CASE Client
    BY <2>2, <2>4, Zenon DEF Client, TurnInv, OnlyReads, InTurn, LoopFound, Chosen, trees, acceptor, worker
  <2> QED
    BY <2>1, <2>2, <2>3, <2>4, AcceptorTurn, WorkerTurn, Zenon DEF Next
<1>3. (Quiet => TurnInv) => DealtInTurn
  BY Zenon DEF TurnInv, InTurn, DealtInTurn
<1> QED
  BY Invariance, <1>1, <1>2, <1>3, PTL DEF Spec

------------------------------------------------------------------------------
(* Connections that are freed while they are in use *)

\* A worker that is not in rocksShutdown frees connections of its own tree only, so that
\* the connection a worker uses in tcpRead is in its tree, or another one shuts down.
Used ==
  \A w \in Workers : /\ ~stopping[w] => target[w] = w /\ wpc[w] # "freeConns"
                     /\ wpc[w] = "read" => fd[w] \in tree[w] \/ OthersStop(w)

\* The accept thread only adds to the trees.
LEMMA AcceptorUsed == ASSUME TypeOK, Used, Acceptor PROVE Used'
<1>1. UNCHANGED worker
  BY Zenon DEF Acceptor, Accept, AcceptFails, Choose, Refuse, CreateUndefined, createFileEvent, aePollAddEvent,
               AddFails, newConn, newConnEnd
<1>2. \A w \in Workers : tree[w] \subseteq tree'[w]
  <2>1. CASE newConnEnd
    BY <2>1, Zenon DEF newConnEnd, TypeOK
  <2>2. CASE ~newConnEnd
    BY <2>2, Zenon DEF Acceptor, Accept, AcceptFails, Choose, Refuse, CreateUndefined, createFileEvent,
                       aePollAddEvent, AddFails, newConn, trees
  <2> QED
    BY <2>1, <2>2, Zenon
<1> QED
  BY <1>1, <1>2, Zenon DEF Used, OthersStop, worker

\* A worker frees what another one uses only in rocksShutdown.
LEMMA WorkerUsed == ASSUME TypeOK, Used, NEW w \in Workers, Worker(w) PROVE Used'
<1>0. /\ wpc \in [Workers -> WorkerLabels] /\ target \in [Workers -> Workers]
      /\ stopping \in [Workers -> BOOLEAN] /\ tree \in [Workers -> SUBSET Fds]
      /\ DOMAIN fd = Workers
  BY Zenon DEF TypeOK
<1>1. \A v \in Workers : stopping[v] => stopping'[v]
  BY <1>0, Zenon DEF Worker, aePollPoll, Dispatch, Search, SearchEnd, ReadCommand, ReadAgain,
              ReadShutdown, deleteFileEvent, DeleteFails, freeConn, freeConnEnd, freeConns, freeConnsEnd, worker
<1>2. \A v \in Workers : v # w => wpc'[v] = wpc[v] /\ fd'[v] = fd[v] /\ target'[v] = target[v]
                                 /\ stopping'[v] = stopping[v]
  BY <1>0, Zenon DEF Worker, aePollPoll, Dispatch, Search, SearchEnd, ReadCommand, ReadAgain, Goto,
              ReadShutdown, deleteFileEvent, DeleteFails, freeConn, freeConnEnd, freeConns, freeConnsEnd, worker
<1>3. \A v \in Workers : tree'[v] = tree[v] \/ (v = target[w] /\ wpc[w] = "freeing")
  BY <1>0, Zenon DEF Worker, aePollPoll, Dispatch, Search, SearchEnd, ReadCommand, ReadAgain,
              ReadShutdown, deleteFileEvent, DeleteFails, freeConn, freeConnEnd, freeConns, freeConnsEnd, trees
<1>4. ~stopping'[w] => target'[w] = w /\ wpc'[w] # "freeConns"
  <2>1. CASE ReadShutdown(w) \/ freeConns(w) \/ freeConnsEnd(w)
    <3>1. stopping'[w]
      BY <1>0, <1>1, <2>1, Zenon DEF ReadShutdown, freeConns, freeConnsEnd, Used
    <3> QED
      BY <3>1, Zenon
  <2>2. CASE deleteFileEvent(w) \/ DeleteFails(w)
    BY <1>0, <2>2, Zenon DEF deleteFileEvent, DeleteFails, Goto
  <2>3. CASE aePollPoll(w) \/ Dispatch(w) \/ Search(w) \/ SearchEnd(w) \/ ReadCommand(w) \/ ReadAgain(w)
               \/ freeConn(w) \/ freeConnEnd(w)
    <3>1. stopping' = stopping /\ target' = target
      BY <2>3, Zenon DEF aePollPoll, Dispatch, Search, SearchEnd, ReadCommand, ReadAgain, freeConn,
                         freeConnEnd, worker
    <3>2. ~stopping[w] /\ wpc[w] # "freeConns" => wpc'[w] # "freeConns"
      BY <1>0, <2>3, Zenon DEF aePollPoll, Dispatch, Search, SearchEnd, ReadCommand, ReadAgain, freeConn,
                        freeConnEnd, Goto, worker
    <3> QED
      BY <3>1, <3>2, Zenon DEF Used
  <2> QED
    BY <2>1, <2>2, <2>3, Zenon DEF Worker
<1>5. wpc'[w] = "read" => fd'[w] \in tree'[w] \/ OthersStop(w)
  <2>1. CASE SearchEnd(w)
    BY <1>0, <2>1, Zenon DEF SearchEnd, Goto, trees
  <2>2. CASE ReadCommand(w)
    BY <2>2, Zenon DEF ReadCommand, Used, trees, worker
  <2>3. CASE ~SearchEnd(w) /\ ~ReadCommand(w)
    <3>1. wpc'[w] # "read"
      BY <1>0, <2>3, Zenon DEF Worker, aePollPoll, Dispatch, Search, ReadAgain, Goto, ReadShutdown,
                        deleteFileEvent, DeleteFails, freeConn, freeConnEnd, freeConns, freeConnsEnd
    <3> QED
      BY <3>1, Zenon
  <2> QED
    BY <2>1, <2>2, <2>3, Zenon
<1>6. ASSUME NEW v \in Workers, OthersStop(v) PROVE OthersStop(v)'
  BY <1>1, <1>6, Zenon DEF OthersStop
<1>7. ASSUME NEW v \in Workers, v # w, wpc'[v] = "read", ~OthersStop(v)' PROVE fd'[v] \in tree'[v]
  <2>1. ~OthersStop(v)
    BY <1>6, <1>7, Zenon
  <2>2. ~stopping[w] /\ fd[v] \in tree[v]
    BY <1>2, <1>7, <2>1 DEF OthersStop, Used
  <2>3. v # target[w]
    BY <1>7, <2>2, Zenon DEF Used
  <2> QED
    BY <1>2, <1>3, <1>7, <2>2, <2>3, Zenon
<1>8. ASSUME NEW v \in Workers, v # w, ~stopping'[v] PROVE target'[v] = v /\ wpc'[v] # "freeConns"
  BY <1>2, <1>8, Zenon DEF Used
<1> QED
  BY <1>4, <1>5, <1>6, <1>7, <1>8, Zenon DEF Used

\* For any number of workers: a connection that tcpRead uses has not been freed since
\* rb_search found it, unless another worker executes a shutdown command.
THEOREM UsedUntilShutdown == Spec => []FreedOnlyByShutdown
<1>1. Init => Used
  BY Zenon DEF Init, Used
<1>2. IInv /\ Used /\ [Next]_vars => Used'
  <2> SUFFICES ASSUME IInv, Used, [Next]_vars PROVE Used'
    OBVIOUS
  <2>1. CASE Client \/ UNCHANGED vars
    <3>1. UNCHANGED <<tree, wpc, fd, target, stopping>>
      BY <2>1, Zenon DEF Client, vars, trees, worker
    <3> QED
      BY <3>1, Zenon DEF Used, OthersStop
  <2> QED
    BY <2>1, AcceptorUsed, WorkerUsed, Zenon DEF Next, IInv
<1>3. Used => FreedOnlyByShutdown
  BY Zenon DEF Used, FreedOnlyByShutdown
<1> QED
  BY Invariance, <1>1, <1>2, <1>3, PTL DEF Spec

\* So with one worker tcpRead and the callback never use a connection that was freed,
\* whatever clients send, also a shutdown.
THEOREM AloneNoStaleConn == ASSUME THREADCNT = 1 PROVE Spec => []~StaleConn
<1>1. FreedOnlyByShutdown => ~StaleConn
  <2>1. Workers = {0}
    BY DEF Workers
  <2> QED
    BY <2>1, Zenon DEF FreedOnlyByShutdown, OthersStop, StaleConn
<1> QED
  BY UsedUntilShutdown, <1>1, PTL
==============================================================================
