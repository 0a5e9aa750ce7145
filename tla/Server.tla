------------------------------- MODULE Server --------------------------------
(***************************************************************************)
(* The life of connections: the accept thread (threads/threads.c,          *)
(* tcpAcceptCallback), the worker threads (mainLoop, tcpReadCallback), the *)
(* event loops they share (net/event.c, net/aepoll.c), the connection      *)
(* trees with their counters (net/conn.c) and a shutdown command           *)
(* (kernel/ds.cc).                                                         *)
(*                                                                         *)
(* A request is read and executed in one step here (module Codec follows   *)
(* its bytes), and a tree is the set of its keys (module RbTree follows    *)
(* its pointers).  The accept thread takes no lock when it inserts in a    *)
(* worker's tree, so an access to a tree has a beginning and an end; when  *)
(* two accesses that conflict overlap, or a freed connection is used, the  *)
(* behaviour of the program is undefined and is not followed any further.  *)
(***************************************************************************)
EXTENDS Integers, Sequences, FiniteSets

CONSTANTS
  THREADCNT,     \* worker threads, event loops and trees
  setsize,       \* entries of fEvents
  Fds,           \* the descriptors accept may return
  MaxRequests,   \* bound: requests sent on one connection
  Hangups,       \* the connections whose clients may close their side
  Stoppers,      \* the connections whose clients may send a shutdown command
  Failures,      \* whether epoll_ctl and the fcntl of tcpNonBlock may fail
  None           \* no thread, no descriptor

ASSUME ServerAssumption ==
  /\ THREADCNT \in Nat \ {0}
  /\ setsize \in Nat
  /\ Fds \subseteq Nat /\ IsFiniteSet(Fds)
  /\ MaxRequests \in Nat
  /\ Hangups \subseteq Fds /\ Stoppers \subseteq Fds /\ Failures \in BOOLEAN
  /\ None \notin Nat

Workers == 0..(THREADCNT - 1)

VARIABLES
  \* the sockets
  backlog,     \* connections not yet accepted, named by the descriptor they will get
  open,        \* descriptors that accept has returned; none is ever closed
  inbox,       \* the requests that can be read from a descriptor
  asked,       \* how many were sent in all
  fin,         \* whether the client has closed its side
  \* the globals: globalEloop[w] and its epoll set, globalconnTree[w], connLock
  mask,        \* descriptors whose fEvents entry has the READABLE bit
  interest,    \* descriptors in the epoll set
  tree,        \* keys of the connection tree
  connCnt,
  connLock,
  \* the accept thread
  apc, connfd, i, minconnsindex,
  \* the worker threads
  wpc,
  fired,       \* descriptors reported by aePollPoll and not yet dispatched
  fd,          \* the descriptor being handled
  target,      \* the tree that freeConn and freeConns work on
  stopping,    \* whether the worker is in rocksShutdown
  exited       \* whether exit was called

sockets == <<backlog, open, inbox, asked, fin>>
events == <<mask, interest>>
trees == <<tree, connCnt, connLock>>
acceptor == <<apc, connfd, i, minconnsindex>>
worker == <<wpc, fired, fd, target, stopping, exited>>
vars == <<sockets, events, trees, acceptor, worker>>

Init ==
  /\ backlog = <<>> /\ open = {} /\ inbox = [f \in Fds |-> <<>>]
  /\ asked = [f \in Fds |-> 0] /\ fin = [f \in Fds |-> FALSE]
  /\ mask = [w \in Workers |-> {}] /\ interest = [w \in Workers |-> {}]
  /\ tree = [w \in Workers |-> {}] /\ connCnt = [w \in Workers |-> 0] /\ connLock = None
  /\ apc = "poll" /\ connfd = None /\ i = 1 /\ minconnsindex = 0
  /\ wpc = [w \in Workers |-> "loop"] /\ fired = [w \in Workers |-> {}]
  /\ fd = [w \in Workers |-> None] /\ target = [w \in Workers |-> w]
  /\ stopping = [w \in Workers |-> FALSE] /\ exited = FALSE

------------------------------------------------------------------------------
(* The clients *)

Waiting == {backlog[k] : k \in 1..Len(backlog)}
Connected == open \cup Waiting

Connect(f) ==
  /\ f \notin Connected
  /\ backlog' = Append(backlog, f)
  /\ UNCHANGED <<open, inbox, asked, fin>>

Send(f, request) ==
  /\ f \in Connected
  /\ ~fin[f]
  /\ asked[f] < MaxRequests
  /\ inbox' = [inbox EXCEPT ![f] = Append(@, request)]
  /\ asked' = [asked EXCEPT ![f] = @ + 1]
  /\ UNCHANGED <<backlog, open, fin>>

Hangup(f) ==
  /\ f \in Hangups
  /\ f \in Connected
  /\ ~fin[f]
  /\ fin' = [fin EXCEPT ![f] = TRUE]
  /\ UNCHANGED <<backlog, open, inbox, asked>>

Client ==
  /\ \E f \in Fds :
       \/ Connect(f)
       \/ Send(f, "command")
       \/ f \in Stoppers /\ Send(f, "shutdown")
       \/ Hangup(f)
  /\ UNCHANGED <<events, trees, acceptor, worker>>

------------------------------------------------------------------------------
(* The accept thread: tcpAcceptCallback *)

\* tcpAccept, and the start of the loop over the trees.
Accept ==
  /\ apc = "poll"
  /\ backlog # <<>>
  /\ connfd' = Head(backlog)
  /\ backlog' = Tail(backlog)
  /\ open' = open \cup {Head(backlog)}
  /\ i' = 1
  /\ minconnsindex' = 0
  /\ apc' = "choose"
  /\ UNCHANGED <<inbox, asked, fin, events, trees, worker>>

\* tcpNonBlock fails: the callback gives up, and the descriptor stays open.  (An
\* accept that fails takes nothing off the queue and changes nothing.)
AcceptFails ==
  /\ Failures
  /\ apc = "poll"
  /\ backlog # <<>>
  /\ backlog' = Tail(backlog)
  /\ open' = open \cup {Head(backlog)}
  /\ UNCHANGED <<inbox, asked, fin, events, trees, acceptor, worker>>

\* As Choose, but a tie goes to the later tree.
Choose_LessEqual ==
  /\ apc = "choose"
  /\ i < THREADCNT
  /\ minconnsindex' = IF connCnt[i] <= connCnt[i - 1] THEN i ELSE minconnsindex
  /\ i' = i + 1
  /\ UNCHANGED <<sockets, events, trees, apc, connfd, worker>>

\* One iteration.  The counters are read without a lock while workers change them.
Choose ==
  /\ apc = "choose"
  /\ i < THREADCNT
  /\ minconnsindex' = IF connCnt[i] < connCnt[i - 1] THEN i ELSE minconnsindex
  /\ i' = i + 1
  /\ UNCHANGED <<sockets, events, trees, apc, connfd, worker>>

\* createFileEvent refuses a descriptor above setsize: the callback gives up,
\* and the descriptor stays open.
Refuse ==
  /\ apc = "choose"
  /\ i = THREADCNT
  /\ connfd > setsize
  /\ apc' = "poll"
  /\ connfd' = None
  /\ UNCHANGED <<sockets, events, trees, i, minconnsindex, worker>>

\* It does not refuse setsize itself, one behind the last entry of fEvents.
CreateUndefined ==
  /\ apc = "choose"
  /\ i = THREADCNT
  /\ connfd = setsize
  /\ apc' = "undefined"
  /\ UNCHANGED <<sockets, events, trees, connfd, i, minconnsindex, worker>>

createFileEvent ==
  /\ apc = "choose"
  /\ i = THREADCNT
  /\ connfd < setsize
  /\ mask' = [mask EXCEPT ![minconnsindex] = @ \cup {connfd}]
  /\ apc' = "add"
  /\ UNCHANGED <<sockets, interest, trees, connfd, i, minconnsindex, worker>>

aePollAddEvent ==
  /\ apc = "add"
  /\ interest' = [interest EXCEPT ![minconnsindex] = @ \cup {connfd}]
  /\ apc' = "new"
  /\ UNCHANGED <<sockets, mask, trees, connfd, i, minconnsindex, worker>>

\* epoll_ctl fails.  The callback gives up and leaves the READABLE bit; before
\* that it logs with a format for which there is no argument.
AddFails ==
  /\ Failures
  /\ apc = "add"
  /\ apc' \in {"poll", "undefined"}
  /\ connfd' = None
  /\ UNCHANGED <<sockets, events, trees, i, minconnsindex, worker>>

\* newConn, up to the call of tree->ins and from there.
newConn ==
  /\ apc = "new"
  /\ apc' = "inserting"
  /\ UNCHANGED <<sockets, events, trees, connfd, i, minconnsindex, worker>>

\* As newConnEnd, but always in the first tree.
newConnEnd_FirstTree ==
  /\ apc = "inserting"
  /\ tree' = [tree EXCEPT ![0] = @ \cup {connfd}]
  /\ connCnt' = [connCnt EXCEPT ![0] = @ + 1]
  /\ apc' = "poll"
  /\ connfd' = None
  /\ UNCHANGED <<sockets, events, connLock, i, minconnsindex, worker>>

newConnEnd ==
  /\ apc = "inserting"
  /\ tree' = [tree EXCEPT ![minconnsindex] = @ \cup {connfd}]
  /\ connCnt' = [connCnt EXCEPT ![minconnsindex] = @ + 1]
  /\ apc' = "poll"
  /\ connfd' = None
  /\ UNCHANGED <<sockets, events, connLock, i, minconnsindex, worker>>

Acceptor == Accept \/ AcceptFails \/ Choose \/ Refuse \/ CreateUndefined \/ createFileEvent
              \/ aePollAddEvent \/ AddFails \/ newConn \/ newConnEnd

------------------------------------------------------------------------------
(* A worker thread: mainLoop and tcpReadCallback *)

Goto(w, label) == wpc' = [wpc EXCEPT ![w] = label]

\* epoll is level triggered: it reports what can be read now.
Ready(w) == {f \in interest[w] : inbox[f] # <<>> \/ fin[f]}

aePollPoll(w) ==
  /\ wpc[w] = "loop"
  /\ fired[w] = {}
  /\ Ready(w) # {}
  /\ fired' = [fired EXCEPT ![w] = Ready(w)]
  /\ UNCHANGED <<sockets, events, trees, acceptor, wpc, fd, target, stopping, exited>>

\* The next event, in the order epoll gave them; skipped if it is not valid any more.
Dispatch(w) ==
  /\ wpc[w] = "loop"
  /\ \E f \in fired[w] :
       /\ fired' = [fired EXCEPT ![w] = @ \ {f}]
       /\ fd' = [fd EXCEPT ![w] = f]
       /\ Goto(w, IF f \in mask[w] THEN "search" ELSE "loop")
  /\ UNCHANGED <<sockets, events, trees, acceptor, target, stopping, exited>>

\* rb_search in the worker's own tree, which takes no lock.
Search(w) ==
  /\ wpc[w] = "search"
  /\ Goto(w, "searching")
  /\ UNCHANGED <<sockets, events, trees, acceptor, fired, fd, target, stopping, exited>>

\* As SearchEnd, but the result of rb_search is not tested.
SearchEnd_NoTest(w) ==
  /\ wpc[w] = "searching"
  /\ Goto(w, "read")
  /\ UNCHANGED <<sockets, events, trees, acceptor, fired, fd, target, stopping, exited>>

\* The descriptor of a connection that newConn has not inserted yet is left for
\* the next round.
SearchEnd(w) ==
  /\ wpc[w] = "searching"
  /\ Goto(w, IF fd[w] \in tree[w] THEN "read" ELSE "loop")
  /\ UNCHANGED <<sockets, events, trees, acceptor, fired, fd, target, stopping, exited>>

\* tcpRead reads and executes a request.
ReadCommand(w) ==
  /\ wpc[w] = "read"
  /\ inbox[fd[w]] # <<>>
  /\ Head(inbox[fd[w]]) = "command"
  /\ inbox' = [inbox EXCEPT ![fd[w]] = Tail(@)]
  /\ UNCHANGED <<backlog, open, asked, fin, events, trees, acceptor, worker>>

\* As ReadAgain, but the loop goes on: the worker waits for this descriptor.
ReadAgain_Wait(w) ==
  /\ wpc[w] = "read"
  /\ inbox[fd[w]] = <<>>
  /\ ~fin[fd[w]]
  /\ UNCHANGED vars

\* EAGAIN
ReadAgain(w) ==
  /\ wpc[w] = "read"
  /\ inbox[fd[w]] = <<>>
  /\ ~fin[fd[w]]
  /\ Goto(w, "loop")
  /\ UNCHANGED <<sockets, events, trees, acceptor, fired, fd, target, stopping, exited>>

\* As deleteFileEvent, but without aePollDeleteEvent.
deleteFileEvent_StillPolled(w) ==
  /\ wpc[w] = "read"
  /\ inbox[fd[w]] = <<>>
  /\ fin[fd[w]]
  /\ mask' = [mask EXCEPT ![w] = @ \ {fd[w]}]
  /\ target' = [target EXCEPT ![w] = w]
  /\ Goto(w, "lock")
  /\ UNCHANGED <<sockets, interest, trees, acceptor, fired, fd, stopping, exited>>

\* read returns 0: deleteFileEvent, and then freeConn up to its lock.
deleteFileEvent(w) ==
  /\ wpc[w] = "read"
  /\ inbox[fd[w]] = <<>>
  /\ fin[fd[w]]
  /\ mask' = [mask EXCEPT ![w] = @ \ {fd[w]}]
  /\ interest' = [interest EXCEPT ![w] = @ \ {fd[w]}]
  /\ target' = [target EXCEPT ![w] = w]
  /\ Goto(w, "lock")
  /\ UNCHANGED <<sockets, trees, acceptor, fired, fd, stopping, exited>>

\* epoll_ctl fails in aePollDeleteEvent, whose value is then -1: deleteFileEvent
\* returns before it clears the mask, and freeConn is called all the same.
DeleteFails(w) ==
  /\ Failures
  /\ wpc[w] = "read"
  /\ inbox[fd[w]] = <<>>
  /\ fin[fd[w]]
  /\ target' = [target EXCEPT ![w] = w]
  /\ Goto(w, "lock")
  /\ UNCHANGED <<sockets, events, trees, acceptor, fired, fd, stopping, exited>>

\* freeConn: pthread_mutex_lock(&connLock)
freeConn(w) ==
  /\ wpc[w] = "lock"
  /\ connLock = None
  /\ connLock' = w
  /\ Goto(w, "freeing")
  /\ UNCHANGED <<sockets, events, tree, connCnt, acceptor, fired, fd, target, stopping, exited>>

\* As freeConnEnd, but it does not ask whether the connection is still there.
freeConnEnd_NoSearch(w) ==
  LET t == target[w] IN
  /\ wpc[w] = "freeing"
  /\ tree' = [tree EXCEPT ![t] = @ \ {fd[w]}]
  /\ connCnt' = [connCnt EXCEPT ![t] = @ - 1]
  /\ connLock' = None
  /\ Goto(w, IF stopping[w] THEN "freeConns" ELSE "loop")
  /\ UNCHANGED <<sockets, events, acceptor, fired, fd, target, stopping, exited>>

\* As freeConnEnd, but the lock is kept.
freeConnEnd_NoUnlock(w) ==
  LET t == target[w] IN
  /\ wpc[w] = "freeing"
  /\ tree' = [tree EXCEPT ![t] = @ \ {fd[w]}]
  /\ connCnt' = [connCnt EXCEPT ![t] = @ - 1]
  /\ Goto(w, IF stopping[w] THEN "freeConns" ELSE "loop")
  /\ UNCHANGED <<sockets, events, connLock, acceptor, fired, fd, target, stopping, exited>>

\* The rest of freeConn: the connection is erased and freed if it is there.
\* The descriptor is not closed.
freeConnEnd(w) ==
  LET t == target[w] IN
  /\ wpc[w] = "freeing"
  /\ IF connCnt[t] > 0 /\ fd[w] \in tree[t]
     THEN /\ tree' = [tree EXCEPT ![t] = @ \ {fd[w]}]
          /\ connCnt' = [connCnt EXCEPT ![t] = @ - 1]
     ELSE UNCHANGED <<tree, connCnt>>
  /\ connLock' = None
  /\ Goto(w, IF stopping[w] THEN "freeConns" ELSE "loop")
  /\ UNCHANGED <<sockets, events, acceptor, fired, fd, target, stopping, exited>>

\* As ReadShutdown, but connLock is taken around the whole of it.
ReadShutdown_Locked(w) ==
  /\ wpc[w] = "read"
  /\ inbox[fd[w]] # <<>>
  /\ Head(inbox[fd[w]]) = "shutdown"
  /\ connLock = None
  /\ connLock' = w
  /\ inbox' = [inbox EXCEPT ![fd[w]] = Tail(@)]
  /\ stopping' = [stopping EXCEPT ![w] = TRUE]
  /\ target' = [target EXCEPT ![w] = 0]
  /\ Goto(w, "freeConns")
  /\ UNCHANGED <<backlog, open, asked, fin, events, tree, connCnt, acceptor, fired, fd, exited>>

\* tcpRead executes a shutdown: rocksShutdown, which frees every connection of
\* every tree, also those of other workers.
ReadShutdown(w) ==
  /\ wpc[w] = "read"
  /\ inbox[fd[w]] # <<>>
  /\ Head(inbox[fd[w]]) = "shutdown"
  /\ inbox' = [inbox EXCEPT ![fd[w]] = Tail(@)]
  /\ stopping' = [stopping EXCEPT ![w] = TRUE]
  /\ target' = [target EXCEPT ![w] = 0]
  /\ Goto(w, "freeConns")
  /\ UNCHANGED <<backlog, open, asked, fin, events, trees, acceptor, fired, fd, exited>>

\* One iteration of freeConns: the connection at the root of the tree.
freeConns(w) ==
  /\ wpc[w] = "freeConns"
  /\ connCnt[target[w]] > 0
  /\ \E root \in tree[target[w]] : fd' = [fd EXCEPT ![w] = root]
  /\ Goto(w, "lock")
  /\ UNCHANGED <<sockets, events, trees, acceptor, fired, target, stopping, exited>>

\* As freeConnsEnd, but the loop over the trees goes one too far.
freeConnsEnd_OneMore(w) ==
  /\ wpc[w] = "freeConns"
  /\ connCnt[target[w]] <= 0
  /\ IF target[w] + 1 <= THREADCNT
     THEN target' = [target EXCEPT ![w] = @ + 1] /\ UNCHANGED exited
     ELSE exited' = TRUE /\ UNCHANGED target
  /\ UNCHANGED <<sockets, events, trees, acceptor, wpc, fired, fd, stopping>>

\* A tree is empty: on to the next one, and after the last one exit(1).
freeConnsEnd(w) ==
  /\ wpc[w] = "freeConns"
  /\ connCnt[target[w]] <= 0
  /\ IF target[w] + 1 < THREADCNT
     THEN target' = [target EXCEPT ![w] = @ + 1] /\ UNCHANGED exited
     ELSE exited' = TRUE /\ UNCHANGED target
  /\ UNCHANGED <<sockets, events, trees, acceptor, wpc, fired, fd, stopping>>

Worker(w) == aePollPoll(w) \/ Dispatch(w) \/ Search(w) \/ SearchEnd(w)
               \/ ReadCommand(w) \/ ReadAgain(w) \/ ReadShutdown(w)
               \/ deleteFileEvent(w) \/ DeleteFails(w) \/ freeConn(w) \/ freeConnEnd(w)
               \/ freeConns(w) \/ freeConnsEnd(w)

------------------------------------------------------------------------------
(* Accesses to a tree and its counter that overlap *)

Reads(w, t) == (wpc[w] = "searching" /\ t = w) \/ (wpc[w] = "freeConns" /\ t = target[w])
Writes(w, t) == wpc[w] = "freeing" /\ t = target[w]
AcceptWrites(t) == apc = "inserting" /\ t = minconnsindex

Race == \E t \in Workers :
          \/ AcceptWrites(t) /\ \E w \in Workers : Reads(w, t) \/ Writes(w, t)
          \/ \E w, v \in Workers : w # v /\ Writes(w, t) /\ (Reads(v, t) \/ Writes(v, t))

\* A worker in tcpRead uses a connection that another thread has freed.
StaleConn == \E w \in Workers : wpc[w] = "read" /\ fd[w] \notin tree[w]

Undefined == Race \/ StaleConn \/ apc = "undefined"
Stopped == Undefined \/ exited

Next ==
  /\ ~Stopped
  /\ Client \/ Acceptor \/ \E w \in Workers : Worker(w)

\* Every thread is scheduled; epoll_wait does not block any of them.
Fairness == WF_vars(~Stopped /\ Acceptor) /\ \A w \in Workers : WF_vars(~Stopped /\ Worker(w))

Spec == Init /\ [][Next]_vars /\ Fairness

------------------------------------------------------------------------------
(* Properties *)

AcceptLabels == {"poll", "choose", "add", "new", "inserting", "undefined"}
WorkerLabels == {"loop", "search", "searching", "read", "lock", "freeing", "freeConns"}

\* The types of the variables.
TypeOK ==
  /\ backlog \in Seq(Fds) /\ open \subseteq Fds
  /\ inbox \in [Fds -> Seq({"command", "shutdown"})]
  /\ asked \in [Fds -> 0..MaxRequests] /\ fin \in [Fds -> BOOLEAN]
  /\ mask \in [Workers -> SUBSET Fds] /\ interest \in [Workers -> SUBSET Fds]
  /\ tree \in [Workers -> SUBSET Fds] /\ connCnt \in [Workers -> Int]
  /\ connLock \in Workers \cup {None}
  /\ apc \in AcceptLabels /\ connfd \in Fds \cup {None}
  /\ i \in 1..THREADCNT /\ minconnsindex \in Workers
  /\ wpc \in [Workers -> WorkerLabels] /\ fired \in [Workers -> SUBSET Fds]
  /\ fd \in [Workers -> Fds \cup {None}] /\ target \in [Workers -> Workers]
  /\ stopping \in [Workers -> BOOLEAN] /\ exited \in BOOLEAN

\* The accept thread is registering this descriptor and has not inserted it.
BeingAdded(w, f) == w = minconnsindex /\ f = connfd /\ apc \in {"add", "new", "inserting"}

\* A worker has dropped the event of this descriptor and has not freed it.
BeingFreed(w, f) == wpc[w] \in {"lock", "freeing"} /\ f = fd[w]

\* A descriptor belongs to one worker: no two event loops, and no two trees,
\* ever hold the same descriptor, whatever the order of accepts and hangups.
OneOwner ==
  \A w, v \in Workers : w # v =>
    (mask[w] \cup tree[w]) \cap (mask[v] \cup tree[v]) = {}

\* Until a shutdown, the event loop and the tree of a worker (createFileEvent,
\* aePollAddEvent and newConn; deleteFileEvent and freeConn) hold the same
\* descriptors, but for the one the accept thread is adding and the one the
\* worker is freeing.  When epoll_ctl fails, the loop may keep a descriptor
\* without a connection, but only one whose client has hung up.
EventIffConn ==
  (\A w \in Workers : ~stopping[w]) =>
    \A w \in Workers, f \in Fds :
      /\ f \in interest[w] => f \in mask[w]
      /\ f \in interest[w] => f \in tree[w] \/ BeingAdded(w, f) \/ (Failures /\ fin[f])
      /\ f \in tree[w] => f \in interest[w] \/ BeingFreed(w, f)

\* connCnt, on which the choice of a worker and the loop of freeConns depend, is
\* the number of connections in the tree.
CountIsSize == \A w \in Workers : connCnt[w] = Cardinality(tree[w])

\* Another worker executes a shutdown command.
OthersStop(w) == \E v \in Workers \ {w} : stopping[v]

\* A connection that tcpRead and the callback use is in the worker's tree, and has
\* not been freed since rb_search found it, whatever the accept thread and the
\* other workers do, unless one of those executes a shutdown: rocksShutdown frees
\* the connections of all workers (ds.cc:52-54), also one that is in use.
FreedOnlyByShutdown ==
  \A w \in Workers : wpc[w] = "read" => fd[w] \in tree[w] \/ OthersStop(w)

\* No client has hung up and no worker has begun a shutdown.
Quiet == (\A f \in Fds : ~fin[f]) /\ (\A w \in Workers : ~stopping[w])

\* Until a client hangs up or shuts the server down, tcpAcceptCallback deals
\* connections to the workers in turn: a worker never has fewer than a later
\* one, nor two more.
DealtInTurn ==
  Quiet => \A w, v \in Workers : w < v => connCnt[w] - connCnt[v] \in {0, 1}

\* A request that reaches the server is executed, also one that is sent before
\* the connection is accepted or inserted, unless the behaviour of the program
\* becomes undefined or it exits.
RequestExecuted == \A f \in Fds : (inbox[f] # <<>>) ~> (inbox[f] = <<>> \/ Stopped)

\* The connection of a client that hangs up is taken out of the tree.
HangupFreed ==
  \A w \in Workers, f \in Fds :
    (fin[f] /\ f \in tree[w]) ~> (f \notin tree[w] \/ Stopped)

\* A shutdown command makes the program exit.
ShutdownExits == \A w \in Workers : stopping[w] ~> Stopped

\* What threads.c:37 says, "each thread has its own connection [t]ree": no access
\* of a thread to a tree overlaps one of another thread that conflicts with it.
NoRace == ~Race
==============================================================================
