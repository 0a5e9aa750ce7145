------------------------------- MODULE Store ---------------------------------
(***************************************************************************)
(* The commands as the worker threads execute them: kernel/execcommand.c,  *)
(* kernel/ds.cc and the replies of tcpRead, over a RocksDB database whose  *)
(* Put and Get are atomic and which outlives the process.  A failed        *)
(* assertion, or exit(1) after a shutdown command, ends the process with   *)
(* all its threads; it is then started again.                              *)
(***************************************************************************)
EXTENDS FiniteSets

CONSTANTS
  Workers,     \* the worker threads
  Keys, Vals,
  SeedKey,     \* "key", which initDB writes
  SeedVal,     \* "12345678"
  Absent,      \* no value
  None,        \* no thread
  Missing,     \* whether clients get keys that are not there
  Shutdowns    \* whether clients send shutdown commands

ASSUME StoreAssumption ==
  /\ SeedKey \in Keys /\ SeedVal \in Vals
  /\ Absent \notin Vals /\ None \notin Workers
  /\ Missing \in BOOLEAN /\ Shutdowns \in BOOLEAN

VARIABLES
  data,        \* the database: a value, or Absent, for each key
  up,          \* the process runs
  open,        \* db points to an open database
  dbLock,
  pc, key, val,
  value,       \* what db->Get stored in the local variable value
  reply,       \* the last reply to a worker's client
  undefined    \* a deleted database was used

local == <<pc, key, val, value, reply>>
vars == <<data, up, open, dbLock, local, undefined>>

All(x) == [w \in Workers |-> x]

Init ==
  /\ data = [k \in Keys |-> IF k = SeedKey THEN SeedVal ELSE Absent]
  /\ up = TRUE /\ open = TRUE /\ undefined = FALSE
  /\ dbLock = None /\ pc = All("idle") /\ key = All(SeedKey) /\ val = All(SeedVal)
  /\ value = All(Absent) /\ reply = All(Absent)

At(w, label) == up /\ ~undefined /\ pc[w] = label
Goto(w, label) == pc' = [pc EXCEPT ![w] = label]

------------------------------------------------------------------------------
(* The clients *)

CallSet(w, k, v) ==
  /\ At(w, "idle")
  /\ Goto(w, "lock")
  /\ key' = [key EXCEPT ![w] = k] /\ val' = [val EXCEPT ![w] = v]
  /\ UNCHANGED <<data, up, open, dbLock, value, reply, undefined>>

CallGet(w, k) ==
  /\ At(w, "idle")
  /\ Missing \/ data[k] # Absent
  /\ Goto(w, "get")
  /\ key' = [key EXCEPT ![w] = k]
  /\ UNCHANGED <<data, up, open, dbLock, val, value, reply, undefined>>

CallShutdown(w) ==
  /\ Shutdowns
  /\ At(w, "idle")
  /\ Goto(w, "shutdown")
  /\ UNCHANGED <<data, up, open, dbLock, key, val, value, reply, undefined>>

Client(w) == (\E k \in Keys, v \in Vals : CallSet(w, k, v)) \/ (\E k \in Keys : CallGet(w, k))
               \/ CallShutdown(w)

------------------------------------------------------------------------------
(* rocksSet *)

\* As Lock, but there is no lock.
Lock_Missing(w) ==
  /\ At(w, "lock")
  /\ Goto(w, "put")
  /\ UNCHANGED <<data, up, open, dbLock, key, val, value, reply, undefined>>

Lock(w) ==
  /\ At(w, "lock")
  /\ dbLock = None
  /\ dbLock' = w
  /\ Goto(w, "put")
  /\ UNCHANGED <<data, up, open, key, val, value, reply, undefined>>

Put(w) ==
  /\ At(w, "put")
  /\ open
  /\ data' = [data EXCEPT ![key[w]] = val[w]]
  /\ Goto(w, "check")
  /\ UNCHANGED <<up, open, dbLock, key, val, value, reply, undefined>>

\* The Get that follows; its assert holds, as nothing removes a key.
Check(w) ==
  /\ At(w, "check")
  /\ open
  /\ value' = [value EXCEPT ![w] = data[key[w]]]
  /\ Goto(w, "unlock")
  /\ UNCHANGED <<data, up, open, dbLock, key, val, reply, undefined>>

\* As Unlock, but the lock is kept.
Unlock_Missing(w) ==
  /\ At(w, "unlock")
  /\ reply' = [reply EXCEPT ![w] = "set ok"]
  /\ Goto(w, "idle")
  /\ UNCHANGED <<data, up, open, dbLock, key, val, value, undefined>>

\* The unlock, and the reply of tcpRead.
Unlock(w) ==
  /\ At(w, "unlock")
  /\ dbLock' = None
  /\ reply' = [reply EXCEPT ![w] = "set ok"]
  /\ Goto(w, "idle")
  /\ UNCHANGED <<data, up, open, key, val, value, undefined>>

------------------------------------------------------------------------------
(* rocksGet *)

\* As Get, but without the assertion.
Get_NoAssert(w) ==
  /\ At(w, "get")
  /\ open
  /\ value' = [value EXCEPT ![w] = data[key[w]]]
  /\ Goto(w, "got")
  /\ UNCHANGED <<data, up, open, dbLock, key, val, reply, undefined>>

Get(w) ==
  /\ At(w, "get")
  /\ open
  /\ data[key[w]] # Absent
  /\ value' = [value EXCEPT ![w] = data[key[w]]]
  /\ Goto(w, "got")
  /\ UNCHANGED <<data, up, open, dbLock, key, val, reply, undefined>>

\* execGetCommand returns NULL whatever was found.
GetReply(w) ==
  /\ At(w, "got")
  /\ reply' = [reply EXCEPT ![w] = "not found."]
  /\ Goto(w, "idle")
  /\ UNCHANGED <<data, up, open, dbLock, key, val, value, undefined>>

\* assert(s.ok()) fails for a key that is not there.
GetAbort(w) ==
  /\ At(w, "get")
  /\ open
  /\ data[key[w]] = Absent
  /\ up' = FALSE
  /\ UNCHANGED <<data, open, dbLock, local, undefined>>

------------------------------------------------------------------------------
(* rocksShutdown, what another thread meets after it, and the next start *)

Delete(w) ==
  /\ At(w, "shutdown")
  /\ open
  /\ open' = FALSE
  /\ Goto(w, "exit")
  /\ UNCHANGED <<data, up, dbLock, key, val, value, reply, undefined>>

Exit(w) ==
  /\ At(w, "exit")
  /\ up' = FALSE
  /\ UNCHANGED <<data, open, dbLock, local, undefined>>

UseDeleted(w) ==
  /\ \/ At(w, "put") \/ At(w, "check") \/ At(w, "get") \/ At(w, "shutdown")
  /\ ~open
  /\ undefined' = TRUE
  /\ UNCHANGED <<data, up, open, dbLock, local>>

\* As initDB, but the database is created anew.
initDB_Anew ==
  /\ ~up
  /\ up' = TRUE /\ open' = TRUE
  /\ data' = [k \in Keys |-> IF k = SeedKey THEN SeedVal ELSE Absent]
  /\ dbLock' = None /\ pc' = All("idle") /\ key' = All(SeedKey) /\ val' = All(SeedVal)
  /\ value' = All(Absent) /\ reply' = All(Absent)
  /\ UNCHANGED undefined

\* main and initDB: the key "key" is written at every start.
initDB ==
  /\ ~up
  /\ up' = TRUE /\ open' = TRUE
  /\ data' = [data EXCEPT ![SeedKey] = SeedVal]
  /\ dbLock' = None /\ pc' = All("idle") /\ key' = All(SeedKey) /\ val' = All(SeedVal)
  /\ value' = All(Absent) /\ reply' = All(Absent)
  /\ UNCHANGED undefined

Command(w) == Lock(w) \/ Put(w) \/ Check(w) \/ Unlock(w) \/ Get(w) \/ GetReply(w)
                \/ GetAbort(w) \/ Delete(w) \/ Exit(w) \/ UseDeleted(w)

Next == initDB \/ \E w \in Workers : Client(w) \/ Command(w)

\* The worker threads are scheduled.
Spec == Init /\ [][Next]_vars /\ \A w \in Workers : WF_vars(Command(w))

------------------------------------------------------------------------------
(* Properties *)

Labels == {"idle", "lock", "put", "check", "unlock", "get", "got", "shutdown", "exit"}

\* The types of the variables; value is set once a Get has passed its assertion.
TypeOK ==
  /\ data \in [Keys -> Vals \cup {Absent}]
  /\ up \in BOOLEAN /\ open \in BOOLEAN /\ undefined \in BOOLEAN
  /\ dbLock \in Workers \cup {None}
  /\ pc \in [Workers -> Labels] /\ key \in [Workers -> Keys] /\ val \in [Workers -> Vals]
  /\ value \in [Workers -> Vals \cup {Absent}]
  /\ reply \in [Workers -> {Absent, "set ok", "not found."}]
  /\ \A w \in Workers : pc[w] \in {"unlock", "got"} => value[w] \in Vals

\* The Get inside rocksSet reads what the Put before it stored, also when another
\* worker sets the same key: that is what dbLock is for.
SetReadsOwnWrite == \A w \in Workers : pc[w] = "unlock" => value[w] = val[w]

\* The commands keep the promise of KVStore: "set ok" is sent after the value is
\* stored, every set takes effect once, a get finds the value stored at that moment
\* (rocksGet prints it; the reply does not have it, see NotFoundIsAbsent), and a
\* stored value survives a failed assertion, a shutdown and the next start, except
\* at the key that initDB writes.
AbstractCall ==
  [w \in Workers |->
     IF ~up \/ pc[w] \in {"idle", "shutdown", "exit"} THEN [op |-> "idle"]
     ELSE IF pc[w] \in {"lock", "put"} THEN [op |-> "set", key |-> key[w], val |-> val[w]]
     ELSE IF pc[w] = "get" THEN [op |-> "get", key |-> key[w]]
     ELSE IF pc[w] = "got" THEN [op |-> "found", val |-> value[w]]
     ELSE [op |-> "stored"]]

KV == INSTANCE KVStore WITH call <- AbstractCall, Seeded <- {SeedKey}
ImplementsKVStore == KV!Spec

\* A worker that has dbLock, or does not need it, finishes its command and leaves
\* the lock free, unless the process ends or the database is deleted under it.
\* (A worker that waits for the lock may wait for ever: a mutex is not fair.)
CommandFinishes ==
  \A w \in Workers :
    (pc[w] \notin {"idle", "lock"}) ~> ((pc[w] = "idle" /\ dbLock # w) \/ ~up \/ undefined)

\* What tcpRead answers to a get (tcpsocket.c:69): "not found." for a key that is
\* not there.
NotFoundIsAbsent ==
  \A w \in Workers : pc[w] = "idle" /\ reply[w] = "not found." => data[key[w]] = Absent

\* A get of a key that is not there gets this answer, too: the server survives it.
GetSurvives == \A w \in Workers : pc[w] = "get" /\ open => up
==============================================================================
