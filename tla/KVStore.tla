------------------------------ MODULE KVStore --------------------------------
(***************************************************************************)
(* What the commands promise their clients: every set and every get takes  *)
(* effect at one moment between its call and its reply; a get finds what   *)
(* is stored at that moment; and what a set stored outlives the process,   *)
(* except at keys the program writes itself when it starts.                *)
(***************************************************************************)
CONSTANTS Workers, Keys, Vals, Absent, Seeded

VARIABLES data, call

Sets == [op : {"set"}, key : Keys, val : Vals]
Gets == [op : {"get"}, key : Keys]
Idle == [op |-> "idle"]
Stored == [op |-> "stored"]
Found(v) == [op |-> "found", val |-> v]

Init == data \in [Keys -> Vals \cup {Absent}] /\ call = [w \in Workers |-> Idle]

Call(w) == /\ call[w] = Idle
           /\ \E c \in Sets \cup Gets : call' = [call EXCEPT ![w] = c]
           /\ UNCHANGED data

\* The moments at which a command takes effect.  A key that is not there is not
\* found: a get of it has no moment, and can only be lost with the process.
ApplySet(w) == /\ call[w].op = "set"
               /\ call' = [call EXCEPT ![w] = Stored]
               /\ data' = [data EXCEPT ![call[w].key] = call[w].val]

ApplyGet(w) == /\ call[w].op = "get"
               /\ data[call[w].key] # Absent
               /\ call' = [call EXCEPT ![w] = Found(data[call[w].key])]
               /\ UNCHANGED data

Reply(w) == /\ call[w].op \in {"stored", "found"}
            /\ call' = [call EXCEPT ![w] = Idle]
            /\ UNCHANGED data

\* The process ends; calls under way are lost, and what they have stored is not.
End == call' = [w \in Workers |-> Idle] /\ UNCHANGED data

Start == /\ \A k \in Keys \ Seeded : data'[k] = data[k]
         /\ DOMAIN data' = Keys
         /\ UNCHANGED call

Next == End \/ Start \/ \E w \in Workers : Call(w) \/ ApplySet(w) \/ ApplyGet(w) \/ Reply(w)

Spec == Init /\ [][Next]_<<data, call>>
==============================================================================
