------------------------------ MODULE ConnIndex ------------------------------
(***************************************************************************)
(* What net/rbtree.h promises to net/conn.c and net/tcpsocket.c: an index  *)
(* of keys (connection file descriptors) with three operations.  A caller  *)
(* sees the index only through the answers of rb_search.                   *)
(***************************************************************************)
CONSTANT Keys

VARIABLES members,  \* the keys the index holds
          answer    \* what the last call answered, if it was an rb_search:
                    \*   the key and whether it was found

vars == <<members, answer>>

NoAnswer == <<>>

Init == /\ members = {}
        /\ answer = NoAnswer

\* A call begins; what it will answer is not known yet.
Begin == /\ answer' = NoAnswer
         /\ UNCHANGED members

\* rb_insert: a key that is already there is left alone.
Insert(k) == /\ members' = members \cup {k}
             /\ UNCHANGED answer

\* rb_erase: a key that is not there is left alone.
Erase(k) == /\ members' = members \ {k}
            /\ UNCHANGED answer

\* rb_search
Search(k) == /\ answer' = <<k, k \in members>>
             /\ UNCHANGED members

Next == \/ Begin
        \/ \E k \in Keys : Insert(k) \/ Erase(k) \/ Search(k)

Spec == Init /\ [][Next]_vars
==============================================================================
