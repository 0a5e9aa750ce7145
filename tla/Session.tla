------------------------------- MODULE Session -------------------------------
(***************************************************************************)
(* What a client of one connection may rely on: its commands are executed  *)
(* one at a time, in the order it sent them, each exactly once, and each   *)
(* is answered in the step that executes it, or ends the server: after     *)
(* that nothing is executed any more.                                      *)
(***************************************************************************)
EXTENDS Naturals, Sequences

CONSTANTS
  Commands,           \* what the client may send
  Faithful(_),        \* whether a command is executed with the arguments it was sent with
  MayEnd(_, _)        \* whether the server may end in a command, after these commands

VARIABLES sent, executed, replies

vars == <<sent, executed, replies>>

Init == sent = <<>> /\ executed = <<>> /\ replies = 0

Request(command) ==
  /\ sent' = Append(sent, command)
  /\ UNCHANGED <<executed, replies>>

\* Every command so far was answered: the server is there.
Running == replies = Len(executed)

First == sent[Len(executed) + 1]

ExecuteFirst ==
  /\ Running
  /\ Len(executed) < Len(sent)
  /\ Len(executed') = Len(executed) + 1
  /\ executed' = Append(executed, executed'[Len(executed) + 1])
  /\ Faithful(First) => executed' = Append(executed, First)
  /\ UNCHANGED sent

Answer ==
  /\ ExecuteFirst
  /\ replies' = replies + 1

Stop ==
  /\ ExecuteFirst
  /\ Faithful(First) => MayEnd(First, executed)
  /\ UNCHANGED replies

Next == (\E command \in Commands : Request(command)) \/ Answer \/ Stop

Spec == Init /\ [][Next]_vars
==============================================================================
