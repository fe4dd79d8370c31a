---------------------------- MODULE RequestService ----------------------------
(***************************************************************************)
(* What the server promises its clients, with neither I/O threads nor      *)
(* workers: a client asks over a connection; its request is taken on, or   *)
(* turned away at once; one that is taken on is executed once and answered *)
(* over that connection, unless the client goes away.  An execution nobody *)
(* waits for is an orphan until it ends.  Executions are bounded.          *)
(***************************************************************************)
EXTENDS Integers, FiniteSets

CONSTANTS Clients,   \* the connections
          Capacity   \* a bound on executions

VARIABLES client,    \* what each client waits for
          orphans,   \* how many executions nobody waits for
          up

vars == <<client, orphans, up>>

Executed == {c \in Clients : client[c] = "executed"}

Init == client = [c \in Clients |-> "idle"] /\ orphans = 0 /\ up = TRUE

Become(c, s) == client' = [client EXCEPT ![c] = s]

Ask(c) == /\ up /\ client[c] = "idle"
          /\ Become(c, "asked")
          /\ UNCHANGED <<orphans, up>>

Take(c) == /\ up /\ client[c] = "asked"
           /\ Cardinality(Executed) + orphans < Capacity
           /\ Become(c, "executed")
           /\ UNCHANGED <<orphans, up>>

\* Taken on when nobody can be answered any more.
TakeUnheard(c) == /\ up /\ client[c] = "asked"
                  /\ Cardinality(Executed) + orphans < Capacity
                  /\ Become(c, "idle")
                  /\ orphans' = orphans + 1
                  /\ UNCHANGED up

\* Answered without an execution.
TurnAway(c) == /\ up /\ client[c] = "asked"
               /\ Become(c, "idle")
               /\ UNCHANGED <<orphans, up>>

\* The client is answered or goes away; its execution is still to end.
Leave(c) == /\ up /\ client[c] = "executed"
            /\ Become(c, "idle")
            /\ orphans' = orphans + 1
            /\ UNCHANGED up

End == /\ up /\ orphans > 0
       /\ orphans' = orphans - 1
       /\ UNCHANGED <<client, up>>

Die == up' = FALSE /\ UNCHANGED <<client, orphans>>

Next == \/ \E c \in Clients : Ask(c) \/ Take(c) \/ TakeUnheard(c) \/ TurnAway(c) \/ Leave(c)
        \/ End \/ Die

Spec == Init /\ [][Next]_vars
=============================================================================
