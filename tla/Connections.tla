---------------------------- MODULE Connections ----------------------------
(***************************************************************************)
(* What geneva-server promises the connections to its port (README.md,     *)
(* docs/adapter-v1.md): a connection gets its strategy with its first SYN  *)
(* or never, keeps it until it ends, and is served by it from then on.     *)
(* Steering is only ever withdrawn for all connections at once.  Nothing   *)
(* here knows of generations, tables, state files or failures.             *)
(***************************************************************************)
CONSTANTS
    Flows,      \* connections, by tuple
    Artifacts,  \* strategies
    None        \* no strategy

VARIABLES
    steering,  \* are packets steered at all?
    owner,     \* each connection's owner: a strategy, or why it has none
    serving    \* the strategy its packets are given to, or None

Init ==
    /\ steering = FALSE
    /\ owner = [f \in Flows |-> "absent"]
    /\ serving = [f \in Flows |-> None]

\* The first SYN: unsteered, neutral, or served by its owner from the start.
Open(f) ==
    /\ owner[f] = "absent"
    /\ \/ /\ \E o \in {"unowned", "neutral"} : owner' = [owner EXCEPT ![f] = o]
          /\ UNCHANGED serving
       \/ \E a \in Artifacts :
              /\ owner' = [owner EXCEPT ![f] = a]
              /\ serving' = [serving EXCEPT ![f] = a]
    /\ UNCHANGED steering

End(f) ==
    /\ owner' = [owner EXCEPT ![f] = "absent"]
    /\ serving' = [serving EXCEPT ![f] = None]
    /\ UNCHANGED steering

\* Connections that had no owner are kept from getting one.
Exclude ==
    /\ \E fs \in SUBSET {f \in Flows : owner[f] = "unowned"} :
           owner' = [f \in Flows |-> IF f \in fs THEN "neutral" ELSE owner[f]]
    /\ UNCHANGED <<steering, serving>>

Withdraw ==
    /\ steering' = FALSE
    /\ serving' = [f \in Flows |-> None]
    /\ UNCHANGED owner

\* Connections that are not served may be again, by their owners.
Serve ==
    /\ steering'
    /\ \E fs \in SUBSET {f \in Flows : owner[f] \in Artifacts} :
           serving' = [f \in Flows |-> IF f \in fs THEN owner[f] ELSE serving[f]]
    /\ UNCHANGED owner

Next == (\E f \in Flows : Open(f) \/ End(f)) \/ Exclude \/ Withdraw \/ Serve

Spec == Init /\ [][Next]_<<steering, owner, serving>>
=============================================================================
