------------------------------ MODULE Steering ------------------------------
(***************************************************************************)
(* The kernel side of geneva-server: the one nftables table the controller *)
(* replaces atomically (internal/nftables), and the conntrack entries of   *)
(* TCP connections to the proxy port, whose mark names the generation that *)
(* owns the connection (internal/generation, internal/flowtrack).          *)
(*                                                                         *)
(* Abstractions.  A generation's queue rules are rendered from its DNA, so *)
(* rules.scope maps a generation to the artifact its rules were rendered   *)
(* from, or None when the table queues nothing for it.  A connection is    *)
(* its adapter mark bits; an unmarked one stays half open, so its SYN can  *)
(* be retransmitted.  A conntrack dump is one atomic read.                 *)
(***************************************************************************)
EXTENDS Integers, FiniteSets

CONSTANTS
    MaxId,      \* generation.MaxID: the largest generation a mark can carry
    Artifacts,  \* immutable strategy artifacts (identity, DNA and scope)
    None,       \* "no artifact"
    Flows,      \* conntrack tuples
    IdleDrain   \* TRUE iff --drain-idle-timeout is not 0

ASSUME SteeringAssumption ==
    /\ MaxId \in Nat \ {0}
    /\ None \notin Artifacts
    /\ IdleDrain \in BOOLEAN

VARIABLES
    rules,  \* the installed table: scope, active and neutral assignment
    mark,   \* each tuple's adapter mark bits, or Absent
    born,   \* history: the artifact in force when the tuple was marked
    idle    \* tuples ESTABLISHED and silent longer than IdleAfter

flowVars == <<mark, born, idle>>
kernelVars == <<rules, flowVars>>

Ids == 1 .. MaxId

\* Adapter mark bits of a tuple.  Neutral is the reserved generation zero.
Absent == -2
Unmarked == -1
Neutral == 0
Marks == {Absent, Unmarked, Neutral} \cup Ids

OrNone(S) == S \cup {None}

Tables == [scope : [Ids -> OrNone(Artifacts)], active : 0 .. MaxId, neutral : BOOLEAN]

\* nftables.Manager with no generation and no assignment is Idle: no table.
NoRules == [scope |-> [i \in Ids |-> None], active |-> 0, neutral |-> FALSE]

\* programSteers: the program queues traffic for some generation.
Steers(r) == \E i \in Ids : r.scope[i] # None

KernelTypeOK ==
    /\ rules \in Tables
    /\ mark \in [Flows -> Marks]
    /\ born \in [Flows -> OrNone(Artifacts)]
    /\ idle \in [Flows -> BOOLEAN]

KernelInit ==
    /\ rules = NoRules
    /\ mark = [f \in Flows |-> Absent]
    /\ born = [f \in Flows |-> None]
    /\ idle = [f \in Flows |-> FALSE]

-----------------------------------------------------------------------------
\* The input chain's assignment rule: what an unowned SYN is marked with.
Assignment ==
    IF rules.active # 0 THEN rules.active
    ELSE IF rules.neutral THEN Neutral ELSE Unmarked

\* A SYN, original or retransmitted, of a connection with no adapter mark.
Syn(f) ==
    /\ mark[f] \in {Absent, Unmarked}
    /\ mark[f] # Assignment
    /\ mark' = [mark EXCEPT ![f] = Assignment]
    /\ born' = [born EXCEPT ![f] =
                    IF rules.active # 0 THEN rules.scope[rules.active] ELSE None]
    /\ UNCHANGED <<rules, idle>>

\* The conntrack entry expires or the connection closes.
FlowEnd(f) ==
    /\ mark[f] # Absent
    /\ mark' = [mark EXCEPT ![f] = Absent]
    /\ born' = [born EXCEPT ![f] = None]
    /\ idle' = [idle EXCEPT ![f] = FALSE]
    /\ UNCHANGED rules

\* An ESTABLISHED connection falls silent for IdleAfter, or speaks again.
FlowIdle(f) ==
    /\ IdleDrain
    /\ mark[f] \in Ids
    /\ idle' = [idle EXCEPT ![f] = ~ @]
    /\ UNCHANGED <<rules, mark, born>>

KernelNext == \E f \in Flows : Syn(f) \/ FlowEnd(f) \/ FlowIdle(f)

-----------------------------------------------------------------------------
\* Counter.Count: does generation i have a connection that holds a drain open?
Count(i) == \E f \in Flows : mark[f] = i /\ ~ idle[f]

\* Counter.Counts: the generations some conntrack entry, idle or not, carries.
Counts == {i \in Ids : \E f \in Flows : mark[f] = i}

\* Counter.Neutralize, having updated the unowned entries in fs.
Neutralized(fs) ==
    [f \in Flows |-> IF f \in fs /\ mark[f] = Unmarked THEN Neutral ELSE mark[f]]
=============================================================================
