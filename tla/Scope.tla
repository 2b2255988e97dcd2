------------------------------- MODULE Scope -------------------------------
(***************************************************************************)
(* Which packets reach user space: the reduction of a strategy's triggers  *)
(* to the selectors nftables programs (internal/steering/scope.go,         *)
(* internal/nftables/manager.go).                                          *)
(*                                                                         *)
(* Abstractions.  A byte of TCP flags is the set of its bits, so           *)
(* `flags & Mask == Value' is an intersection.  A direction of a strategy  *)
(* is the set of its trees' triggers: selectorOf sorts what it returns and *)
(* drops duplicates.  A trigger is its protocol and field (is it           *)
(* TCP:flags?), the letters of its value and its wildcard; gas and the     *)
(* spelling are left out.                                                  *)
(***************************************************************************)

EXTENDS FiniteSets

CONSTANTS
    Flags,   \* tcpFlagBits: the flags of the TCP flags byte
    Letters  \* every letter a trigger may name, those of Flags included

ASSUME ScopeAssumption == Flags \subseteq Letters /\ IsFiniteSet(Flags)

FlagMatch == [Mask : SUBSET Flags, Value : SUBSET Flags]
Trigger == [onFlags : BOOLEAN, letters : SUBSET Letters, wildcard : BOOLEAN]

\* A packet: its flags, and whether what a trigger on any other field looks for is there.
Packet == [flags : SUBSET Flags, other : BOOLEAN]

-----------------------------------------------------------------------------
\* flagMatchOf succeeds: a non-empty value of known letters, for the flags field.
Expressible(t) == t.onFlags /\ t.letters # {} /\ t.letters \subseteq Flags

\* With a wildcard "these bits set, others free"; otherwise the whole byte.
flagMatchOf(t) ==
    [Mask |-> IF t.wildcard THEN t.letters ELSE Flags, Value |-> t.letters]

\* broader constrains only bits m already fixes, to the same values.
\* (Mutant: the other way round.)
SubsumedBy(broader, m) ==
    /\ broader # m
    /\ m.Mask \subseteq broader.Mask
    /\ broader.Value \cap m.Mask = m.Value

Subsumes(broader, m) ==
    /\ broader # m
    /\ broader.Mask \subseteq m.Mask
    /\ m.Value \cap broader.Mask = broader.Value

canonicalFlags(ms) == {m \in ms : \A broader \in ms : ~ Subsumes(broader, m)}

NoSelector == [Any |-> FALSE, Flags |-> {}]
AnySelector == [Any |-> TRUE, Flags |-> {}]

\* One unexpressible trigger widens the whole direction.
selectorOf(forest) ==
    IF \E t \in forest : ~ Expressible(t)
    THEN AnySelector
    ELSE [Any |-> FALSE, Flags |-> canonicalFlags({flagMatchOf(t) : t \in forest})]

Of(s) == [Outbound |-> selectorOf(s.Outbound), Inbound |-> selectorOf(s.Inbound)]

Empty(sel) == ~ sel.Any /\ sel.Flags = {}
Idle(scope) == Empty(scope.Outbound) /\ Empty(scope.Inbound)

\* The controller, with --observe-inbound on an evaluation box.
widen(scope, observe) ==
    IF observe /\ ~ Idle(scope) THEN [scope EXCEPT !.Inbound = AnySelector] ELSE scope

-----------------------------------------------------------------------------
\* generationQueueRules: does some rule of the direction queue this packet?
Matches(m, flags) == flags \cap m.Mask = m.Value
Queued(sel, p) == sel.Any \/ \E m \in sel.Flags : Matches(m, p.flags)

\* The strategy library: a trigger on flags is equality, or inclusion with a
\* wildcard; any other trigger depends on the rest of the packet.
Fires(t, p) ==
    IF ~ t.onFlags THEN p.other
    ELSE IF t.wildcard THEN t.letters \subseteq p.flags
    ELSE t.letters = p.flags
=============================================================================
