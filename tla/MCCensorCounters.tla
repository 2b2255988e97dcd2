-------------------------- MODULE MCCensorCounters --------------------------
(* An instance of CensorCounters for TLC: strategies whose triggers repeat,
   subsume and widen one another, and packets whose flags and
   length contend for the event. *)
EXTENDS CensorCounters

on(ls) == [onFlags |-> TRUE, letters |-> ls, wildcard |-> FALSE]
onAll(ls) == [onFlags |-> TRUE, letters |-> ls, wildcard |-> TRUE]
elsewhere == [onFlags |-> FALSE, letters |-> {}, wildcard |-> FALSE]

MCStrategies ==
    {[Outbound |-> {}, Inbound |-> {}],
     [Outbound |-> {on({"S"}), on({"S", "A"}), onAll({"S"}), onAll({"S", "A"})},
      Inbound |-> {on({"S"}), onAll({"R", "A"}), onAll({"R"})}],
     [Outbound |-> {on({"S", "N"})}, Inbound |-> {onAll({"A"}), elsewhere}]}

packet(fs, payload, long) ==
    [flags |-> fs, other |-> payload, payload |-> payload, long |-> long]

MCPackets ==
    {packet({"S"}, FALSE, FALSE), packet({"S", "A"}, FALSE, FALSE),
     packet({"R", "A"}, FALSE, FALSE), packet({"F", "A"}, TRUE, TRUE),
     packet({"A"}, TRUE, TRUE), packet({"A"}, TRUE, FALSE)}
=============================================================================
