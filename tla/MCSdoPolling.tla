---------------------------- MODULE MCSdoPolling ----------------------------
(* Instances of SdoPolling: one object, two of one node, and a third of    *)
(* another node.                                                           *)
EXTENDS SdoPolling

CONSTANTS n1, n2, a1, a2

MCWord == [sample : 0 .. MaxSamples, part : 0 .. SegmentCount]
MCAddr == {a1, a2, NoAddr}
MCUnlimited == -1
BothLimits  == {0, MCUnlimited}
OneObject   == <<[node |-> n1, addr |-> a1]>>
SharedNode  == <<[node |-> n1, addr |-> a1], [node |-> n1, addr |-> a2]>>
TwoNodes    == SharedNode \o <<[node |-> n2, addr |-> a1]>>
=============================================================================
