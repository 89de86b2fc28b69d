---------------------------- MODULE MCDataPaths ----------------------------
EXTENDS DataPaths

\* 'a' and 'n', the first letters of the two halves, encrypt to each other.
MCChars == {LC_a, LC_a + 13}

Kind(m, g, l) == [mac |-> m, group |-> g, len |-> l]

\* A frame for each client, a broadcast, a multicast one, one for a stranger,
\* one that is too short to have an address and one that is too long.
MCFrameKinds == {Kind("hw", FALSE, 64), Kind("b", FALSE, 20),
                 Kind(BroadcastMac, FALSE, 60), Kind("other", TRUE, 34),
                 Kind("hw", FALSE, 5), Kind("hw", FALSE, 2049)}

\* Distinct addresses, the same address twice, and two defaults.
MCConfigs == {<<NoMac, "b">>, <<"hw", "hw">>, <<NoMac, NoMac>>}

\* One length that is too short to send and one that must be cut.
MCTxLens == {11, 2049}

CONSTANTS p, q

\* Two connections, one after the other in the same slot.
MCConns == {p, q}

\* Each event alone, and a last read together with the peer's close.
MCEventSets == {{"RD"}, {"WR"}, {"RD", "WR"}, {"RD", "CLOSE"}, {"FIN"}, {"ERR"}}
=============================================================================
