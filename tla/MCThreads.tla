----------------------------- MODULE MCThreads -----------------------------
EXTENDS Threads

CONSTANTS c1, c2, c3, c4

FourClients == {c1, c2, c3, c4}

\* A plain text, one with a zero inside, one with a conversion, one that fills
\* the buffer and one that is longer.  A conversion prints nothing, one byte, or
\* more than there is room for.
MCNetTexts == {<<"x", "y", "z">>, <<"x", "Z", "y">>, <<"x", "%">>,
               <<"x", "y", "z", "w">>, <<"x", "y", "z", "w", "v">>}
MCConverted == {<<>>, <<"0">>, <<"0", "f", "f">>}
MCGreeting == <<"h", "i">>
MCMessage == <<"h", "w">>

\* The sockets of picotcp_tcp_echo that have traffic: two echo clients, one
\* with a peer of the utilization server, two such peers, one client with
\* datagrams; none while another application runs.
MCTraffic == {{11, 12}, {11, 21}, {21, 22}, {11, 3}, {}}
=============================================================================
