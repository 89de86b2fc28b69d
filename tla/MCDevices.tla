----------------------------- MODULE MCDevices -----------------------------
EXTENDS Devices, TLC

\* Both peers do the same, and so do both clients of the utilization socket.
MCSymmetry == Permutations(TextPeers) \cup Permutations(UtilClients)

\* The commands are shortened to a letter or two, and "/" for the newline.  (A part
\* of one, or a mixture of two, is a message that the server does not know.)
MCCommands == {"HELLO", "START", "STOP"}
MCSpelling == [cmd \in MCCommands |->
                 CASE cmd = "HELLO" -> <<"H", "/">> [] cmd = "START" -> <<"S", "A", "/">>
                   [] OTHER -> <<"S", "/">>]

\* Two regions of one row, two columns wide: the first message is too wide,
\* the second has a control character in it.
MCDomainX == <<1, 6>>
MCDomainY == <<2, 3>>
MCDomainWidth == <<2, 2>>
MCDomainHeight == <<1, 1>>
MCMESSAGE == <<<<"h", "i", "!">>, <<"y", ESC, "z">>>>

\* One character more than the screen has room for.
MCWelcome == <<"a", "b", "c", "d", "e", StringEnd>>

MCUartMessage == <<"h", "LF", "i", "LF">>
=============================================================================
