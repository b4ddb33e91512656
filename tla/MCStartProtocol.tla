--------------------------- MODULE MCStartProtocol ---------------------------
EXTENDS StartProtocol

\* A byte has 4 values: 0 and 1 are ASCII, <<3, 2>> is a character of two bytes.
\* The code has four different bytes, ports are numbers of two, and each request
\* has i ports.
MCPorts(i) == [k \in 1..i |-> <<4 * (k % 4) + k \div 4, 16 - k, IF k % 2 = 0 THEN "udp" ELSE "tcp">>]

\* No port, some, one less than the limit, the limit, and counts that wrap to 0
\* and to 1.
MCRequests ==
    {[mode |-> m, code |-> 27, image |-> name, ports |-> MCPorts(i)] :
        m \in {"guest", "demo"}, name \in {<< >>, <<1>>, <<3, 2, 0>>}, i \in {0, 1, 2, 3, 4, 5}}

\* Lengths that need one byte and two.
MCConfigs == {<<1>>, <<0, 1, 3, 2, 1>>}
=============================================================================
