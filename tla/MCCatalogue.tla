----------------------------- MODULE MCCatalogue -----------------------------
EXTENDS Catalogue

\* An admin for each of the two permissions the routes that write ask for.
MCAdmins == {{"can_create"}, {"can_docker"}}

\* With 8 ports for 2^16 and a limit of 2 for 10: the highest (negative as
\* a signed number), and the two next to the boundary with different types.
MCPortMaps == {7 :> "udp", 3 :> "tcp" @@ 4 :> "udp"}

\* Names are interchangeable.
NameSymmetry == Permutations(Names)

MCMaxSerial == [ctfs |-> 1, categories |-> 2, challenges |-> 2]
=============================================================================
