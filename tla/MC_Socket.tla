------------------------------ MODULE MC_Socket ------------------------------
(* Instantiates Socket for TLC: two socket objects, so that the loop arms    *)
(* the next accept while the last socket is still owned or being closed,    *)
(* and listen ports MinPort, an ordinary port and one above MaxPort.         *)
EXTENDS Socket

CONSTANTS s1, s2

MCSockets == {s1, s2}
MCPortsIn == {0, 8080, 70000}
=============================================================================
