------------------------ MODULE MCQuarantineStore ------------------------
(* Two keys, one of which holds the other, and an address inside both. *)
EXTENDS QuarantineStore

CONSTANTS wide, host, client \* a /24, the /32 of a client in it, the client

MCCidr == {wide, host}
MCAddr == {client}
MCNetsOf == [a \in MCAddr |-> MCCidr]
MCHomeNet == [a \in MCAddr |-> wide]
MCHostNet == [a \in MCAddr |-> host]
MCExpiry == {1, 2}
=============================================================================
