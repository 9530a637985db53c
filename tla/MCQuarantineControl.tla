------------------------ MODULE MCQuarantineControl ------------------------
(* Two keys, one inside the other, and an address inside both. *)
EXTENDS QuarantineControl

CONSTANTS wide, host, client \* a /24, the /32 of a client in it, the client

MCCidr == {wide, host}
MCAddr == {client}
MCNetsOf == [a \in MCAddr |-> MCCidr]
MCHomeNet == [a \in MCAddr |-> wide]
MCHostNet == [a \in MCAddr |-> host]
MCExpiry == 0 .. 3
Faults == {TRUE, FALSE}
=============================================================================
