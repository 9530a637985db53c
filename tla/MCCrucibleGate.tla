--------------------------- MODULE MCCrucibleGate ---------------------------
(* One client and its network. *)
EXTENDS CrucibleGate

CONSTANTS wide, client \* a /24, a client in it

MCCidr == {wide}
MCAddr == {client}
MCNetsOf == [a \in MCAddr |-> MCCidr]
MCNet == [a \in MCAddr |-> wide]
MCExpiry == {0}
=============================================================================
