-------------------------- MODULE MCQuarantineIngest --------------------------
(* Addresses of three bits, home networks of two addresses, 2^20 for 2^64. *)
EXTENDS QuarantineIngest

MCSize == [len \in 0 .. 3 |-> 2 ^ (3 - len)]

Addr(a) == [addr |-> a, len |-> 3, slash |-> FALSE]
Net(a, l) == [addr |-> a, len |-> l, slash |-> TRUE]
Keyed(S) == [keyed |-> TRUE, value |-> S]
Plain(S) == [keyed |-> FALSE, value |-> S]
Words(S) == [comment |-> FALSE, tokens |-> S]

\* Addresses, neighbours, a network with bits behind its prefix, the same as an
\* address, keyed and plain words, a keyed word that does not parse, a comment.
MCLine ==
  { Words({Plain({Addr(1)}), Plain({Addr(2)})}),
    Words({Keyed({Addr(4)}), Plain({Addr(7)})}),
    Words({Keyed({}), Plain({Addr(5)})}),
    Words({Plain({Net(3, 2)}), Plain({Addr(3)})}),
    [comment |-> TRUE, tokens |-> {Plain({Addr(6)})}] }

MCExclude == { {}, {Addr(5)}, {Net(1, 2)}, {Addr(2), Net(4, 1)} }

Time(n, u) == [digits |-> n, unit |-> u]

\* The default, short ones, one whose milliseconds cannot be stored, ones that
\* overflow as milliseconds and as seconds, one with no unit known.
MCDuration ==
  { [digits |-> Failed, unit |-> "none"], Time(0, "s"), Time(7, "none"), Time(7, "m"),
    Time(10, "m"), Time(1, "h"), Time(1, "d"), Time(2, "w"), Time(3, "y") }
=============================================================================
