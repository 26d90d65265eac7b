----------------------------- MODULE MCFrontEnd -----------------------------
(* Command lines and address lists for checking FrontEnd with TLC. *)
EXTENDS FrontEnd

\* -b values: a power of two, a non-power, zero, negatives, INT_MIN and one
\* above MAX_WINDOW_SIZE.
BValues == {4, 3, 0, -1, -2147483647 - 1, 40}

\* Every command line of at most one -f and one -b, in either order.
MCArgs ==
    {<<>>, <<[o |-> "f"]>>}
    \cup {<<[o |-> "b", v |-> n]>> : n \in BValues}
    \cup {<<[o |-> "f"], [o |-> "b", v |-> n]>> : n \in BValues}
    \cup {<<[o |-> "b", v |-> n], [o |-> "f"]>> : n \in BValues}

\* As MCArgs, with an unknown option after the known ones.
MCArgsUsage == MCArgs \cup {a \o <<[o |-> "?"]>> : a \in MCArgs}

\* Address lists of up to two entries, every outcome in every position.
MCAddrs == {<<>>} \cup {<<x>> : x \in AddrOutcomes}
           \cup {<<x, y>> : x, y \in AddrOutcomes}
=============================================================================
