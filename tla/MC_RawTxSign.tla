---------------------------- MODULE MC_RawTxSign ----------------------------
EXTENDS RawTxSign

CONSTANTS k1, k2

MCKeys == {k1, k2}
MCScripts == {{k1}, {k2}, {k1, k2}}

\* First variants: unsigned, or carrying k2's signature on input 1; second
\* variants: k2's signature on input 2, or a one-input variant.
Unsigned == [sigs |-> <<{}, {}>>]
SignedK2 == [sigs |-> <<{k2}, {}>>]
Second   == [sigs |-> <<{}, {k2}>>]
Short    == [sigs |-> <<{k2}>>]
MCVariantArgs ==
  {Undecodable, << >>, <<Unsigned>>, <<SignedK2>>, <<SignedK2, Second>>}
MCVariantArgsShort == MCVariantArgs \cup {<<Unsigned, Short>>}

MCChainArgs == [1..2 -> {None, {k1}, {k1, k2}}]

MCGivenArgs ==
  { << >>,
    << [in |-> 2, script |-> {k2}, ok |-> TRUE] >>,
    << [in |-> 1, script |-> {k1}, ok |-> TRUE] >>,
    << [in |-> 1, script |-> {k1}, ok |-> FALSE] >> }

MCKeyArgs == {Absent, {k2}, {k2, InvalidKey}}
=============================================================================
