------------------------------- MODULE MCView -------------------------------
(***************************************************************************)
(* Batches of up to two entries and three transactions of all versions,    *)
(* with none, one and two signatures, instructions and lookups, lengths    *)
(* that take two and three bytes, and every kind of config value.          *)
(***************************************************************************)
EXTENDS View

MCWidth == [hash |-> 2, key |-> 1, sig |-> 2, header |-> 2]

Tx(version, sigs, keys, ixs, lookups, mask) ==
  [version |-> version, sigs |-> sigs, keys |-> keys, ixs |-> ixs,
   lookups |-> lookups, mask |-> mask]

Ix(accounts, data) == [accounts |-> accounts, data |-> data]
Lookup(writable, readonly) == [writable |-> writable, readonly |-> readonly]

Txs ==
  {Tx("legacy", 1, 0, <<>>, <<>>, 0),
   Tx("legacy", 2, 1, <<Ix(1, 0), Ix(0, 2)>>, <<>>, 0),
   Tx("v0", 1, 2, <<Ix(1, 1)>>, <<Lookup(1, 2)>>, 0),
   Tx("v0", 0, 0, <<>>, <<Lookup(0, 1), Lookup(1, 0)>>, 0),
   Tx("v1", 1, 1, <<Ix(1, 2), Ix(0, 1)>>, <<>>, 3),
   Tx("v1", 2, 0, <<>>, <<>>, 28)}

MCBlock ==
  {<<>>, << <<>> >>}
    \cup {<< <<Tx("legacy", 1, 0, <<Ix(0, n)>>, <<>>, 0)>> >> :
            n \in {TopBit, 2 * TopBit - 1, TopBit * TopBit + TopBit + 1}}
    \cup {<< <<t>> >> : t \in Txs}
    \cup {<< <<t>>, <<u>> >> : t, u \in Txs}
    \cup {<< <<t, u>> >> : t, u \in Txs}

=============================================================================
