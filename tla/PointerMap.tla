------------------------------ MODULE PointerMap ------------------------------
(***************************************************************************)
(* What a pointer map promises its caller (the interface comment of        *)
(* src/src/util/hash_table.c): keys mapped to values, an insert that the   *)
(* host may refuse for lack of memory, and lookups that answer with the    *)
(* value inserted last.                                                    *)
(***************************************************************************)
CONSTANTS Keys, Values, NULL

VARIABLES
  contents,   \* the value of every key, NULL for a key that has none
  last        \* the call made last, with its answer

Call(op, k, v) == [op |-> op, key |-> k, value |-> v]

MapInit ==
  /\ contents = [k \in Keys |-> NULL]
  /\ last = Call("none", NULL, NULL)

MapInsert(k, v) ==
  /\ last' = Call("insert", k, v)
  /\ contents' = [contents EXCEPT ![k] = v]

\* Out of memory: nothing changes.
MapInsertRefused(k, v) ==
  /\ last' = Call("refused", k, v)
  /\ UNCHANGED contents

MapRemove(k) ==
  /\ last' = Call("remove", k, NULL)
  /\ contents' = [contents EXCEPT ![k] = NULL]

MapLookup(k) ==
  /\ last' = Call("lookup", k, contents[k])
  /\ UNCHANGED contents

MapNext ==
  \E k \in Keys :
    \/ \E v \in Values : MapInsert(k, v) \/ MapInsertRefused(k, v)
    \/ MapRemove(k)
    \/ MapLookup(k)

MapSpec == MapInit /\ [][MapNext]_<<contents, last>>

=============================================================================
