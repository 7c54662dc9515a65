-------------------------------- MODULE Maps --------------------------------
(***************************************************************************)
(* The code's hash maps as functions on the keys present.                  *)
(***************************************************************************)
EXTENDS Functions

NoEntries == [key \in {} |-> key]

\* map[key] = value: the key is added, or its value replaced.
Put(map, key, value) ==
    [k \in DOMAIN map \cup {key} |-> IF k = key THEN value ELSE map[k]]

\* map.erase(key) for each of a set of keys; absent ones are ignored.
Erase(map, keys) == Restrict(map, DOMAIN map \ keys)
=============================================================================
