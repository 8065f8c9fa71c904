-------------------------------- MODULE Tables --------------------------------
(* The maps of the code, as functions whose domain are the keys present.      *)

\* table[key] = value, for a key that is there or not.
With(table, key, value) ==
  [k \in DOMAIN table \cup {key} |-> IF k = key THEN value ELSE table[k]]

===============================================================================
