------------------------------- MODULE Tables -------------------------------
(* Dictionaries and tables, as functions from their keys.                  *)

IsTable(f) == f = [k \in DOMAIN f |-> f[k]]

\* The row of one key is added or replaced (d[key] = row).
Put(table, key, row) ==
    [k \in DOMAIN table \cup {key} |-> IF k = key THEN row ELSE table[k]]
=============================================================================
