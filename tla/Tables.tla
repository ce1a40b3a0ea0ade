-------------------------------- MODULE Tables --------------------------------
(***************************************************************************)
(* SQLite tables as functions from keys to rows, and the two ways this     *)
(* code writes them.                                                       *)
(***************************************************************************)
NoRows == [x \in {} |-> x]

Row(key, content) == [k \in {key} |-> content]

\* INSERT ... ON CONFLICT DO UPDATE: the rows replace or join those of the table.
Upsert(rows, table) ==
  [k \in DOMAIN rows \cup DOMAIN table |-> IF k \in DOMAIN rows THEN rows[k] ELSE table[k]]
=============================================================================
