----------------------------- MODULE StorageMap -----------------------------
(***************************************************************************)
(* Storage maps of frame_support (external), as the pallets use them: a    *)
(* map is a function whose domain is the set of keys that have an entry.   *)
(***************************************************************************)

insert(map, key, value) ==
    [k \in DOMAIN map \cup {key} |-> IF k = key THEN value ELSE map[k]]

remove(map, key) == [k \in DOMAIN map \ {key} |-> map[k]]

Empty == [k \in {} |-> k]

=============================================================================
