------------------------------ MODULE StdMaps ------------------------------
(* A std::map is a function whose domain is the set of its keys.           *)
Insert(map, k, v) == [x \in DOMAIN map \cup {k} |-> IF x = k THEN v ELSE map[x]]
Erase(map, k)     == [x \in DOMAIN map \ {k} |-> map[x]]
=============================================================================
