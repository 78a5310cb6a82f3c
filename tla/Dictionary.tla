-------------------------------- MODULE Dictionary --------------------------------
(*********************************************************************************)
(* What a BTree promises: a map, and the answer of the last call.                  *)
(*********************************************************************************)
EXTENDS TLC

CONSTANTS Keys, Values

VARIABLES map, answer

Inserted == [kind |-> "Inserted"]
NotFound == [kind |-> "NotFound"]
Replaced(v) == [kind |-> "Replaced", value |-> v]
Unchanged(v) == [kind |-> "Unchanged", value |-> v]
Removed(v) == [kind |-> "Removed", value |-> v]

Init == DOMAIN map \subseteq Keys /\ (\A k \in DOMAIN map : map[k] \in Values) /\ answer = NotFound

(* replace: whether the caller's ReplacePolicy lets the present value go. *)
Insert(k, v, replace) ==
  IF k \notin DOMAIN map THEN map' = map @@ (k :> v) /\ answer' = Inserted
  ELSE IF replace THEN map' = [map EXCEPT ![k] = v] /\ answer' = Replaced(map[k])
  ELSE map' = map /\ answer' = Unchanged(map[k])

Remove(k) ==
  /\ map' = [l \in DOMAIN map \ {k} |-> map[l]]
  /\ answer' = IF k \in DOMAIN map THEN Removed(map[k]) ELSE NotFound

Rename(k, l) ==
  IF k \notin DOMAIN map THEN map' = map /\ answer' = NotFound
  ELSE IF l \in DOMAIN map THEN map' = map /\ answer' = Unchanged(map[l])
  ELSE /\ map' = [m \in (DOMAIN map \ {k}) \cup {l} |-> IF m = l THEN map[k] ELSE map[m]]
       /\ answer' = Inserted

Next ==
  \/ \E k \in Keys, v \in Values, replace \in BOOLEAN : Insert(k, v, replace)
  \/ \E k \in Keys : Remove(k)
  \/ \E k, l \in Keys : Rename(k, l)

Spec == Init /\ [][Next]_<<map, answer>>
===================================================================================
