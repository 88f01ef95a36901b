------------------------------- MODULE Headers --------------------------------
(* The Headers class of fetch (node-fetch.js): a map from names, each as it *)
(* was first written, to the values given for it in any spelling.  The map's*)
(* order is left out: no two of its names are spellings of one.             *)
EXTENDS Integers, Sequences, SequencesExt, FiniteSets, FiniteSetsExt

toLowerCase(name) ==
  CASE name \in {"Cookie", "COOKIE"} -> "cookie"
    [] name = "Authorization" -> "authorization"
    [] name = "Content-Length" -> "content-length"
    [] name = "Content-Type" -> "content-type"
    [] name = "Location" -> "location"
    [] name = "Accept" -> "accept"
    [] name = "User-Agent" -> "user-agent"
    [] OTHER -> name

(* The names of a map that are spellings of a name, one at most.            *)
Spelled(map, name) == {key \in DOMAIN map : toLowerCase(key) = toLowerCase(name)}
has(map, name) == Spelled(map, name) # {}
find(map, name) == CHOOSE key \in Spelled(map, name) : TRUE

Put(map, key, values) ==
  [k \in DOMAIN map \cup {key} |-> IF k = key THEN values ELSE map[k]]

get(map, name) == IF has(map, name) THEN map[find(map, name)] ELSE <<>>
set(map, name, value) == Put(map, IF has(map, name) THEN find(map, name) ELSE name, <<value>>)
append(map, name, value) ==
  Put(map, IF has(map, name) THEN find(map, name) ELSE name, Append(get(map, name), value))

(* Defect: only an entry of this very spelling is deleted.                  *)
deleteAsSpelled(map, name) == [key \in DOMAIN map \ {name} |-> map[key]]
delete(map, name) == [key \in DOMAIN map \ Spelled(map, name) |-> map[key]]

(* new Headers(...) of pairs, and of another Headers, whose values are      *)
(* appended each under its name: a name without values goes.                *)
NoHeaders == [key \in {} |-> <<>>]
OfPairs(pairs) == FoldLeft(LAMBDA map, p : append(map, p[1], p[2]), NoHeaders, pairs)
Copy(map) == [key \in {k \in DOMAIN map : map[k] # <<>>} |-> map[key]]
=============================================================================
