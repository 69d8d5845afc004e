------------------------------ MODULE Catalog ------------------------------
(***************************************************************************)
(* What the template, script and helper routes promise a caller who never  *)
(* looks at the files: a catalog of definitions under their keys, and      *)
(* requests that do what they are asked under the keys they name.          *)
(***************************************************************************)
EXTENDS Functions

VARIABLE catalog \* a function: key -> definition

Key == DOMAIN catalog

\* Nothing moves but what is under the keys K.
Only(K) == Restrict(catalog', Key' \ K) = Restrict(catalog, Key \ K)

\* The keys K were not there; now they are, with definitions of the request's.
Create(K, definitions) ==
  /\ K \cap Key = {} /\ Key' = Key \cup K
  /\ \A k \in K : catalog'[k] \in definitions
  /\ Only(K)

Update(k, definition) ==
  /\ k \in Key /\ Key' = Key
  /\ catalog'[k] = definition
  /\ Only({k})

Delete(k) ==
  /\ k \in Key /\ Key' = Key \ {k}
  /\ Only({k})
=============================================================================
