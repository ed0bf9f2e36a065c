-------------------------- MODULE CredentialVault --------------------------
(***************************************************************************)
(* What the credential store promises its callers, without slots, flash    *)
(* keys or search order: a set of credentials with distinct identifiers,   *)
(* at most Capacity of them, whose counters are replaced one at a time and *)
(* which are removed only all at once.  Storage.tla implements it.         *)
(***************************************************************************)
EXTENDS Naturals, FiniteSets

CONSTANTS Rps, CredIds, Capacity, Counter

VARIABLE vault

Entry == [id : CredIds, rp : Rps, sign_count : Counter]

Ids == {e.id : e \in vault}

Init == vault = {}

(* A new credential enters under an identifier not in use. *)
Register(e) ==
  /\ Cardinality(vault) < Capacity
  /\ e.id \notin Ids
  /\ vault' = vault \cup {e}

(* One credential gets another counter; every other entry is untouched. *)
SetCount(id, n) ==
  /\ id \in Ids
  /\ vault' = {IF e.id = id THEN [e EXCEPT !.sign_count = n] ELSE e : e \in vault}

Wipe == vault' = {}

Next ==
  \/ \E e \in Entry : Register(e)
  \/ \E id \in CredIds, n \in Counter : SetCount(id, n)
  \/ Wipe

Spec == Init /\ [][Next]_vault
=============================================================================
