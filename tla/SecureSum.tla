----------------------------- MODULE SecureSum -----------------------------
(***************************************************************************)
(* What the system promises (README.md:44): clients who agree on a group   *)
(* release their encrypted data and a key part for this group only, and    *)
(* whoever holds the documents learns the sum over the group once every    *)
(* member has released, and nothing before.                                *)
(*                                                                         *)
(* How the clients come to agree, and who carries the documents, is left   *)
(* open: Prinsight shows one way.                                          *)
(***************************************************************************)
EXTENDS Integers, FiniteSets

CONSTANTS Client, ClearData, BatchSize, Nothing

VARIABLES
  group,       \* the clients the released key parts are meant for
  released,    \* the clients that have released their document
  sum          \* what has just been learnt

vars == <<group, released, sum>>

Init ==
  /\ group = {}
  /\ released = {}
  /\ sum = Nothing

\* The first to release settles the group.
Release(p, G) ==
  /\ p \in G \ released
  /\ Cardinality(G) = BatchSize
  /\ group \in {{}, G}
  /\ group' = G
  /\ released' = released \cup {p}
  /\ UNCHANGED sum

Total == [l \in DOMAIN ClearData |-> Cardinality(group) * ClearData[l]]

Reveal ==
  /\ group # {}
  /\ released = group
  /\ sum' = Total
  /\ UNCHANGED <<group, released>>

Forget ==
  /\ sum' = Nothing
  /\ UNCHANGED <<group, released>>

Next ==
  \/ \E p \in Client, G \in SUBSET Client : Release(p, G)
  \/ Reveal
  \/ Forget

Spec == Init /\ [][Next]_vars
=============================================================================
