----------------------------- MODULE TrustBinding -----------------------------
(***************************************************************************)
(* What the list of trusted devices promises, whatever its representation: *)
(* a binding of device ids to key pairs that only ever grows, in which no  *)
(* id has two key pairs and no key pair two ids.                           *)
(***************************************************************************)
CONSTANTS DeviceIds, Keys

VARIABLE bound

Pairs == [id : DeviceIds, keys : Keys]

OneToOne(S) == \A p, q \in S : (p.id = q.id) <=> (p.keys = q.keys)

Init == bound = {}

Bind == /\ bound' \subseteq Pairs
        /\ bound \subseteq bound'
        /\ OneToOne(bound')

Spec == Init /\ [][Bind]_bound

=============================================================================
