----------------------------- MODULE MCNonceCache -----------------------------
(* Instances of NonceCache for TLC: connections and nonces are interchangeable. *)
EXTENDS NonceCache, TLC

CONSTANTS a, b, n1, n2

MCConns == {a, b}
MCNonces == {n1, n2}
MCSymmetry == Permutations(MCConns) \cup Permutations(MCNonces)

=============================================================================
