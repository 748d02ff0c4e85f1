----------------------------- MODULE MCSecureComm -----------------------------
(* Instances of SecureComm for TLC. *)
EXTENDS SecureComm

CONSTANTS c1, c2, c3, k1, k2, k3, n1

MCDeviceIds == {c1, c2, c3}
MCWrittenLines == [p \in MCDeviceIds \X {k1, k2, k3} |-> <<PlainLine(p[1], p[2])>>]
MCDefaultIds == <<c1, c2, c3>>
MCDefaultKeys == <<k1, k2, k3>>
MCConns == 1..2

\* Two devices of one id.
MCIdentities == { [id |-> c1, keys |-> k1], [id |-> c1, keys |-> k2] }

\* All that a client sends, but for texts.
MCMessages ==
    [method : {"HelloFIUNAM"}, from : MCIdentities, nounce : Nonces, auth_token : {""},
     signed : BOOLEAN]
    \cup [method : {"AgreeParams"}, algorithm : {"ChaCha20"}]

=============================================================================
