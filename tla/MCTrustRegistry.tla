--------------------------- MODULE MCTrustRegistry ---------------------------
(* Instances of TrustRegistry for TLC. *)
EXTENDS TrustRegistry

CONSTANTS c1, c2, c3, piped, hash, k1, k2, k3

MCKeys == {k1, k2, k3}
MCPlainIds == {c1, c2, c3}
MCPlainLines == [p \in MCPlainIds \X MCKeys |-> <<PlainLine(p[1], p[2])>>]

\* "c1|x" is read back as "c1" with no key pair, "#c1" as a comment.
MCOddIds == MCPlainIds \cup {piped, hash}
MCOddLines ==
    [p \in MCOddIds \X MCKeys |->
        CASE p[1] = piped -> <<PlainLine(c1, NoKeys)>>
          [] p[1] = hash -> <<PlainLine(CommentId, p[2])>>
          [] OTHER -> <<PlainLine(p[1], p[2])>>]

MCDefaultIds == <<c1, c2, c3>>
MCDefaultKeys == <<k1, k2, k3>>

=============================================================================
