------------------------------ MODULE MCDevices ------------------------------
(* Instances of KeyStore and Devices for TLC. *)
EXTENDS Devices, TLC

CONSTANTS p1, p2, d1, c1, c2, c3

MCJunk == {-1}
MCIds == {d1, c1, c2, c3} \cup 0..(IdModulus - 1)
MCKeys == (-1..MaxKeys) \X (-1..MaxKeys)
MCWrittenLines == [p \in MCIds \X MCKeys |-> <<PlainLine(p[1], p[2])>>]
MCDefaultIds == <<c1, c2, c3>>
MCDefaultKeys == <<<<0, 0>>, <<0, 1>>, <<0, 2>>>>
MCSymmetry == Permutations({p1, p2})

=============================================================================
