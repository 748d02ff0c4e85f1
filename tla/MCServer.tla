------------------------------- MODULE MCServer -------------------------------
(* Instances of Server for TLC. *)
EXTENDS ServerProperties

CONSTANTS c1, c2, c3, k1, k2, k3, n1

MCDeviceIds == {c1, c2, c3}
MCWrittenLines == [p \in MCDeviceIds \X {k1, k2, k3} |-> <<PlainLine(p[1], p[2])>>]
MCDefaultIds == <<c1, c2, c3>>
MCDefaultKeys == <<k1, k2, k3>>
MCOneConn == 1..1
MCTwoConns == 1..2

\* Two devices of one id, and one of another.
Device == [id |-> c1, keys |-> k1]
Namesake == [id |-> c1, keys |-> k2]
Neighbour == [id |-> c2, keys |-> k2]
MCNamesakes == {Device, Namesake}
MCNeighbours == {Device, Neighbour}
MCOneIdentity == {Device}

Hello(i, n, tok, s) ==
    [method |-> "HelloFIUNAM", from |-> i, nounce |-> n, auth_token |-> tok, signed |-> s]
Registration(i, tok) == [method |-> "RequestRegistration", from |-> i, auth_token |-> tok]
AgreeParams(a) == [method |-> "AgreeParams", algorithm |-> a]
Other(m) == [method |-> m]

\* What makes and unmakes sessions and trust.
MCSessionMessages ==
    UNION { { Hello(i, NoNonce, "", TRUE), Hello(i, NoNonce, "", FALSE), Registration(i, "") } :
            i \in MCNamesakes }
    \cup { Hello(Device, n1, "other", TRUE), AgreeParams("other"), Other("malformed") }

\* What a connection can be served with, refused for and left alone after, under the
\* keys of two devices.
MCHandledMessages ==
    { Hello(Device, n1, "", TRUE), Hello(Neighbour, NoNonce, "", TRUE),
      Registration(Device, "DEV_TOKEN_12345"), AgreeParams("ChaCha20"), AgreeParams("other") }

MCFewMessages ==
    { Hello(Device, n1, "", TRUE), Registration(Device, "DEV_TOKEN_12345"),
      AgreeParams("ChaCha20") }

=============================================================================
