------------------------------- MODULE MCClient -------------------------------
(* Instances of Client for TLC. *)
EXTENDS Client

CONSTANTS c1, d1, k1, n1, n2

MCIdentities == { [id |-> d1, keys |-> k1] }

Method(m) == [method |-> m]
WhatsUp(own, signed) == [method |-> "WhatsUpFIUNAM", own |-> own, signed |-> signed]
Continue(key) == [method |-> "conn_continue", key |-> key]

MCResponses ==
    { WhatsUp(1, TRUE), WhatsUp(2, TRUE), WhatsUp(1, FALSE),
      Continue([own |-> 1, peer |-> k1]), Method("StartConversation"),
      Method("RegistrationApproved"), Method("RegistrationRejected"),
      Method("refusal"), Method("unknown"), Method("malformed") }

=============================================================================
