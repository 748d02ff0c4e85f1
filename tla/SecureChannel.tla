---------------------------- MODULE SecureChannel ----------------------------
(***************************************************************************)
(* What a device and the server promise their users: the server makes a    *)
(* key for the connection, the device comes to hold the same one, and from *)
(* then on every text of the device is heard once, under that key, and     *)
(* acknowledged, before the next one is sent.  Keys may be forgotten at    *)
(* any time, and are then not replaced.                                    *)
(***************************************************************************)
EXTENDS Naturals

CONSTANTS Conns, SessionKeys, None

VARIABLES
    serverKey,      \* of each connection, at the server, or None
    clientKey,      \* ... at the device
    asked,          \* texts sent
    heard,          \* texts the server has decrypted and verified
    acknowledged    \* texts the device has the answer to

channelVars == <<serverKey, clientKey, asked, heard, acknowledged>>

Init ==
    /\ serverKey = [c \in Conns |-> None] /\ clientKey = [c \in Conns |-> None]
    /\ asked = [c \in Conns |-> 0]
    /\ heard = [c \in Conns |-> 0]
    /\ acknowledged = [c \in Conns |-> 0]

\* A key that is no other connection's.
ServerAgrees(c) ==
    /\ serverKey[c] = None /\ clientKey[c] = None
    /\ serverKey'[c] \in SessionKeys /\ \A d \in Conns : serverKey[d] # serverKey'[c]
    /\ serverKey' = [serverKey EXCEPT ![c] = serverKey'[c]]
    /\ UNCHANGED <<clientKey, asked, heard, acknowledged>>

ClientAgrees(c) ==
    /\ clientKey[c] = None /\ serverKey[c] # None
    /\ clientKey' = [clientKey EXCEPT ![c] = serverKey[c]]
    /\ UNCHANGED <<serverKey, asked, heard, acknowledged>>

Ask(c) ==
    /\ clientKey[c] # None /\ asked[c] = acknowledged[c]
    /\ asked' = [asked EXCEPT ![c] = @ + 1]
    /\ UNCHANGED <<serverKey, clientKey, heard, acknowledged>>

Hear(c) ==
    /\ heard[c] < asked[c] /\ serverKey[c] = clientKey[c]
    /\ heard' = [heard EXCEPT ![c] = @ + 1]
    /\ UNCHANGED <<serverKey, clientKey, asked, acknowledged>>

Acknowledge(c) ==
    /\ acknowledged[c] < heard[c]
    /\ acknowledged' = [acknowledged EXCEPT ![c] = @ + 1]
    /\ UNCHANGED <<serverKey, clientKey, asked, heard>>

Forget(c) ==
    /\ serverKey' = [serverKey EXCEPT ![c] = None]
    /\ UNCHANGED <<clientKey, asked, heard, acknowledged>>

\* The server is started, and all connections are new.
Restart ==
    /\ serverKey' = [c \in Conns |-> None] /\ clientKey' = [c \in Conns |-> None]
    /\ asked' = [c \in Conns |-> 0]
    /\ heard' = [c \in Conns |-> 0]
    /\ acknowledged' = [c \in Conns |-> 0]

Next == \/ Restart
        \/ \E c \in Conns : \/ ServerAgrees(c) \/ ClientAgrees(c) \/ Ask(c) \/ Hear(c)
                            \/ Acknowledge(c) \/ Forget(c)

Spec == Init /\ [][Next]_channelVars

=============================================================================
