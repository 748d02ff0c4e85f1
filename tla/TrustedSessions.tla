--------------------------- MODULE TrustedSessions ---------------------------
(***************************************************************************)
(* What the server promises about its sessions, whatever the order of its  *)
(* handlers: a connection's session is made once, of a key pair used for   *)
(* no other session and the keys of a device that is trusted, and is then  *)
(* neither replaced nor changed; trust is never withdrawn.                 *)
(***************************************************************************)
CONSTANTS Conns, Keys, None

VARIABLES
    trusted,    \* key pairs of trusted devices
    issued,     \* the server's own key pairs so far
    session     \* of each connection, or None

sessionVars == <<trusted, issued, session>>

Init == trusted = {} /\ issued = {} /\ session = [c \in Conns |-> None]

Establish(c) ==
    /\ session[c] = None
    /\ \E own \in issued' \ issued, k \in trusted' :
          session' = [session EXCEPT ![c] = [own |-> own, peer |-> k]]

Forget == \E gone \in SUBSET Conns :
              session' = [c \in Conns |-> IF c \in gone THEN None ELSE session[c]]

Next == /\ trusted \subseteq trusted' /\ trusted' \subseteq Keys
        /\ issued \subseteq issued'
        /\ Forget \/ \E c \in Conns : Establish(c)

Spec == Init /\ [][Next]_sessionVars

=============================================================================
