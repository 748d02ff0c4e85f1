--------------------------- MODULE ServerProperties ---------------------------
(***************************************************************************)
(* What must hold of Server: of every state, of every step, and in the end.*)
(***************************************************************************)
EXTENDS Server

Entry(c) == session_keys_symetric_map[c]

\* Ways through a handler, and "none" of a connection nothing was handled for.
Outcomes == {"none", "replayed", "refused", "greeted", "registered", "not registered", "agreed",
             "unsupported", "answered", "mismatch", "unknown", "disconnected"}

TypeOK ==
    /\ server \in {"off", "running", "signal", "remote_endpoint", "write", "decryption",
                   "no session key", "json"}
    /\ starts \in Nat /\ file \in File /\ connection_counter_ \in Nat
    /\ socket \in [Conns -> {"unused", "backlog", "open", "closed"}]
    /\ peer \in [Conns -> {"open", "eof", "reset"}]
    /\ inbox \in [Conns -> Seq(Messages \cup {Garbage} \cup
                               [method : {"simple_message"}, sha256 : Digests,
                                key : SessionKeys \cup {NoKey}])]
    /\ unread \in [Conns -> 0..SendRoom]
    /\ known \in [Conns -> SUBSET (1..generated)]
    /\ sends \in 0..MaxSends
    /\ pending \in [Conns -> {"none", "read", "write"}]
    /\ outgoing \in [Conns -> 0..generated]
    /\ blocked \in Conns \cup {0}
    /\ client_sockets \subseteq Conns
    /\ session_keys_asymetric_map \in [Conns -> 0..generated]
    /\ session_keys_symetric_map \in [Conns -> SessionKeys \cup {NoKey}]
    /\ generated \in Nat
    /\ outcome \in [Conns -> Outcomes]
    /\ NonceTypeOK

\* The two session maps hold the same connections, and the symmetric keys are
\* derived from the key pair in the other map.
SessionMapsAgree ==
    \A c \in Conns :
        IF session_keys_asymetric_map[c] = 0 THEN Entry(c) = NoKey
        ELSE Entry(c) # NoKey /\ Entry(c).own = session_keys_asymetric_map[c]

\* Every key pair of its own that the server announced to a peer that is still
\* connected is the one it made the session of, however often the peer said Hello,
\* under whichever keys, and whenever the replies were written.  (The keys of the peer
\* in it are those of its first Hello, whichever a later one presents.)
AnnouncedKeyIsSessionKey ==
    \A c \in Conns :
        socket[c] = "open" =>
            \A n \in known[c] \cup ({outgoing[c]} \ {0}) :
                Entry(c) # NoKey /\ Entry(c).own = n

\* Nobody has a session whose keys are not in the list of trusted devices, in
\* this run of the program or a later one.
SessionImpliesTrusted ==
    \A c \in Conns : Entry(c) # NoKey => is_client_registered(file, Entry(c).peer)

\* A socket that is closed is in no map any more, but where the server itself
\* closed it on a Hello or an algorithm it refused.
ClosedIsForgotten ==
    \A c \in Conns :
        socket[c] = "closed" /\ outcome[c] \notin {"replayed", "refused", "unsupported"} =>
            c \notin client_sockets /\ Entry(c) = NoKey

\* An open connection that nothing is pending for: no message and no hang-up of
\* its peer will be noticed.
Stalled(c) == socket[c] = "open" /\ pending[c] = "none"

\* The code stalls a connection in three places, after a registration, a wrong digest
\* and an unknown message; besides those no order of handlers, messages and failing
\* writes leaves an open connection unattended, and the map then holds its socket.
\* (That the first is meant to be so is another matter: RegistrationAwaitsHello.)
NoOtherStall ==
    \A c \in Conns : Stalled(c) =>
        /\ outcome[c] \in {"registered", "not registered", "mismatch", "unknown"}
        /\ c \in client_sockets

\* An operation is pending on open sockets only, and on every one of them but
\* the stalled; a synchronous write waits for a connection that has none.
OperationsOnOpenSockets ==
    /\ \A c \in Conns : pending[c] # "none" => socket[c] = "open" /\ c <= connection_counter_
    /\ blocked # 0 => Stalled(blocked)

-----------------------------------------------------------------------------
\* The server implements the abstract sessions: their keys are fresh, trusted
\* and never replaced while they last.
Sessions == INSTANCE TrustedSessions WITH
    None <- NoKey,
    trusted <- { k \in Keys : is_client_registered(file, k) },
    issued <- 1..generated,
    session <- session_keys_symetric_map

ImplementsTrustedSessions == Sessions!Spec

-----------------------------------------------------------------------------
\* The io thread serves nobody: it has stopped, or it waits for one peer.
Unavailable == server # "running" \/ blocked # 0

\* A peer that hangs up is noticed, and its entries go, unless the connection
\* is stalled or the thread is.
HangUpIsNoticed ==
    \A c \in Conns :
        (socket[c] = "open" /\ peer[c] # "open")
            ~> (socket[c] = "closed" \/ Stalled(c) \/ Unavailable)

\* What the io thread has still to do for a connection whose peer has hung up: to
\* take and to answer each message, and to notice the end.
WorkLeft(c) ==
    IF server # "running" \/ socket[c] \in {"unused", "closed"} THEN 0
    ELSE IF Stalled(c) THEN IF blocked = c THEN 1 ELSE 0
    ELSE 2 * Len(inbox[c]) + (IF pending[c] = "read" THEN 1 ELSE 2)

\* Why it is noticed: every step of the io thread for the connection does some of
\* that work, and no other step, of any peer or connection, makes it more; no
\* handler goes back to a message or starts a reply that it does not finish.
HangUpsAreWorkedOff ==
    [][\A c \in Conns : peer[c] # "open" /\ socket[c] # "unused" =>
          /\ WorkLeft(c)' <= WorkLeft(c)
          /\ Io(c) => WorkLeft(c)' < WorkLeft(c)]_vars

\* No message is left lying in a connection that is being read, and the reply
\* to it goes out as soon as the peer makes room for it.
MessagesAreTaken ==
    \A c \in Conns :
        (socket[c] \in {"backlog", "open"} /\ inbox[c] # <<>>)
            ~> \/ inbox[c] = <<>> \/ socket[c] = "closed" \/ Stalled(c) \/ Unavailable
               \/ pending[c] = "write" /\ unread[c] = SendRoom

-----------------------------------------------------------------------------
\* "ANTI-TAMPERING - Closing connection with Client": a message that does not
\* decrypt costs its sender the connection, and not the program its run.
TamperingClosesOnlyItsConnection == server # "decryption"

\* "Registration completed, awaiting HelloFIUNAM": a connection whose device has been
\* told that it is registered is being read.
RegistrationAwaitsHello ==
    \A c \in Conns :
        outcome[c] = "registered" /\ socket[c] = "open" /\ blocked # c /\ server = "running"
            => pending[c] = "read"

=============================================================================
