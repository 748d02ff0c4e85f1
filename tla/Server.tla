-------------------------------- MODULE Server --------------------------------
(***************************************************************************)
(* The server program: one thread runs the handlers of an asio io_context, *)
(* one at a time; each handler is one action here.  Between handlers a     *)
(* connection has at most one operation pending, a read or a write, whose  *)
(* completion runs its next handler; a handler that returns without        *)
(* starting another leaves the connection open and unattended.             *)
(*                                                                         *)
(* Peers connect, send any of Messages, read, and leave at any time.  The  *)
(* server keeps its sessions, nonces and sockets in memory and the list of *)
(* trusted devices in a file: it may be stopped, by a signal or by what    *)
(* escapes a handler, and started again.                                   *)
(*                                                                         *)
(* Abstracted: a key pair is a number, in the order of generation; a       *)
(* session key is the two key pairs it is derived from; a ciphertext is    *)
(* the key that opens it; a send buffer holds SendRoom replies.  Left out: *)
(* an accept that fails, after which the next one is started, and a read   *)
(* that ends within an end mark, which spoils the message behind it too.   *)
(***************************************************************************)
EXTENDS TrustFile, NonceCache

CONSTANTS
    Identities,   \* [id, keys] that messages present
    Messages,     \* messages peers send, but for simple_message
    Digests,      \* whether the sha256 of a simple_message is that of its text
    NoNonce,      \* an empty nounce field
    NoKey,        \* no session key
    SendRoom,     \* replies a socket holds before the peer reads them
    MaxSends,     \* bound on the messages sent
    MaxStarts     \* bound on the starts of the program

SessionKeys == [own : Nat, peer : Keys]

ASSUME ServerAssumption ==
    /\ Conns \subseteq Nat \ {0}
    /\ \A c \in Conns : 1..c \subseteq Conns
    /\ Identities \subseteq [id : DeviceIds, keys : Keys]
    /\ Digests \subseteq BOOLEAN
    /\ NoNonce \notin Nonces
    /\ NoKey \notin SessionKeys
    /\ SendRoom \in Nat /\ MaxSends \in Nat /\ MaxStarts \in Nat
    /\ Messages \subseteq
          [method : {"HelloFIUNAM"}, from : Identities, nounce : Nonces \cup {NoNonce},
           auth_token : Tokens, signed : BOOLEAN]
          \cup [method : {"RequestRegistration"}, from : Identities, auth_token : Tokens]
          \cup [method : {"AgreeParams"}, algorithm : {"ChaCha20", "other"}]
          \cup [method : {"unknown", "malformed"}]

VARIABLES
    server,       \* "off", "running", or what stopped it
    starts,
    file,         \* config/trusted_clients.txt
    connection_counter_,
    \* the connections, seen from outside the program
    socket,       \* "unused", "backlog", "open", "closed"
    peer,         \* "open", "eof", "reset"
    inbox,        \* messages sent and not yet read
    unread,       \* replies written and not yet read
    known,        \* server key pairs announced to the peer
    sends,
    \* the operations of the io thread
    pending,      \* "none", "read", "write"
    outgoing,     \* key pair announced by the reply being written, or 0
    blocked,      \* connection a synchronous write waits for, or 0
    \* the maps of the Server object
    client_sockets,
    session_keys_asymetric_map,   \* 0 for no entry
    session_keys_symetric_map,    \* NoKey for no entry
    generated,    \* key pairs generated so far
    outcome       \* history: what the connection's last handler did

netVars == <<socket, peer, inbox, unread, known, sends>>
ioVars  == <<pending, outgoing, blocked>>
keyVars == <<session_keys_asymetric_map, session_keys_symetric_map, generated>>
vars == <<server, starts, file, connection_counter_, netVars, ioVars, client_sockets,
          keyVars, outcome, nonceVars>>

Init ==
    /\ server = "off" /\ starts = 0 /\ file = NoFile
    /\ connection_counter_ = 0
    /\ socket = [c \in Conns |-> "unused"]
    /\ peer = [c \in Conns |-> "open"]
    /\ inbox = [c \in Conns |-> <<>>]
    /\ unread = [c \in Conns |-> 0]
    /\ known = [c \in Conns |-> {}]
    /\ sends = 0
    /\ pending = [c \in Conns |-> "none"]
    /\ outgoing = [c \in Conns |-> 0]
    /\ blocked = 0
    /\ client_sockets = {}
    /\ session_keys_asymetric_map = [c \in Conns |-> 0]
    /\ session_keys_symetric_map = [c \in Conns |-> NoKey]
    /\ generated = 0
    /\ outcome = [c \in Conns |-> "none"]
    /\ NonceInit

-----------------------------------------------------------------------------
\* The program.

\* main: the constructor, then io.run().  Nothing but the file is left of an
\* earlier run.
Start ==
    /\ server # "running" /\ starts < MaxStarts
    /\ server' = "running" /\ starts' = starts + 1
    /\ file' \in Startup(file)
    /\ connection_counter_' = 0
    /\ socket' = [c \in Conns |-> "unused"]
    /\ peer' = [c \in Conns |-> "open"]
    /\ inbox' = [c \in Conns |-> <<>>]
    /\ unread' = [c \in Conns |-> 0]
    /\ known' = [c \in Conns |-> {}]
    /\ pending' = [c \in Conns |-> "none"]
    /\ outgoing' = [c \in Conns |-> 0]
    /\ blocked' = 0
    /\ client_sockets' = {}
    /\ session_keys_asymetric_map' = [c \in Conns |-> 0]
    /\ session_keys_symetric_map' = [c \in Conns |-> NoKey]
    /\ outcome' = [c \in Conns |-> "none"]
    /\ used_nonces_per_client' = [c \in Conns |-> {}]
    /\ last_nonce_time' = [c \in Conns |-> Never]
    /\ acceptedAt' = [c \in Conns |-> [n \in Nonces |-> Never]]
    /\ UNCHANGED <<sends, generated, now>>

\* The io thread is free to run a handler.
Ready == server = "running" /\ blocked = 0

\* Variant: the send buffer takes any number of replies.
NeverFull(c) == TRUE

HasRoom(c) == unread[c] < SendRoom

\* An exception that leaves io.run(), or a fault: the process ends.
Halts(reason) ==
    /\ server' = reason
    /\ UNCHANGED <<starts, connection_counter_, netVars, ioVars, client_sockets, keyVars,
                   outcome, nonceVars>>

\* SIGINT or SIGTERM (handle_signal is a handler like the others).
Signal == Ready /\ Halts("signal") /\ UNCHANGED file

\* Time passes.
Clock == server = "running" /\ Tick
         /\ UNCHANGED <<server, starts, file, connection_counter_, netVars, ioVars,
                        client_sockets, keyVars, outcome>>

-----------------------------------------------------------------------------
\* The peers.

PeerVars == <<server, starts, file, connection_counter_, known, ioVars,
              client_sockets, keyVars, outcome, nonceVars>>

\* Connections enter the backlog in the order the acceptor will take them.
PeerConnect(c) ==
    /\ server = "running" /\ socket[c] = "unused"
    /\ \A d \in Conns : d < c => socket[d] # "unused"
    /\ socket' = [socket EXCEPT ![c] = "backlog"]
    /\ UNCHANGED <<peer, inbox, unread, sends, PeerVars>>

Connected(c) == server = "running" /\ socket[c] \in {"backlog", "open"} /\ peer[c] = "open"

\* A simple_message is encrypted under a key derived from an announced key
\* pair and one of the peer's, or altered on the way.
SimpleMessages(c) ==
    [method : {"simple_message"}, sha256 : Digests,
     key : [own : known[c], peer : { i.keys : i \in Identities }] \cup {NoKey}]

PeerSend(c) ==
    /\ Connected(c) /\ sends < MaxSends
    /\ \E m \in Messages \cup SimpleMessages(c) :
         inbox' = [inbox EXCEPT ![c] = Append(@, m)]
    /\ sends' = sends + 1
    /\ UNCHANGED <<socket, peer, unread, PeerVars>>

PeerReceive(c) ==
    /\ Connected(c) /\ unread[c] > 0
    /\ unread' = [unread EXCEPT ![c] = @ - 1]
    /\ UNCHANGED <<socket, peer, inbox, sends, PeerVars>>

\* In an orderly way, or not.
PeerLeave(c) ==
    /\ Connected(c)
    /\ \E how \in {"eof", "reset"} : peer' = [peer EXCEPT ![c] = how]
    /\ UNCHANGED <<socket, inbox, unread, sends, PeerVars>>

-----------------------------------------------------------------------------
\* start_accept

\* Variant: no read is started.
leave_client(c) == pending' = [pending EXCEPT ![c] = "none"]

handle_client(c) == pending' = [pending EXCEPT ![c] = "read"]

Accept(c) ==
    /\ Ready /\ socket[c] = "backlog" /\ c = connection_counter_ + 1
    /\ peer[c] # "reset"
    /\ connection_counter_' = c
    /\ socket' = [socket EXCEPT ![c] = "open"]
    /\ handle_client(c)
    /\ UNCHANGED <<server, starts, file, peer, inbox, unread, known, sends, outgoing,
                   blocked, client_sockets, keyVars, outcome, nonceVars>>

\* remote_endpoint() throws when the peer is gone.
AcceptFails(c) ==
    /\ Ready /\ socket[c] = "backlog" /\ c = connection_counter_ + 1
    /\ peer[c] = "reset"
    /\ Halts("remote_endpoint") /\ UNCHANGED file

-----------------------------------------------------------------------------
\* handle_client and manage_message_from_client

\* Variant: only the newest connection is served.
HandlesNewest(c, method) ==
    /\ Ready /\ socket[c] = "open" /\ pending[c] = "read" /\ c = connection_counter_
    /\ inbox[c] # <<>> /\ Head(inbox[c]).method = method

Handles(c, method) ==
    /\ Ready /\ socket[c] = "open" /\ pending[c] = "read"
    /\ inbox[c] # <<>> /\ Head(inbox[c]).method = method

\* Variant: the buffer is kept, and its first message not taken out of it.
KeepsBuffer(c, what) ==
    /\ outcome' = [outcome EXCEPT ![c] = what]
    /\ UNCHANGED <<inbox, server, starts, connection_counter_, peer, known, sends>>

\* Text up to an end mark that is not JSON.
Garbage == [method |-> "unknown"]

\* What a read leaves that took n messages, or n and a part of the next one.
Remainders(sent, n) ==
    { SubSeq(sent, n + 1, Len(sent)) } \cup
    (IF n < Len(sent) THEN { <<Garbage>> \o SubSeq(sent, n + 2, Len(sent)) } ELSE {})

\* What was read behind the first message is lost with the buffer.
Consumes(c, what) ==
    /\ \E n \in 1..Len(inbox[c]) : \E rest \in Remainders(inbox[c], n) :
          inbox' = [inbox EXCEPT ![c] = rest]
    /\ outcome' = [outcome EXCEPT ![c] = what]
    /\ UNCHANGED <<server, starts, connection_counter_, peer, known, sends>>

\* Variant: the next read is started on the closed socket.
ClosesAndReads(c) ==
    /\ socket' = [socket EXCEPT ![c] = "closed"]
    /\ UNCHANGED <<pending, unread, outgoing, blocked>>

Closes(c) ==
    /\ socket' = [socket EXCEPT ![c] = "closed"]
    /\ pending' = [pending EXCEPT ![c] = "none"]
    /\ UNCHANGED <<unread, outgoing, blocked>>

Stalls(c) ==
    /\ pending' = [pending EXCEPT ![c] = "none"]
    /\ client_sockets' = client_sockets \cup {c}
    /\ UNCHANGED <<socket, unread, outgoing, blocked, file, keyVars, nonceVars>>

\* Variant: nothing is written, and the next message is read.
ReadsOn(c, announced) ==
    /\ handle_client(c)
    /\ client_sockets' = client_sockets \cup {c}
    /\ UNCHANGED <<socket, unread, outgoing, blocked>>

\* async_write(response): what does not fit in the send buffer at once is taken
\* later from a string that is destroyed by then, and arrives as anything.
Replies(c, announced) ==
    /\ pending' = [pending EXCEPT ![c] = "write"]
    /\ \E r \in IF HasRoom(c) THEN {announced} ELSE {announced, 0} :
          outgoing' = [outgoing EXCEPT ![c] = r]
    /\ client_sockets' = client_sockets \cup {c}
    /\ UNCHANGED <<socket, unread, blocked>>

\* Variant: one set of nonces for all connections.
HelloReplayedAnywhere(c) ==
    /\ Handles(c, "HelloFIUNAM") /\ Consumes(c, "replayed")
    /\ \E d \in Conns : Head(inbox[c]).nounce \in used_nonces_per_client[d]
    /\ Closes(c)
    /\ client_sockets' = client_sockets \cup {c}
    /\ UNCHANGED <<file, keyVars, nonceVars>>

HelloReplayed(c) ==
    /\ Handles(c, "HelloFIUNAM") /\ Consumes(c, "replayed")
    /\ Head(inbox[c]).nounce \in used_nonces_per_client[c]
    /\ Closes(c)
    /\ client_sockets' = client_sockets \cup {c}
    /\ UNCHANGED <<file, keyVars, nonceVars>>

ChecksNonce(c) ==
    LET n == Head(inbox[c]).nounce
    IN  IF n = NoNonce THEN UNCHANGED nonceVars ELSE AcceptNonce(c, n)

\* The device the message is from, by its own account: another message on the
\* connection may name another one.
Sender(c) == Head(inbox[c]).from

\* What authenticate_new_device makes of that device.
Authenticated(c) ==
    authenticate_and_register_device(file, Sender(c).id, Sender(c).keys,
                                     Head(inbox[c]).auth_token)

\* Not trusted, or the signature is wrong; the registration, if any, stays.
HelloRefused(c) ==
    /\ Handles(c, "HelloFIUNAM") /\ Consumes(c, "refused")
    /\ ChecksNonce(c)
    /\ \E o \in Authenticated(c) : ~(o.ok /\ Head(inbox[c]).signed) /\ file' = o.file
    /\ Closes(c)
    /\ client_sockets' = client_sockets \ {c}
    /\ UNCHANGED keyVars

\* Variant: std::map::insert_or_assign.
insert_or_assign(map, c, absent, value) == [map EXCEPT ![c] = value]

\* std::map::insert: an entry from an earlier Hello stays, whatever keys this one
\* presents.
insert(map, c, absent, value) == [map EXCEPT ![c] = IF @ = absent THEN value ELSE @]

\* Variant: the symmetric keys are not kept.
insertAsymetric(c) ==
    /\ generated' = generated + 1
    /\ session_keys_asymetric_map' = insert(session_keys_asymetric_map, c, 0, generated + 1)
    /\ UNCHANGED session_keys_symetric_map

insertSession(c) ==
    /\ generated' = generated + 1
    /\ session_keys_asymetric_map' = insert(session_keys_asymetric_map, c, 0, generated + 1)
    /\ session_keys_symetric_map' =
          insert(session_keys_symetric_map, c, NoKey,
                 [own |-> generated + 1, peer |-> Sender(c).keys])

HelloAccepted(c) ==
    /\ Handles(c, "HelloFIUNAM") /\ Consumes(c, "greeted")
    /\ ChecksNonce(c)
    /\ \E o \in Authenticated(c) : o.ok /\ Head(inbox[c]).signed /\ file' = o.file
    /\ insertSession(c)
    /\ Replies(c, session_keys_asymetric_map'[c])

\* The answer is written before the handler returns; nothing is read after it.
RegistrationAnswered(c) ==
    /\ Handles(c, "RequestRegistration")
    /\ \E o \in Authenticated(c) :
          /\ file' = o.file
          /\ Consumes(c, IF o.ok THEN "registered" ELSE "not registered")
    /\ IF HasRoom(c)
       THEN unread' = [unread EXCEPT ![c] = @ + 1] /\ UNCHANGED blocked
       ELSE blocked' = c /\ UNCHANGED unread
    /\ pending' = [pending EXCEPT ![c] = "none"]
    /\ client_sockets' = client_sockets \cup {c}
    /\ UNCHANGED <<socket, outgoing, keyVars, nonceVars>>

\* asio::write throws.
RegistrationUndeliverable(c) ==
    /\ Handles(c, "RequestRegistration") /\ peer[c] # "open"
    /\ \E o \in Authenticated(c) : file' = o.file
    /\ Halts("write")

BlockedWriteDone(c) ==
    /\ server = "running" /\ blocked = c /\ HasRoom(c)
    /\ unread' = [unread EXCEPT ![c] = @ + 1]
    /\ blocked' = 0
    /\ UNCHANGED <<server, starts, file, connection_counter_, socket, peer, inbox, known,
                   sends, pending, outgoing, client_sockets, keyVars, outcome, nonceVars>>

BlockedWriteFails(c) ==
    /\ server = "running" /\ blocked = c /\ peer[c] # "open"
    /\ Halts("write") /\ UNCHANGED file

AgreeParamsAccepted(c) ==
    /\ Handles(c, "AgreeParams") /\ Consumes(c, "agreed")
    /\ Head(inbox[c]).algorithm = "ChaCha20"
    /\ Replies(c, 0)
    /\ UNCHANGED <<file, keyVars, nonceVars>>

AgreeParamsRefused(c) ==
    /\ Handles(c, "AgreeParams") /\ Consumes(c, "unsupported")
    /\ Head(inbox[c]).algorithm # "ChaCha20"
    /\ Closes(c)
    /\ client_sockets' = client_sockets \ {c}
    /\ UNCHANGED <<file, keyVars, nonceVars>>

\* decrypt_message returns when the message is sealed with the session's key.
Opens(c) ==
    /\ session_keys_symetric_map[c] # NoKey
    /\ Head(inbox[c]).key = session_keys_symetric_map[c]

SimpleAnswered(c) ==
    /\ Handles(c, "simple_message") /\ Opens(c) /\ Head(inbox[c]).sha256
    /\ Consumes(c, "answered")
    /\ Replies(c, 0)
    /\ UNCHANGED <<file, keyVars, nonceVars>>

SimpleMismatch(c) ==
    /\ Handles(c, "simple_message") /\ Opens(c) /\ ~Head(inbox[c]).sha256
    /\ Consumes(c, "mismatch")
    /\ Stalls(c)

UnknownMessage(c) ==
    /\ Handles(c, "unknown") /\ Consumes(c, "unknown")
    /\ Stalls(c)

\* The first decryption stands before the try block; without a session its key
\* is the empty vector of a new entry.  A field of the wrong type throws too.
MessageFatal(c) ==
    /\ \/ Handles(c, "simple_message") /\ session_keys_symetric_map[c] = NoKey
          /\ Halts("no session key")
       \/ Handles(c, "simple_message") /\ session_keys_symetric_map[c] # NoKey
          /\ ~Opens(c) /\ Halts("decryption")
       \/ Handles(c, "malformed") /\ Halts("json")
    /\ UNCHANGED file

\* Variant: the symmetric keys are forgotten in it.
erasesAsymetric(c) ==
    /\ session_keys_asymetric_map' = [session_keys_asymetric_map EXCEPT ![c] = 0]
    /\ UNCHANGED session_keys_symetric_map

erasesSession(c) ==
    /\ session_keys_asymetric_map' = [session_keys_asymetric_map EXCEPT ![c] = 0]
    /\ session_keys_symetric_map' = [session_keys_symetric_map EXCEPT ![c] = NoKey]

\* The connection leaves every map, and its socket goes with the handler.
Forgets(c) ==
    /\ erasesSession(c)
    /\ client_sockets' = client_sockets \ {c}
    /\ Closes(c)
    /\ outcome' = [outcome EXCEPT ![c] = "disconnected"]
    /\ UNCHANGED <<server, starts, file, connection_counter_, peer, inbox, known,
                   sends, generated, nonceVars>>

\* Variant: only the orderly end of the stream is handled.
ReadErrorEof(c) ==
    /\ Ready /\ socket[c] = "open" /\ pending[c] = "read"
    /\ peer[c] = "eof" /\ inbox[c] = <<>>
    /\ Forgets(c)

ReadError(c) ==
    /\ Ready /\ socket[c] = "open" /\ pending[c] = "read"
    /\ peer[c] = "reset" \/ (peer[c] = "eof" /\ inbox[c] = <<>>)
    /\ Forgets(c)

WriteError(c) ==
    /\ Ready /\ socket[c] = "open" /\ pending[c] = "write" /\ peer[c] # "open"
    /\ Forgets(c)

\* The reply is out: handle_client again, with a new buffer.
WriteDone(c) ==
    /\ Ready /\ socket[c] = "open" /\ pending[c] = "write" /\ HasRoom(c)
    /\ unread' = [unread EXCEPT ![c] = @ + 1]
    /\ known' = [known EXCEPT ![c] = @ \cup ({outgoing[c]} \ {0})]
    /\ outgoing' = [outgoing EXCEPT ![c] = 0]
    /\ handle_client(c)
    /\ UNCHANGED <<server, starts, file, connection_counter_, socket, peer, inbox,
                   sends, blocked, client_sockets, keyVars, outcome, nonceVars>>

-----------------------------------------------------------------------------
Peer(c) == PeerConnect(c) \/ PeerSend(c) \/ PeerReceive(c) \/ PeerLeave(c)

\* A step of the io thread for connection c.
Io(c) ==
    \/ Accept(c) \/ AcceptFails(c)
    \/ HelloReplayed(c) \/ HelloRefused(c) \/ HelloAccepted(c)
    \/ RegistrationAnswered(c) \/ RegistrationUndeliverable(c)
    \/ BlockedWriteDone(c) \/ BlockedWriteFails(c)
    \/ AgreeParamsAccepted(c) \/ AgreeParamsRefused(c)
    \/ SimpleAnswered(c) \/ SimpleMismatch(c) \/ UnknownMessage(c) \/ MessageFatal(c)
    \/ ReadError(c) \/ WriteError(c) \/ WriteDone(c)

Next == \/ Start \/ Signal \/ Clock
        \/ \E c \in Conns : Peer(c) \/ Io(c)

Spec == Init /\ [][Next]_vars

\* The reactor completes every operation that stays possible, in turn.
FairSpec == Spec /\ \A c \in Conns : WF_vars(Io(c))

=============================================================================
