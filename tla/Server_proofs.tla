---------------------------- MODULE Server_proofs ----------------------------
(***************************************************************************)
(* The server for every number of connections, devices, messages and       *)
(* restarts: its maps agree with each other, with what peers were told and *)
(* with the sockets, its sessions implement TrustedSessions, and it works  *)
(* off what a peer that hung up has left.                                  *)
(***************************************************************************)
EXTENDS ServerProperties, TrustFile_proofs, NonceCache_proofs

\* What a peer may have sent, or a read may have made of it.
Sent == Messages \cup {Garbage} \cup [method : {"simple_message"}, sha256 : Digests,
                       key : SessionKeys \cup {NoKey}]

\* The values a connection's variables take.
SocketStates == {"unused", "backlog", "open", "closed"}
PeerStates == {"open", "eof", "reset"}
Operations == {"none", "read", "write"}
ServerStates == {"off", "running", "signal", "remote_endpoint", "write", "decryption",
                 "no session key", "json"}

IoTypes ==
    /\ connection_counter_ \in Nat
    /\ socket \in [Conns -> SocketStates]
    /\ peer \in [Conns -> PeerStates]
    /\ pending \in [Conns -> Operations]
    /\ unread \in [Conns -> 0..SendRoom]
    /\ blocked \in Conns \cup {0}
    /\ client_sockets \subseteq Conns
    /\ outcome \in [Conns -> Outcomes]

KeyTypes ==
    /\ generated \in Nat
    /\ known \in [Conns -> SUBSET (1..generated)]
    /\ outgoing \in [Conns -> 0..generated]
    /\ session_keys_asymetric_map \in [Conns -> 0..generated]
    /\ session_keys_symetric_map \in [Conns -> SessionKeys \cup {NoKey}]

RestTypes ==
    /\ server \in ServerStates
    /\ starts \in Nat
    /\ sends \in 0..MaxSends
    /\ inbox \in [Conns -> Seq(Sent)]

Types == IoTypes /\ KeyTypes

\* A connection that is not accepted yet is in no map, and nothing was written.
Unaccepted ==
    \A c \in Conns :
        socket[c] \in {"unused", "backlog"} =>
            /\ Entry(c) = NoKey /\ c \notin client_sockets
            /\ known[c] = {} /\ outgoing[c] = 0

\* The backlog is behind the connections accepted so far, without a gap.
AcceptedInOrder ==
    /\ \A c \in Conns : socket[c] \in {"unused", "backlog"} <=> connection_counter_ < c
    /\ \A c, d \in Conns : d < c /\ socket[c] # "unused" => socket[d] # "unused"

\* What the invariants of single connections need of each other.
ServerInv ==
    /\ Types /\ RestTypes
    /\ file \in File
    /\ NonceInv
    /\ Unaccepted
    /\ AcceptedInOrder
    /\ SessionMapsAgree
    /\ AnnouncedKeyIsSessionKey
    /\ ClosedIsForgotten
    /\ NoOtherStall
    /\ OperationsOnOpenSockets

\* What the proofs use of the constants.
LEMMA ConstantFacts ==
    /\ SendRoom \in Nat /\ MaxSends \in Nat
    /\ \A c \in Conns : c \in Nat /\ c # 0
    /\ NoKey \notin SessionKeys
    /\ \A p \in Identities : p.id \in DeviceIds /\ p.keys \in Keys
BY ServerAssumption

\* TypeOK in parts.
LEMMA TypesGiveTypeOK ==
    ASSUME Types, RestTypes, file \in File, NonceTypeOK
    PROVE  TypeOK
BY DEF Types, IoTypes, KeyTypes, RestTypes, Sent, SocketStates, PeerStates, Operations,
       ServerStates, TypeOK

-----------------------------------------------------------------------------
\* What is common to the steps that read a message.

\* The message a handler looks at is one a peer can send.
LEMMA NextMessage ==
    ASSUME RestTypes, NEW c \in Conns, NEW method, Handles(c, method)
    PROVE  /\ Head(inbox[c]) \in Sent
           /\ method = "HelloFIUNAM" => Head(inbox[c]).nounce \in Nonces \cup {NoNonce}
           /\ method \in {"HelloFIUNAM", "RequestRegistration"} => Sender(c) \in Identities
<1>1. Head(inbox[c]) \in Sent /\ Head(inbox[c]).method = method
  BY HeadTailProperties DEF RestTypes, Handles
<1>. QED BY <1>1, ServerAssumption DEF Sent, Garbage, Sender

\* Steps of the list of devices: only these change the file.
LEMMA FileKinds ==
    ASSUME [Next]_vars
    PROVE  \/ Start
           \/ file' = file
           \/ \E c \in Conns :
                 /\ Handles(c, "HelloFIUNAM") \/ Handles(c, "RequestRegistration")
                 /\ \E o \in Authenticated(c) : file' = o.file
BY DEF Next, Signal, Clock, Peer, PeerConnect, PeerSend, PeerReceive, PeerLeave, PeerVars, Io,
      Accept, AcceptFails, HelloReplayed, HelloRefused, HelloAccepted, RegistrationAnswered,
      RegistrationUndeliverable, BlockedWriteDone, BlockedWriteFails, AgreeParamsAccepted,
      AgreeParamsRefused, SimpleAnswered, SimpleMismatch, UnknownMessage, Stalls, MessageFatal,
      ReadError, WriteError, Forgets, WriteDone, vars

\* The file keeps its form, whatever the messages and failures.
LEMMA FileStep ==
    ASSUME RestTypes, file \in File, [Next]_vars
    PROVE  file' \in File
<1>1. CASE Start
  BY <1>1, StartupType DEF Start
<1>2. ASSUME NEW c \in Conns, NEW o \in Authenticated(c), file' = o.file,
             Handles(c, "HelloFIUNAM") \/ Handles(c, "RequestRegistration")
      PROVE  file' \in File
  <2>1. Sender(c).id \in DeviceIds /\ Sender(c).keys \in Keys
    BY <1>2, NextMessage, ConstantFacts
  <2>. QED BY <1>2, <2>1, AuthenticateType DEF Authenticated
<1>. QED BY <1>1, <1>2, FileKinds

\* The cache keeps its invariant: every step of the server is one of the cache, a
\* restart, or none of its business.
LEMMA NonceStep ==
    ASSUME RestTypes, NonceInv, [Next]_vars
    PROVE  NonceInv'
<1>1. CASE Start
  BY <1>1 DEF Start, NonceInv, NonceTypeOK, AcceptedBeforeLast, RecentNoncesRefused,
              NoOrphanedNonces, SilentAreForgotten, Never
<1>2. CASE Tick
  BY <1>2, TickKeepsInv
<1>3. CASE UNCHANGED nonceVars
  BY <1>3 DEF nonceVars, NonceInv, NonceTypeOK, AcceptedBeforeLast, RecentNoncesRefused,
              NoOrphanedNonces, SilentAreForgotten
<1>4. ASSUME NEW c \in Conns, ChecksNonce(c), Handles(c, "HelloFIUNAM") PROVE NonceInv'
  <2>1. Head(inbox[c]).nounce \in Nonces \cup {NoNonce}
    BY <1>4, NextMessage
  <2>. QED BY <1>3, <1>4, <2>1, AcceptNonceKeepsInv DEF ChecksNonce
<1>. QED
  BY <1>1, <1>2, <1>3, <1>4
  DEF Halts, Handles, Next, Signal, Clock, Peer, PeerConnect, PeerSend,
      PeerReceive, PeerLeave, PeerVars, Io,
      Accept, AcceptFails, HelloReplayed, HelloRefused, HelloAccepted, RegistrationAnswered,
      RegistrationUndeliverable, BlockedWriteDone, BlockedWriteFails, AgreeParamsAccepted,
      AgreeParamsRefused, SimpleAnswered, SimpleMismatch, UnknownMessage, Stalls, MessageFatal,
      ReadError, WriteError, Forgets, WriteDone, vars

\* What a read leaves is a shorter row of messages.
LEMMA RemainderType ==
    ASSUME NEW sent \in Seq(Sent), NEW n \in 1..Len(sent), NEW rest \in Remainders(sent, n)
    PROVE  rest \in Seq(Sent) /\ Len(rest) \in Nat /\ Len(rest) < Len(sent)
<1>1. Len(sent) \in Nat
  OBVIOUS
<1>2. CASE rest = SubSeq(sent, n + 1, Len(sent))
  <2>1. rest \in Seq(Sent) /\ Len(rest) = Len(sent) - n
    BY <1>2
  <2>. QED BY <1>1, <2>1
<1>3. CASE n < Len(sent) /\ rest = <<Garbage>> \o SubSeq(sent, n + 2, Len(sent))
  <2> DEFINE tail == SubSeq(sent, n + 2, Len(sent))
  <2>1. tail \in Seq(Sent) /\ Len(tail) = Len(sent) - n - 1
    BY <1>1, <1>3
  <2>2. <<Garbage>> \in Seq(Sent) /\ Len(<<Garbage>>) = 1
    BY DEF Sent
  <2> HIDE DEF tail
  <2>3. <<Garbage>> \o tail \in Seq(Sent) /\ Len(<<Garbage>> \o tail) = 1 + Len(tail)
    BY <2>1, <2>2, ConcatProperties
  <2>. QED BY <1>1, <1>3, <2>1, <2>3 DEF tail
<1>. QED BY <1>2, <1>3 DEF Remainders

\* What a peer sends and what is left of it has the form of a message.
LEMMA InboxStep ==
    ASSUME Types, RestTypes, [Next]_vars
    PROVE  inbox' \in [Conns -> Seq(Sent)]
<1>1. CASE inbox' = inbox
  BY <1>1 DEF RestTypes
<1>0. CASE inbox' = [c \in Conns |-> <<>>]
  <2>1. <<>> \in Seq(Sent)
    OBVIOUS
  <2>. QED BY <1>0, <2>1
<1>2. ASSUME NEW c \in Conns, NEW what, Consumes(c, what) PROVE inbox' \in [Conns -> Seq(Sent)]
  <2>1. PICK n \in 1..Len(inbox[c]) : \E rest \in Remainders(inbox[c], n) :
              inbox' = [inbox EXCEPT ![c] = rest]
    BY <1>2 DEF Consumes
  <2>2. inbox \in [Conns -> Seq(Sent)]
    BY DEF RestTypes
  <2>3. \A rest \in Remainders(inbox[c], n) : rest \in Seq(Sent)
    BY <2>2, RemainderType
  <2>. QED BY <2>1, <2>2, <2>3
<1>3. ASSUME NEW c \in Conns, PeerSend(c) PROVE inbox' \in [Conns -> Seq(Sent)]
  <2>1. PICK m \in Messages \cup SimpleMessages(c) : inbox' = [inbox EXCEPT ![c] = Append(@, m)]
    BY <1>3 DEF PeerSend
  <2>2. m \in Sent
    BY ConstantFacts DEF SimpleMessages, Sent, SessionKeys, Types, KeyTypes
  <2>. QED BY <2>1, <2>2 DEF RestTypes
<1>. QED
  BY <1>0, <1>1, <1>2, <1>3
  DEF Halts, netVars, Next, Signal, Clock, Peer, PeerConnect, PeerSend,
      PeerReceive, PeerLeave, PeerVars, Io,
      Accept, AcceptFails, HelloReplayed, HelloRefused, HelloAccepted, RegistrationAnswered,
      RegistrationUndeliverable, BlockedWriteDone, BlockedWriteFails, AgreeParamsAccepted,
      AgreeParamsRefused, SimpleAnswered, SimpleMismatch, UnknownMessage, Stalls, MessageFatal,
      ReadError, WriteError, Forgets, WriteDone, vars, Start

\* Types of the rest.
LEMMA RestTypesStep ==
    ASSUME Types, RestTypes, [Next]_vars
    PROVE  RestTypes'
<1>1. \/ server' = server \/ server' = "running"
      \/ \E reason \in {"signal", "remote_endpoint", "write", "decryption", "no session key", "json"} :
            Halts(reason)
  BY DEF Consumes, Next, Signal, Clock, Peer, PeerConnect, PeerSend,
      PeerReceive, PeerLeave, PeerVars, Io,
      Accept, AcceptFails, HelloReplayed, HelloRefused, HelloAccepted, RegistrationAnswered,
      RegistrationUndeliverable, BlockedWriteDone, BlockedWriteFails, AgreeParamsAccepted,
      AgreeParamsRefused, SimpleAnswered, SimpleMismatch, UnknownMessage, Stalls, MessageFatal,
      ReadError, WriteError, Forgets, WriteDone, vars, Start
<1>2. /\ starts' \in {starts, starts + 1}
      /\ sends' \in {sends} \cup (IF sends < MaxSends THEN {sends + 1} ELSE {})
  BY DEF Halts, Consumes, netVars, Next, Signal, Clock, Peer, PeerConnect, PeerSend,
      PeerReceive, PeerLeave, PeerVars, Io,
      Accept, AcceptFails, HelloReplayed, HelloRefused, HelloAccepted, RegistrationAnswered,
      RegistrationUndeliverable, BlockedWriteDone, BlockedWriteFails, AgreeParamsAccepted,
      AgreeParamsRefused, SimpleAnswered, SimpleMismatch, UnknownMessage, Stalls, MessageFatal,
      ReadError, WriteError, Forgets, WriteDone, vars, Start
<1>3. server' \in ServerStates
  BY <1>1 DEF RestTypes, ServerStates, Halts
<1>. QED BY <1>2, <1>3, InboxStep, ConstantFacts DEF RestTypes

-----------------------------------------------------------------------------
\* The steps, by what they do to the connections; one step of a proof deals
\* with each kind.

USE DEF Handles, Ready, HasRoom, Connected, Consumes, Closes, Stalls, Replies, Halts,
        handle_client, Forgets, erasesSession, insertSession, insert, PeerVars, netVars, ioVars,
        keyVars

\* A step that changes no connection as the io thread sees it.
Untouched ==
    /\ UNCHANGED <<connection_counter_, socket, known, client_sockets, outcome>>
    /\ UNCHANGED <<ioVars, keyVars>>
    /\ peer' \in [Conns -> PeerStates]
    /\ unread' \in [Conns -> 0..SendRoom]

\* A registration, whichever its answer.
Registered(c) ==
    /\ \E what \in {"registered", "not registered"} : Consumes(c, what)
    /\ Ready /\ socket[c] = "open"
    /\ \/ HasRoom(c) /\ unread' = [unread EXCEPT ![c] = @ + 1] /\ blocked' = blocked
       \/ unread' = unread /\ blocked' = c
    /\ pending' = [pending EXCEPT ![c] = "none"]
    /\ client_sockets' = client_sockets \cup {c}
    /\ UNCHANGED <<socket, outgoing, keyVars>>

\* Failures of the process, peers and the clock touch no connection.
LEMMA StepKinds ==
    ASSUME IoTypes, [Next]_vars
    PROVE  \/ Start
           \/ Untouched
           \/ \E c \in Conns :
                 \/ PeerConnect(c) \/ Accept(c)
                 \/ HelloReplayed(c) \/ HelloRefused(c) \/ HelloAccepted(c)
                 \/ Registered(c) \/ BlockedWriteDone(c)
                 \/ AgreeParamsAccepted(c) \/ AgreeParamsRefused(c)
                 \/ SimpleAnswered(c) \/ SimpleMismatch(c) \/ UnknownMessage(c)
                 \/ ReadError(c) \/ WriteError(c) \/ WriteDone(c)
<1>1. ASSUME NEW reason, Halts(reason) PROVE Untouched
  BY <1>1 DEF Untouched, IoTypes
<1>2. ASSUME NEW c \in Conns, PeerSend(c) PROVE Untouched
  BY <1>2 DEF PeerSend, Untouched, IoTypes
<1>3. ASSUME NEW c \in Conns, PeerReceive(c) PROVE Untouched
  BY <1>3, ConstantFacts DEF PeerReceive, Untouched, IoTypes
<1>4. ASSUME NEW c \in Conns, PeerLeave(c) PROVE Untouched
  BY <1>4 DEF PeerLeave, Untouched, IoTypes, PeerStates
<1>5. CASE Clock \/ UNCHANGED vars
  BY <1>5 DEF Clock, vars, Untouched, IoTypes
<1>6. ASSUME NEW c \in Conns, RegistrationAnswered(c) PROVE Registered(c)
  BY <1>6 DEF RegistrationAnswered, Registered
<1>7. ASSUME NEW c \in Conns,
             AcceptFails(c) \/ RegistrationUndeliverable(c) \/ BlockedWriteFails(c) \/ MessageFatal(c)
      PROVE  \E reason : Halts(reason)
  BY <1>7, Zenon DEF AcceptFails, RegistrationUndeliverable, BlockedWriteFails, MessageFatal
<1>. QED
  BY ONLY IoTypes, [Next]_vars, <1>1, <1>2, <1>3, <1>4, <1>5, <1>6, <1>7, Zenon
  DEF Next, Peer, Io, Signal

\* A send buffer is never overfull.
LEMMA UnreadStep ==
    ASSUME IoTypes, [Next]_vars
    PROVE  unread' \in [Conns -> 0..SendRoom]
<1>. USE ConstantFacts
<1>1. unread \in [Conns -> 0..SendRoom]
  BY DEF IoTypes
<1>2. ASSUME NEW c \in Conns, HasRoom(c), unread' = [unread EXCEPT ![c] = @ + 1]
      PROVE  unread' \in [Conns -> 0..SendRoom]
  BY <1>1, <1>2
<1>3. CASE unread' = [c \in Conns |-> 0]
  BY <1>3
<1>4. CASE unread' = unread
  BY <1>1, <1>4
<1>5. CASE Untouched
  BY <1>5 DEF Untouched
<1>. QED
  BY StepKinds, <1>2, <1>3, <1>4, <1>5
  DEF Start, PeerConnect, Accept, HelloReplayed, HelloRefused, HelloAccepted, Registered,
      BlockedWriteDone, AgreeParamsAccepted, AgreeParamsRefused, SimpleAnswered, SimpleMismatch,
      UnknownMessage, ReadError, WriteError, WriteDone

\* A step keeps the types of what the io thread works with,
LEMMA IoTypesStep ==
    ASSUME IoTypes, unread' \in [Conns -> 0..SendRoom], [Next]_vars
    PROVE  IoTypes'
<1>. USE ConstantFacts DEF IoTypes, SocketStates, PeerStates, Operations, Outcomes
<1>1. CASE Start
  BY <1>1 DEF Start
<1>2. CASE Untouched
  BY <1>2 DEF Untouched
<1>3. ASSUME NEW c \in Conns, PeerConnect(c) PROVE IoTypes'
  BY <1>3 DEF PeerConnect
<1>4. ASSUME NEW c \in Conns, Accept(c) PROVE IoTypes'
  BY <1>4 DEF Accept
<1>5. ASSUME NEW c \in Conns, HelloReplayed(c) PROVE IoTypes'
  BY <1>5 DEF HelloReplayed
<1>6. ASSUME NEW c \in Conns, HelloRefused(c) PROVE IoTypes'
  BY <1>6 DEF HelloRefused
<1>7. ASSUME NEW c \in Conns, HelloAccepted(c) PROVE IoTypes'
  BY <1>7 DEF HelloAccepted
<1>8. ASSUME NEW c \in Conns, Registered(c) PROVE IoTypes'
  <2>1. PICK what \in {"registered", "not registered"} : Consumes(c, what)
    BY <1>8 DEF Registered
  <2>. QED BY <1>8, <2>1 DEF Registered
<1>9. ASSUME NEW c \in Conns, BlockedWriteDone(c) PROVE IoTypes'
  BY <1>9 DEF BlockedWriteDone
<1>10. ASSUME NEW c \in Conns, AgreeParamsAccepted(c) PROVE IoTypes'
  BY <1>10 DEF AgreeParamsAccepted
<1>11. ASSUME NEW c \in Conns, AgreeParamsRefused(c) PROVE IoTypes'
  BY <1>11 DEF AgreeParamsRefused
<1>12. ASSUME NEW c \in Conns, SimpleAnswered(c) PROVE IoTypes'
  BY <1>12 DEF SimpleAnswered
<1>13. ASSUME NEW c \in Conns, SimpleMismatch(c) PROVE IoTypes'
  BY <1>13 DEF SimpleMismatch
<1>14. ASSUME NEW c \in Conns, UnknownMessage(c) PROVE IoTypes'
  BY <1>14 DEF UnknownMessage
<1>15. ASSUME NEW c \in Conns, ReadError(c) PROVE IoTypes'
  BY <1>15 DEF ReadError
<1>16. ASSUME NEW c \in Conns, WriteError(c) PROVE IoTypes'
  BY <1>16 DEF WriteError
<1>17. ASSUME NEW c \in Conns, WriteDone(c) PROVE IoTypes'
  BY <1>17 DEF WriteDone
<1>. QED
  BY StepKinds, <1>1, <1>2, <1>3, <1>4, <1>5, <1>6, <1>7,
     <1>8, <1>9, <1>10, <1>11, <1>12, <1>13, <1>14, <1>15, <1>16, <1>17

\* and of the keys: numbers up to the last one generated.
LEMMA KeyTypesStep ==
    ASSUME Types, RestTypes, [Next]_vars
    PROVE  KeyTypes'
<1>. USE ConstantFacts DEF Types, IoTypes, KeyTypes, SessionKeys
<1>1. CASE Start
  BY <1>1 DEF Start
<1>2. CASE Untouched
  BY <1>2 DEF Untouched
<1>3. ASSUME NEW c \in Conns, PeerConnect(c) PROVE KeyTypes'
  BY <1>3 DEF PeerConnect
<1>4. ASSUME NEW c \in Conns, Accept(c) PROVE KeyTypes'
  BY <1>4 DEF Accept
<1>5. ASSUME NEW c \in Conns, HelloReplayed(c) PROVE KeyTypes'
  BY <1>5 DEF HelloReplayed
<1>6. ASSUME NEW c \in Conns, HelloRefused(c) PROVE KeyTypes'
  BY <1>6 DEF HelloRefused
<1>7. ASSUME NEW c \in Conns, HelloAccepted(c) PROVE KeyTypes'
  <2>1. Sender(c).keys \in Keys
    BY <1>7, NextMessage DEF HelloAccepted
  <2>. QED BY <1>7, <2>1 DEF HelloAccepted
<1>8. ASSUME NEW c \in Conns, Registered(c) PROVE KeyTypes'
  BY <1>8 DEF Registered
<1>9. ASSUME NEW c \in Conns, BlockedWriteDone(c) PROVE KeyTypes'
  BY <1>9 DEF BlockedWriteDone
<1>10. ASSUME NEW c \in Conns, AgreeParamsAccepted(c) PROVE KeyTypes'
  BY <1>10 DEF AgreeParamsAccepted
<1>11. ASSUME NEW c \in Conns, AgreeParamsRefused(c) PROVE KeyTypes'
  BY <1>11 DEF AgreeParamsRefused
<1>12. ASSUME NEW c \in Conns, SimpleAnswered(c) PROVE KeyTypes'
  BY <1>12 DEF SimpleAnswered
<1>13. ASSUME NEW c \in Conns, SimpleMismatch(c) PROVE KeyTypes'
  BY <1>13 DEF SimpleMismatch
<1>14. ASSUME NEW c \in Conns, UnknownMessage(c) PROVE KeyTypes'
  BY <1>14 DEF UnknownMessage
<1>15. ASSUME NEW c \in Conns, ReadError(c) PROVE KeyTypes'
  BY <1>15 DEF ReadError
<1>16. ASSUME NEW c \in Conns, WriteError(c) PROVE KeyTypes'
  BY <1>16 DEF WriteError
<1>17. ASSUME NEW c \in Conns, WriteDone(c) PROVE KeyTypes'
  BY <1>17 DEF WriteDone
<1>. QED
  BY StepKinds, <1>1, <1>2, <1>3, <1>4, <1>5, <1>6, <1>7,
     <1>8, <1>9, <1>10, <1>11, <1>12, <1>13, <1>14, <1>15, <1>16, <1>17

\* Nothing but its acceptance happens to a connection in the backlog.
LEMMA UnacceptedStep ==
    ASSUME Types, Unaccepted, [Next]_vars
    PROVE  Unaccepted'
<1>. USE ConstantFacts DEF Types, IoTypes, KeyTypes, Entry, Unaccepted
<1>1. CASE Start
  BY <1>1 DEF Start
<1>2. CASE Untouched
  BY <1>2 DEF Untouched
<1>3. ASSUME NEW c \in Conns, PeerConnect(c) PROVE Unaccepted'
  BY <1>3 DEF PeerConnect
<1>4. ASSUME NEW c \in Conns, Accept(c) PROVE Unaccepted'
  BY <1>4 DEF Accept
<1>5. ASSUME NEW c \in Conns, HelloReplayed(c) PROVE Unaccepted'
  BY <1>5 DEF HelloReplayed
<1>6. ASSUME NEW c \in Conns, HelloRefused(c) PROVE Unaccepted'
  BY <1>6 DEF HelloRefused
<1>7. ASSUME NEW c \in Conns, HelloAccepted(c) PROVE Unaccepted'
  BY <1>7 DEF HelloAccepted
<1>8. ASSUME NEW c \in Conns, Registered(c) PROVE Unaccepted'
  BY <1>8 DEF Registered
<1>9. ASSUME NEW c \in Conns, BlockedWriteDone(c) PROVE Unaccepted'
  BY <1>9 DEF BlockedWriteDone
<1>10. ASSUME NEW c \in Conns, AgreeParamsAccepted(c) PROVE Unaccepted'
  BY <1>10 DEF AgreeParamsAccepted
<1>11. ASSUME NEW c \in Conns, AgreeParamsRefused(c) PROVE Unaccepted'
  BY <1>11 DEF AgreeParamsRefused
<1>12. ASSUME NEW c \in Conns, SimpleAnswered(c) PROVE Unaccepted'
  BY <1>12 DEF SimpleAnswered
<1>13. ASSUME NEW c \in Conns, SimpleMismatch(c) PROVE Unaccepted'
  BY <1>13 DEF SimpleMismatch
<1>14. ASSUME NEW c \in Conns, UnknownMessage(c) PROVE Unaccepted'
  BY <1>14 DEF UnknownMessage
<1>15. ASSUME NEW c \in Conns, ReadError(c) PROVE Unaccepted'
  BY <1>15 DEF ReadError
<1>16. ASSUME NEW c \in Conns, WriteError(c) PROVE Unaccepted'
  BY <1>16 DEF WriteError
<1>17. ASSUME NEW c \in Conns, WriteDone(c) PROVE Unaccepted'
  BY <1>17 DEF WriteDone
<1>. QED
  BY StepKinds, <1>1, <1>2, <1>3, <1>4, <1>5, <1>6, <1>7,
     <1>8, <1>9, <1>10, <1>11, <1>12, <1>13, <1>14, <1>15, <1>16, <1>17

\* What happens to the sockets.
LEMMA SocketKinds ==
    ASSUME IoTypes, [Next]_vars
    PROVE  \/ socket' = [c \in Conns |-> "unused"] /\ connection_counter_' = 0
           \/ socket' = socket /\ connection_counter_' = connection_counter_
           \/ \E c \in Conns : \/ PeerConnect(c) \/ Accept(c)
                              \/ /\ socket[c] = "open" /\ socket' = [socket EXCEPT ![c] = "closed"]
                                 /\ connection_counter_' = connection_counter_
<1>1. CASE Start
  BY <1>1 DEF Start
<1>2. CASE Untouched
  BY <1>2 DEF Untouched
<1>3. ASSUME NEW c \in Conns,
             \/ HelloAccepted(c) \/ Registered(c) \/ BlockedWriteDone(c) \/ AgreeParamsAccepted(c)
             \/ SimpleAnswered(c) \/ SimpleMismatch(c) \/ UnknownMessage(c) \/ WriteDone(c)
      PROVE  socket' = socket /\ connection_counter_' = connection_counter_
  BY <1>3 DEF HelloAccepted, Registered, BlockedWriteDone, AgreeParamsAccepted, SimpleAnswered,
              SimpleMismatch, UnknownMessage, WriteDone, Consumes, Replies, Stalls
<1>4. ASSUME NEW c \in Conns,
             \/ HelloReplayed(c) \/ HelloRefused(c) \/ AgreeParamsRefused(c)
             \/ ReadError(c) \/ WriteError(c)
      PROVE  /\ socket[c] = "open" /\ socket' = [socket EXCEPT ![c] = "closed"]
             /\ connection_counter_' = connection_counter_
  BY <1>4 DEF HelloReplayed, HelloRefused, AgreeParamsRefused, ReadError, WriteError, Forgets,
              Consumes, Closes, Handles
<1>. QED BY ONLY StepKinds, IoTypes, [Next]_vars, <1>1, <1>2, <1>3, <1>4

\* A number is given with each acceptance, in turn.
LEMMA AcceptedInOrderStep ==
    ASSUME IoTypes, AcceptedInOrder, [Next]_vars
    PROVE  AcceptedInOrder'
<1>1. /\ connection_counter_ \in Nat /\ socket \in [Conns -> SocketStates]
      /\ \A c \in Conns : c \in Nat /\ c # 0
  BY ConstantFacts DEF IoTypes
<1>2. CASE socket' = [c \in Conns |-> "unused"] /\ connection_counter_' = 0
  BY <1>1, <1>2 DEF AcceptedInOrder
<1>3. CASE socket' = socket /\ connection_counter_' = connection_counter_
  BY <1>3 DEF AcceptedInOrder
<1>4. ASSUME NEW c \in Conns, PeerConnect(c) PROVE AcceptedInOrder'
  BY <1>1, <1>4 DEF PeerConnect, PeerVars, AcceptedInOrder
<1>5. ASSUME NEW c \in Conns, Accept(c) PROVE AcceptedInOrder'
  BY <1>1, <1>5 DEF Accept, AcceptedInOrder
<1>6. ASSUME NEW c \in Conns, socket[c] = "open", socket' = [socket EXCEPT ![c] = "closed"],
             connection_counter_' = connection_counter_
      PROVE  AcceptedInOrder'
  BY <1>1, <1>6 DEF AcceptedInOrder
<1>. QED BY <1>2, <1>3, <1>4, <1>5, <1>6, SocketKinds

\* Both maps are written, and erased, together.
LEMMA SessionMapsAgreeStep ==
    ASSUME Types, Types', RestTypes, SessionMapsAgree, [Next]_vars
    PROVE  SessionMapsAgree'
<1>. USE ConstantFacts DEF Types, IoTypes, KeyTypes, Entry, SessionKeys, SessionMapsAgree
<1>1. CASE Start
  BY <1>1 DEF Start
<1>2. CASE Untouched
  BY <1>2 DEF Untouched
<1>3. ASSUME NEW c \in Conns, PeerConnect(c) PROVE SessionMapsAgree'
  BY <1>3 DEF PeerConnect
<1>4. ASSUME NEW c \in Conns, Accept(c) PROVE SessionMapsAgree'
  BY <1>4 DEF Accept
<1>5. ASSUME NEW c \in Conns, HelloReplayed(c) PROVE SessionMapsAgree'
  BY <1>5 DEF HelloReplayed
<1>6. ASSUME NEW c \in Conns, HelloRefused(c) PROVE SessionMapsAgree'
  BY <1>6 DEF HelloRefused
<1>7. ASSUME NEW c \in Conns, HelloAccepted(c) PROVE SessionMapsAgree'
  <2>1. [own |-> generated + 1, peer |-> Sender(c).keys] \in SessionKeys
    BY <1>7, NextMessage DEF HelloAccepted
  <2> DEFINE made == [own |-> generated + 1, peer |-> Sender(c).keys]
  <2>2. made.own = generated + 1 /\ made # NoKey
    BY <2>1
  <2>3. /\ session_keys_asymetric_map' = insert(session_keys_asymetric_map, c, 0, generated + 1)
        /\ session_keys_symetric_map' = insert(session_keys_symetric_map, c, NoKey, made)
    BY <1>7 DEF HelloAccepted
  <2> HIDE DEF made
  <2>. QED BY <2>2, <2>3
<1>8. ASSUME NEW c \in Conns, Registered(c) PROVE SessionMapsAgree'
  BY <1>8 DEF Registered
<1>9. ASSUME NEW c \in Conns, BlockedWriteDone(c) PROVE SessionMapsAgree'
  BY <1>9 DEF BlockedWriteDone
<1>10. ASSUME NEW c \in Conns, AgreeParamsAccepted(c) PROVE SessionMapsAgree'
  BY <1>10 DEF AgreeParamsAccepted
<1>11. ASSUME NEW c \in Conns, AgreeParamsRefused(c) PROVE SessionMapsAgree'
  BY <1>11 DEF AgreeParamsRefused
<1>12. ASSUME NEW c \in Conns, SimpleAnswered(c) PROVE SessionMapsAgree'
  BY <1>12 DEF SimpleAnswered
<1>13. ASSUME NEW c \in Conns, SimpleMismatch(c) PROVE SessionMapsAgree'
  BY <1>13 DEF SimpleMismatch
<1>14. ASSUME NEW c \in Conns, UnknownMessage(c) PROVE SessionMapsAgree'
  BY <1>14 DEF UnknownMessage
<1>15. ASSUME NEW c \in Conns, ReadError(c) PROVE SessionMapsAgree'
  BY <1>15 DEF ReadError
<1>16. ASSUME NEW c \in Conns, WriteError(c) PROVE SessionMapsAgree'
  BY <1>16 DEF WriteError
<1>17. ASSUME NEW c \in Conns, WriteDone(c) PROVE SessionMapsAgree'
  BY <1>17 DEF WriteDone
<1>. QED
  BY StepKinds, <1>1, <1>2, <1>3, <1>4, <1>5, <1>6, <1>7,
     <1>8, <1>9, <1>10, <1>11, <1>12, <1>13, <1>14, <1>15, <1>16, <1>17

\* A second Hello announces the key pair the maps kept.
LEMMA AnnouncedKeyIsSessionKeyStep ==
    ASSUME Types, Types', RestTypes, Unaccepted, SessionMapsAgree, AnnouncedKeyIsSessionKey,
           [Next]_vars
    PROVE  AnnouncedKeyIsSessionKey'
<1>. USE ConstantFacts DEF Types, IoTypes, KeyTypes, Entry, SessionKeys, Unaccepted,
                         SessionMapsAgree, AnnouncedKeyIsSessionKey
<1>1. CASE Start
  BY <1>1 DEF Start
<1>2. CASE Untouched
  BY <1>2 DEF Untouched
<1>3. ASSUME NEW c \in Conns, PeerConnect(c) PROVE AnnouncedKeyIsSessionKey'
  BY <1>3 DEF PeerConnect
<1>4. ASSUME NEW c \in Conns, Accept(c) PROVE AnnouncedKeyIsSessionKey'
  BY <1>4 DEF Accept
<1>5. ASSUME NEW c \in Conns, HelloReplayed(c) PROVE AnnouncedKeyIsSessionKey'
  BY <1>5 DEF HelloReplayed
<1>6. ASSUME NEW c \in Conns, HelloRefused(c) PROVE AnnouncedKeyIsSessionKey'
  BY <1>6 DEF HelloRefused
<1>7. ASSUME NEW c \in Conns, HelloAccepted(c) PROVE AnnouncedKeyIsSessionKey'
  <2>1. [own |-> generated + 1, peer |-> Sender(c).keys] \in SessionKeys
    BY <1>7, NextMessage DEF HelloAccepted
  <2> DEFINE made == [own |-> generated + 1, peer |-> Sender(c).keys]
  <2>2. made.own = generated + 1 /\ made # NoKey
    BY <2>1
  <2>3. /\ session_keys_asymetric_map' = insert(session_keys_asymetric_map, c, 0, generated + 1)
        /\ session_keys_symetric_map' = insert(session_keys_symetric_map, c, NoKey, made)
        /\ socket' = socket /\ known' = known
        /\ \E r \in {session_keys_asymetric_map'[c], 0} : outgoing' = [outgoing EXCEPT ![c] = r]
    BY <1>7 DEF HelloAccepted
  <2> HIDE DEF made
  <2>. QED BY <2>2, <2>3
<1>8. ASSUME NEW c \in Conns, Registered(c) PROVE AnnouncedKeyIsSessionKey'
  <2>1. UNCHANGED <<socket, known, outgoing, session_keys_symetric_map>>
    BY <1>8 DEF Registered
  <2>. QED BY <2>1
<1>9. ASSUME NEW c \in Conns, BlockedWriteDone(c) PROVE AnnouncedKeyIsSessionKey'
  BY <1>9 DEF BlockedWriteDone
<1>10. ASSUME NEW c \in Conns, AgreeParamsAccepted(c) PROVE AnnouncedKeyIsSessionKey'
  BY <1>10 DEF AgreeParamsAccepted
<1>11. ASSUME NEW c \in Conns, AgreeParamsRefused(c) PROVE AnnouncedKeyIsSessionKey'
  BY <1>11 DEF AgreeParamsRefused
<1>12. ASSUME NEW c \in Conns, SimpleAnswered(c) PROVE AnnouncedKeyIsSessionKey'
  BY <1>12 DEF SimpleAnswered
<1>13. ASSUME NEW c \in Conns, SimpleMismatch(c) PROVE AnnouncedKeyIsSessionKey'
  BY <1>13 DEF SimpleMismatch
<1>14. ASSUME NEW c \in Conns, UnknownMessage(c) PROVE AnnouncedKeyIsSessionKey'
  BY <1>14 DEF UnknownMessage
<1>15. ASSUME NEW c \in Conns, ReadError(c) PROVE AnnouncedKeyIsSessionKey'
  BY <1>15 DEF ReadError
<1>16. ASSUME NEW c \in Conns, WriteError(c) PROVE AnnouncedKeyIsSessionKey'
  BY <1>16 DEF WriteError
<1>17. ASSUME NEW c \in Conns, WriteDone(c) PROVE AnnouncedKeyIsSessionKey'
  BY <1>17 DEF WriteDone
<1>. QED
  BY StepKinds, <1>1, <1>2, <1>3, <1>4, <1>5, <1>6, <1>7,
     <1>8, <1>9, <1>10, <1>11, <1>12, <1>13, <1>14, <1>15, <1>16, <1>17

\* The handlers that close a socket without forgetting it say so in outcome.
LEMMA ClosedIsForgottenStep ==
    ASSUME Types, ClosedIsForgotten, [Next]_vars
    PROVE  ClosedIsForgotten'
<1>. USE ConstantFacts DEF Types, IoTypes, KeyTypes, Entry, ClosedIsForgotten
<1>1. CASE Start
  BY <1>1 DEF Start
<1>2. CASE Untouched
  BY <1>2 DEF Untouched
<1>3. ASSUME NEW c \in Conns, PeerConnect(c) PROVE ClosedIsForgotten'
  BY <1>3 DEF PeerConnect
<1>4. ASSUME NEW c \in Conns, Accept(c) PROVE ClosedIsForgotten'
  BY <1>4 DEF Accept
<1>5. ASSUME NEW c \in Conns, HelloReplayed(c) PROVE ClosedIsForgotten'
  BY <1>5 DEF HelloReplayed
<1>6. ASSUME NEW c \in Conns, HelloRefused(c) PROVE ClosedIsForgotten'
  BY <1>6 DEF HelloRefused
<1>7. ASSUME NEW c \in Conns, HelloAccepted(c) PROVE ClosedIsForgotten'
  BY <1>7 DEF HelloAccepted
<1>8. ASSUME NEW c \in Conns, Registered(c) PROVE ClosedIsForgotten'
  BY <1>8 DEF Registered
<1>9. ASSUME NEW c \in Conns, BlockedWriteDone(c) PROVE ClosedIsForgotten'
  BY <1>9 DEF BlockedWriteDone
<1>10. ASSUME NEW c \in Conns, AgreeParamsAccepted(c) PROVE ClosedIsForgotten'
  BY <1>10 DEF AgreeParamsAccepted
<1>11. ASSUME NEW c \in Conns, AgreeParamsRefused(c) PROVE ClosedIsForgotten'
  BY <1>11 DEF AgreeParamsRefused
<1>12. ASSUME NEW c \in Conns, SimpleAnswered(c) PROVE ClosedIsForgotten'
  BY <1>12 DEF SimpleAnswered
<1>13. ASSUME NEW c \in Conns, SimpleMismatch(c) PROVE ClosedIsForgotten'
  BY <1>13 DEF SimpleMismatch
<1>14. ASSUME NEW c \in Conns, UnknownMessage(c) PROVE ClosedIsForgotten'
  BY <1>14 DEF UnknownMessage
<1>15. ASSUME NEW c \in Conns, ReadError(c) PROVE ClosedIsForgotten'
  BY <1>15 DEF ReadError
<1>16. ASSUME NEW c \in Conns, WriteError(c) PROVE ClosedIsForgotten'
  BY <1>16 DEF WriteError
<1>17. ASSUME NEW c \in Conns, WriteDone(c) PROVE ClosedIsForgotten'
  BY <1>17 DEF WriteDone
<1>. QED
  BY StepKinds, <1>1, <1>2, <1>3, <1>4, <1>5, <1>6, <1>7,
     <1>8, <1>9, <1>10, <1>11, <1>12, <1>13, <1>14, <1>15, <1>16, <1>17

\* Every other way through a handler starts an operation or closes.
LEMMA NoOtherStallStep ==
    ASSUME Types, NoOtherStall, [Next]_vars
    PROVE  NoOtherStall'
<1>. USE ConstantFacts DEF Types, IoTypes, Stalled, NoOtherStall
<1>1. CASE Start
  BY <1>1 DEF Start
<1>2. CASE Untouched
  BY <1>2 DEF Untouched
<1>3. ASSUME NEW c \in Conns, PeerConnect(c) PROVE NoOtherStall'
  BY <1>3 DEF PeerConnect
<1>4. ASSUME NEW c \in Conns, Accept(c) PROVE NoOtherStall'
  BY <1>4 DEF Accept
<1>5. ASSUME NEW c \in Conns, HelloReplayed(c) PROVE NoOtherStall'
  BY <1>5 DEF HelloReplayed
<1>6. ASSUME NEW c \in Conns, HelloRefused(c) PROVE NoOtherStall'
  BY <1>6 DEF HelloRefused
<1>7. ASSUME NEW c \in Conns, HelloAccepted(c) PROVE NoOtherStall'
  BY <1>7 DEF HelloAccepted
<1>8. ASSUME NEW c \in Conns, Registered(c) PROVE NoOtherStall'
  BY <1>8 DEF Registered
<1>9. ASSUME NEW c \in Conns, BlockedWriteDone(c) PROVE NoOtherStall'
  BY <1>9 DEF BlockedWriteDone
<1>10. ASSUME NEW c \in Conns, AgreeParamsAccepted(c) PROVE NoOtherStall'
  BY <1>10 DEF AgreeParamsAccepted
<1>11. ASSUME NEW c \in Conns, AgreeParamsRefused(c) PROVE NoOtherStall'
  BY <1>11 DEF AgreeParamsRefused
<1>12. ASSUME NEW c \in Conns, SimpleAnswered(c) PROVE NoOtherStall'
  BY <1>12 DEF SimpleAnswered
<1>13. ASSUME NEW c \in Conns, SimpleMismatch(c) PROVE NoOtherStall'
  BY <1>13 DEF SimpleMismatch
<1>14. ASSUME NEW c \in Conns, UnknownMessage(c) PROVE NoOtherStall'
  BY <1>14 DEF UnknownMessage
<1>15. ASSUME NEW c \in Conns, ReadError(c) PROVE NoOtherStall'
  BY <1>15 DEF ReadError
<1>16. ASSUME NEW c \in Conns, WriteError(c) PROVE NoOtherStall'
  BY <1>16 DEF WriteError
<1>17. ASSUME NEW c \in Conns, WriteDone(c) PROVE NoOtherStall'
  BY <1>17 DEF WriteDone
<1>. QED
  BY StepKinds, <1>1, <1>2, <1>3, <1>4, <1>5, <1>6, <1>7,
     <1>8, <1>9, <1>10, <1>11, <1>12, <1>13, <1>14, <1>15, <1>16, <1>17

\* Only a registration blocks the thread, and it leaves nothing pending.
LEMMA OperationsOnOpenSocketsStep ==
    ASSUME Types, Types', OperationsOnOpenSockets, [Next]_vars
    PROVE  OperationsOnOpenSockets'
<1>. USE ConstantFacts DEF Types, IoTypes, Stalled, OperationsOnOpenSockets
<1>1. CASE Start
  BY <1>1 DEF Start
<1>2. CASE Untouched
  BY <1>2 DEF Untouched
<1>3. ASSUME NEW c \in Conns, PeerConnect(c) PROVE OperationsOnOpenSockets'
  BY <1>3 DEF PeerConnect
<1>4. ASSUME NEW c \in Conns, Accept(c) PROVE OperationsOnOpenSockets'
  BY <1>4 DEF Accept
<1>5. ASSUME NEW c \in Conns, HelloReplayed(c) PROVE OperationsOnOpenSockets'
  BY <1>5 DEF HelloReplayed
<1>6. ASSUME NEW c \in Conns, HelloRefused(c) PROVE OperationsOnOpenSockets'
  BY <1>6 DEF HelloRefused
<1>7. ASSUME NEW c \in Conns, HelloAccepted(c) PROVE OperationsOnOpenSockets'
  BY <1>7 DEF HelloAccepted
<1>8. ASSUME NEW c \in Conns, Registered(c) PROVE OperationsOnOpenSockets'
  <2>1. /\ pending'[c] = "none" /\ socket'[c] = "open" /\ blocked = 0
        /\ connection_counter_' = connection_counter_
        /\ \A d \in Conns \ {c} : pending'[d] = pending[d] /\ socket'[d] = socket[d]
    BY <1>8 DEF Registered
  <2>2. blocked' \in {0, c} /\ unread'[c] \in 0..SendRoom
    BY <1>8, <2>1 DEF Registered
  <2>. QED BY <2>1, <2>2
<1>9. ASSUME NEW c \in Conns, BlockedWriteDone(c) PROVE OperationsOnOpenSockets'
  BY <1>9 DEF BlockedWriteDone
<1>10. ASSUME NEW c \in Conns, AgreeParamsAccepted(c) PROVE OperationsOnOpenSockets'
  BY <1>10 DEF AgreeParamsAccepted
<1>11. ASSUME NEW c \in Conns, AgreeParamsRefused(c) PROVE OperationsOnOpenSockets'
  BY <1>11 DEF AgreeParamsRefused
<1>12. ASSUME NEW c \in Conns, SimpleAnswered(c) PROVE OperationsOnOpenSockets'
  BY <1>12 DEF SimpleAnswered
<1>13. ASSUME NEW c \in Conns, SimpleMismatch(c) PROVE OperationsOnOpenSockets'
  BY <1>13 DEF SimpleMismatch
<1>14. ASSUME NEW c \in Conns, UnknownMessage(c) PROVE OperationsOnOpenSockets'
  BY <1>14 DEF UnknownMessage
<1>15. ASSUME NEW c \in Conns, ReadError(c) PROVE OperationsOnOpenSockets'
  BY <1>15 DEF ReadError
<1>16. ASSUME NEW c \in Conns, WriteError(c) PROVE OperationsOnOpenSockets'
  BY <1>16 DEF WriteError
<1>17. ASSUME NEW c \in Conns, WriteDone(c) PROVE OperationsOnOpenSockets'
  BY <1>17 DEF WriteDone
<1>. QED
  BY StepKinds, <1>1, <1>2, <1>3, <1>4, <1>5, <1>6, <1>7,
     <1>8, <1>9, <1>10, <1>11, <1>12, <1>13, <1>14, <1>15, <1>16, <1>17

-----------------------------------------------------------------------------
\* Every connection is unused at first.
LEMMA ServerInvInit == Init => ServerInv
<1>. SUFFICES ASSUME Init PROVE ServerInv
  OBVIOUS
<1>1. Types
  BY ConstantFacts DEF Init, Types, IoTypes, KeyTypes, SocketStates, PeerStates, Operations, Outcomes
<1>2. RestTypes
  BY ConstantFacts DEF Init, RestTypes, ServerStates
<1>3. file \in File
  BY DEF Init, NoFile, File
<1>4. NonceInv
  BY NonceInvInit DEF Init
<1>5. Unaccepted /\ AcceptedInOrder /\ SessionMapsAgree /\ AnnouncedKeyIsSessionKey
  BY ConstantFacts
  DEF Init, Unaccepted, AcceptedInOrder, SessionMapsAgree, AnnouncedKeyIsSessionKey, Entry
<1>6. ClosedIsForgotten /\ NoOtherStall /\ OperationsOnOpenSockets
  BY DEF Init, ClosedIsForgotten, NoOtherStall, OperationsOnOpenSockets, Stalled
<1>. QED BY <1>1, <1>2, <1>3, <1>4, <1>5, <1>6 DEF ServerInv

\* One lemma for each part of the invariant.
LEMMA ServerInvNext == ServerInv /\ [Next]_vars => ServerInv'
<1>. SUFFICES ASSUME ServerInv, [Next]_vars PROVE ServerInv'
  OBVIOUS
<1>1. Types'
  BY UnreadStep, IoTypesStep, KeyTypesStep DEF ServerInv, Types
<1>2. RestTypes' /\ NonceInv' /\ file' \in File
  BY RestTypesStep, NonceStep, FileStep DEF ServerInv
<1>3. Unaccepted' /\ AcceptedInOrder' /\ SessionMapsAgree' /\ AnnouncedKeyIsSessionKey'
  BY <1>1, UnacceptedStep, AcceptedInOrderStep, SessionMapsAgreeStep, AnnouncedKeyIsSessionKeyStep
  DEF ServerInv, Types
<1>4. ClosedIsForgotten' /\ NoOtherStall' /\ OperationsOnOpenSockets'
  BY <1>1, ClosedIsForgottenStep, NoOtherStallStep, OperationsOnOpenSocketsStep DEF ServerInv
<1>. QED BY <1>1, <1>2, <1>3, <1>4 DEF ServerInv

\* Every variable keeps its type, with the mailbox, file and cache contents.
THEOREM ServerTypeCorrect == Spec => []TypeOK
<1>1. ServerInv => TypeOK
  BY TypesGiveTypeOK DEF ServerInv, NonceInv
<1>. QED BY <1>1, ServerInvInit, ServerInvNext, PTL DEF Spec

\* The two session maps always hold the same connections and matching keys.
THEOREM SessionMapsAgreeHolds == Spec => []SessionMapsAgree
<1>1. ServerInv => SessionMapsAgree
  BY DEF ServerInv
<1>. QED BY <1>1, ServerInvInit, ServerInvNext, PTL DEF Spec

\* The server's part of the session is the key pair that a connected peer was told
\* of, however often it says Hello, under whichever keys, and however late the
\* replies are written.
THEOREM AnnouncedKeyIsSessionKeyHolds == Spec => []AnnouncedKeyIsSessionKey
<1>1. ServerInv => AnnouncedKeyIsSessionKey
  BY DEF ServerInv
<1>. QED BY <1>1, ServerInvInit, ServerInvNext, PTL DEF Spec

\* A closed socket is in no map, but on the three refusals that leave entries.
THEOREM ClosedIsForgottenHolds == Spec => []ClosedIsForgotten
<1>1. ServerInv => ClosedIsForgotten
  BY DEF ServerInv
<1>. QED BY <1>1, ServerInvInit, ServerInvNext, PTL DEF Spec

\* Besides the three stalls of the code, after a registration, a wrong digest and an
\* unknown message, no order of handlers leaves an open connection unattended.
THEOREM NoOtherStallHolds == Spec => []NoOtherStall
<1>1. ServerInv => NoOtherStall
  BY DEF ServerInv
<1>. QED BY <1>1, ServerInvInit, ServerInvNext, PTL DEF Spec

\* Operations are pending on open sockets only; a blocked write has none.
THEOREM OperationsOnOpenSocketsHolds == Spec => []OperationsOnOpenSockets
<1>1. ServerInv => OperationsOnOpenSockets
  BY DEF ServerInv
<1>. QED BY <1>1, ServerInvInit, ServerInvNext, PTL DEF Spec

\* Within the whole server, with its restarts, closed connections and refused
\* messages, no recent nonce is forgotten.
THEOREM ServerRefusesRecentNonces == Spec => []RecentNoncesRefused
<1>1. ServerInv => RecentNoncesRefused
  BY DEF ServerInv, NonceInv
<1>. QED BY <1>1, ServerInvInit, ServerInvNext, PTL DEF Spec

-----------------------------------------------------------------------------
\* Trust.  While no write is cut short, the list of devices only grows.
TrustInv == ServerInv /\ Clean(file.lines)

\* The file stays clean and grows in every step of the server.
LEMMA TrustStep ==
    ASSUME "short" \notin Faults, TrustInv, [Next]_vars
    PROVE  TrustInv' /\ Grows(file.lines, file'.lines)
<1>1. file \in File /\ Clean(file.lines)
  BY DEF TrustInv, ServerInv
<1>2. CASE Start
  BY <1>1, <1>2, StartupClean, ServerInvNext DEF Start, TrustInv
<1>3. ASSUME NEW c \in Conns, NEW o \in Authenticated(c), file' = o.file,
             Handles(c, "HelloFIUNAM") \/ Handles(c, "RequestRegistration")
      PROVE  Clean(file'.lines) /\ Grows(file.lines, file'.lines)
  <2>1. Sender(c).id \in DeviceIds /\ Sender(c).keys \in Keys
    BY <1>3, NextMessage, ConstantFacts DEF TrustInv, ServerInv
  <2>. QED BY <1>1, <1>3, <2>1, AuthenticateClean DEF Authenticated
<1>4. CASE file' = file
  BY <1>1, <1>4, ServerInvNext DEF TrustInv, Grows
<1>. QED BY <1>2, <1>3, <1>4, FileKinds, ServerInvNext DEF TrustInv

\* The file is empty at first.
LEMMA TrustInvInit == Init => TrustInv
BY ServerInvInit DEF TrustInv, Init, NoFile, Clean

\* No device loses its trust in a step.
LEMMA TrustedStaysTrusted ==
    ASSUME "short" \notin Faults, TrustInv, [Next]_vars, NEW k,
           is_client_registered(file, k)
    PROVE  is_client_registered(file', k)
BY TrustStep DEF is_client_registered, Grows

\* What a step does to the sessions: a Hello makes one of the key pair it has
\* generated and a trusted device's keys, or leaves the one that is there.
LEMMA SessionStep ==
    ASSUME "lost" \notin Faults, "short" \notin Faults, PlainTexts, TrustInv, [Next]_vars
    PROVE  \/ \E gone \in SUBSET Conns :
                 session_keys_symetric_map' =
                    [c \in Conns |-> IF c \in gone THEN NoKey ELSE session_keys_symetric_map[c]]
           \/ \E c \in Conns, k \in Keys :
                 /\ session_keys_symetric_map[c] = NoKey
                 /\ generated' = generated + 1
                 /\ is_client_registered(file', k)
                 /\ session_keys_symetric_map' =
                       [session_keys_symetric_map EXCEPT
                           ![c] = [own |-> generated + 1, peer |-> k]]
<1> DEFINE Kept(gone) ==
        session_keys_symetric_map' =
            [c \in Conns |-> IF c \in gone THEN NoKey ELSE session_keys_symetric_map[c]]
<1>1. session_keys_symetric_map \in [Conns -> SessionKeys \cup {NoKey}]
  BY DEF TrustInv, ServerInv, Types, KeyTypes
<1>2. CASE session_keys_symetric_map' = session_keys_symetric_map
  <2>1. Kept({}) /\ {} \in SUBSET Conns
    BY <1>1, <1>2
  <2>. QED BY <2>1, Zenon
<1>3. CASE Start
  <2>1. Kept(Conns)
    BY <1>3 DEF Start
  <2>. QED BY <2>1
<1>4. ASSUME NEW c \in Conns, Forgets(c) PROVE \E gone \in SUBSET Conns : Kept(gone)
  <2>1. Kept({c})
    BY <1>1, <1>4
  <2>. QED BY <2>1
<1>5. ASSUME NEW c \in Conns, HelloAccepted(c), session_keys_symetric_map[c] = NoKey
      PROVE  \E k \in Keys :
                /\ generated' = generated + 1
                /\ is_client_registered(file', k)
                /\ session_keys_symetric_map' =
                       [session_keys_symetric_map EXCEPT
                           ![c] = [own |-> generated + 1, peer |-> k]]
  <2>1. PICK o \in Authenticated(c) : o.ok = TRUE /\ file' = o.file
    BY <1>5 DEF HelloAccepted
  <2>2. Sender(c).id \in DeviceIds /\ Sender(c).keys \in Keys /\ file \in File /\ Clean(file.lines)
    BY <1>5, NextMessage, ConstantFacts DEF HelloAccepted, TrustInv, ServerInv
  <2>3. Written(Sender(c).id, Sender(c).keys) = <<PlainLine(Sender(c).id, Sender(c).keys)>>
    BY <2>2 DEF PlainTexts
  <2>4. is_client_registered(o.file, Sender(c).keys)
    BY <2>1, <2>2, <2>3, AuthenticateClean, Zenon DEF Authenticated
  <2>5. generated' = generated + 1 /\ session_keys_symetric_map' =
            [session_keys_symetric_map EXCEPT
                ![c] = [own |-> generated + 1, peer |-> Sender(c).keys]]
    BY <1>1, <1>5 DEF HelloAccepted
  <2>. QED BY <2>1, <2>2, <2>4, <2>5
<1>6. ASSUME NEW c \in Conns, HelloAccepted(c), session_keys_symetric_map[c] # NoKey
      PROVE  session_keys_symetric_map' = session_keys_symetric_map
  BY <1>1, <1>6 DEF HelloAccepted
<1>7. \/ Start
      \/ session_keys_symetric_map' = session_keys_symetric_map
      \/ \E c \in Conns : Forgets(c) \/ HelloAccepted(c)
  <2>1. IoTypes
    BY DEF TrustInv, ServerInv, Types
  <2>. QED
    BY <2>1, StepKinds
    DEF Untouched, PeerConnect, Accept, HelloReplayed, HelloRefused, Registered, BlockedWriteDone,
        AgreeParamsAccepted, AgreeParamsRefused, SimpleAnswered, SimpleMismatch, UnknownMessage,
        ReadError, WriteError, WriteDone
<1>. QED BY <1>2, <1>3, <1>4, <1>5, <1>6, <1>7, Zenon

\* Key pairs are numbered in the order they are generated in.
LEMMA GeneratedGrows ==
    ASSUME IoTypes, [Next]_vars
    PROVE  generated' \in {generated, generated + 1}
BY StepKinds
DEF Start, Untouched, PeerConnect, Accept, HelloReplayed, HelloRefused, HelloAccepted, Registered,
    BlockedWriteDone, AgreeParamsAccepted, AgreeParamsRefused, SimpleAnswered, SimpleMismatch,
    UnknownMessage, ReadError, WriteError, WriteDone

\* While every registration is read back as it was meant, and no write is lost or cut
\* short, nobody ever has a session whose keys are
\* not in the list of trusted devices.
THEOREM SessionImpliesTrustedHolds ==
    ASSUME "lost" \notin Faults, "short" \notin Faults, PlainTexts
    PROVE  Spec => []SessionImpliesTrusted
<1> DEFINE I == TrustInv /\ SessionImpliesTrusted
<1>1. Init => I
  BY TrustInvInit DEF Init, SessionImpliesTrusted, Entry
<1>2. I /\ [Next]_vars => I'
  <2>. SUFFICES ASSUME I, [Next]_vars PROVE SessionImpliesTrusted'
    BY TrustStep
  <2>. SUFFICES ASSUME NEW d \in Conns, session_keys_symetric_map'[d] # NoKey
                PROVE  is_client_registered(file', session_keys_symetric_map'[d].peer)
    BY DEF SessionImpliesTrusted, Entry
  <2>1. CASE session_keys_symetric_map'[d] = session_keys_symetric_map[d]
    BY <2>1, TrustedStaysTrusted DEF SessionImpliesTrusted, Entry
  <2>2. ASSUME NEW k \in Keys, is_client_registered(file', k),
               session_keys_symetric_map'[d] = [own |-> generated + 1, peer |-> k]
        PROVE  is_client_registered(file', session_keys_symetric_map'[d].peer)
    BY <2>2
  <2>3. session_keys_symetric_map \in [Conns -> SessionKeys \cup {NoKey}]
    BY DEF TrustInv, ServerInv, Types, KeyTypes
  <2>. QED BY <2>1, <2>2, <2>3, SessionStep
<1>3. I => SessionImpliesTrusted
  OBVIOUS
<1>. QED BY <1>1, <1>2, <1>3, PTL DEF Spec

\* The server implements the abstract sessions: they are made once, of a fresh
\* key pair and a trusted device's keys, and then only end.
THEOREM ImplementsTrustedSessionsHolds ==
    ASSUME "lost" \notin Faults, "short" \notin Faults, PlainTexts
    PROVE  Spec => ImplementsTrustedSessions
<1> DEFINE trusted == { k \in Keys : is_client_registered(file, k) }
<1>1. Init => Sessions!Init
  BY DEF Init, Sessions!Init, NoFile, is_client_registered
<1>2. TrustInv /\ [Next]_vars => [Sessions!Next]_(Sessions!sessionVars)
  <2>. SUFFICES ASSUME TrustInv, [Next]_vars PROVE Sessions!Next
    OBVIOUS
  <2>1. trusted \subseteq trusted' /\ trusted' \subseteq Keys
    BY TrustedStaysTrusted
  <2>2. generated \in Nat /\ generated' \in Nat /\ generated <= generated'
    BY GeneratedGrows DEF TrustInv, ServerInv, Types, KeyTypes
  <2>3. 1..generated \subseteq 1..generated'
    BY <2>2
  <2>4. Sessions!Forget \/ \E c \in Conns : Sessions!Establish(c)
    <3>1. ASSUME NEW c \in Conns, NEW k \in Keys, session_keys_symetric_map[c] = NoKey,
                 generated' = generated + 1, is_client_registered(file', k),
                 session_keys_symetric_map' =
                    [session_keys_symetric_map EXCEPT
                        ![c] = [own |-> generated + 1, peer |-> k]]
          PROVE  Sessions!Establish(c)
      <4>1. k \in trusted'
        BY <3>1
      <4>2. generated + 1 \in (1..generated') \ (1..generated)
        BY <2>2, <3>1
      <4>. QED BY <3>1, <4>1, <4>2 DEF Sessions!Establish
    <3>. QED BY <3>1, SessionStep DEF Sessions!Forget
  <2>. QED BY <2>1, <2>3, <2>4 DEF Sessions!Next
<1>3. TrustInv /\ [Next]_vars => TrustInv'
  BY TrustStep
<1>. QED BY <1>1, <1>2, <1>3, TrustInvInit, PTL DEF Spec, ImplementsTrustedSessions, Sessions!Spec

-----------------------------------------------------------------------------
\* What is left to do for a connection whose peer has hung up.

\* What the reads and writes of a connection depend on stays as it is, or the
\* program ends.
SameWork(c) ==
    /\ socket'[c] = socket[c] /\ inbox'[c] = inbox[c] /\ pending'[c] = pending[c]
    /\ blocked' = c <=> blocked = c
    /\ server' = server \/ server' # "running"

LEMMA WorkTypes ==
    ASSUME ServerInv
    PROVE  /\ socket \in [Conns -> SocketStates] /\ inbox \in [Conns -> Seq(Sent)]
           /\ pending \in [Conns -> Operations] /\ peer \in [Conns -> PeerStates]
           /\ outcome \in [Conns -> Outcomes]
           /\ \A c \in Conns : Len(inbox[c]) \in Nat
BY DEF ServerInv, Types, IoTypes, RestTypes

LEMMA WorkLeftValue ==
    ASSUME ServerInv, NEW c \in Conns
    PROVE  WorkLeft(c) \in Nat
BY WorkTypes DEF WorkLeft

LEMMA WorkLeftNat == ServerInv => \A c \in Conns : WorkLeft(c) \in Nat
BY WorkLeftValue

LEMMA WorkLeftNatNext == ServerInv' => \A c \in Conns : WorkLeft(c)' \in Nat
<1>1. ServerInv' => (\A c \in Conns : WorkLeft(c) \in Nat)'
  BY WorkLeftNat, PTL
<1>. QED BY <1>1

LEMMA SameWorkLeft ==
    ASSUME ServerInv, ServerInv', NEW c \in Conns, SameWork(c)
    PROVE  WorkLeft(c)' <= WorkLeft(c)
<1>1. WorkLeft(c)' = WorkLeft(c) \/ WorkLeft(c)' = 0
  BY DEF WorkLeft, SameWork, Stalled
<1>2. WorkLeft(c) \in Nat
  BY WorkLeftValue
<1>. QED BY ONLY <1>1, <1>2

\* A read takes at least one message.
LEMMA ReadTakes ==
    ASSUME ServerInv, NEW c \in Conns, NEW what, Consumes(c, what), inbox[c] # <<>>
    PROVE  /\ Len(inbox[c])' \in Nat /\ Len(inbox[c])' < Len(inbox[c])
           /\ \A d \in Conns \ {c} : inbox'[d] = inbox[d]
           /\ server' = server
<1>1. inbox \in [Conns -> Seq(Sent)]
  BY WorkTypes
<1>2. PICK n \in 1..Len(inbox[c]) : \E rest \in Remainders(inbox[c], n) :
            inbox' = [inbox EXCEPT ![c] = rest]
  BY DEF Consumes
<1>3. \A rest \in Remainders(inbox[c], n) : Len(rest) \in Nat /\ Len(rest) < Len(inbox[c])
  BY <1>1, RemainderType
<1>. QED BY <1>1, <1>2, <1>3 DEF Consumes

\* What a step of the io thread does to its connection.
WorksOn(c) ==
    \/ /\ server = "running" /\ server' # "running"
       /\ socket[c] = "backlog" \/ (socket[c] = "open" /\ pending[c] = "read") \/ blocked = c
    \/ /\ server = "running" /\ socket[c] = "backlog" /\ pending[c] = "none"
       /\ socket'[c] = "open" /\ pending'[c] = "read" /\ inbox'[c] = inbox[c]
    \/ /\ server = "running" /\ socket[c] = "open" /\ pending[c] = "read" /\ blocked = 0
       /\ Len(inbox[c])' \in Nat /\ Len(inbox[c])' < Len(inbox[c])
       /\ \/ socket'[c] = "closed"
          \/ pending'[c] = "write" /\ socket'[c] = "open"
          \/ pending'[c] = "none" /\ socket'[c] = "open"
    \/ /\ server = "running" /\ blocked = c /\ blocked' = 0
       /\ socket'[c] = socket[c] /\ pending'[c] = pending[c]
    \/ /\ server = "running" /\ socket[c] = "open" /\ pending[c] # "none" /\ socket'[c] = "closed"
    \/ /\ server = "running" /\ socket[c] = "open" /\ pending[c] = "write"
       /\ socket'[c] = "open" /\ pending'[c] = "read" /\ inbox'[c] = inbox[c]

\* A message is taken, and the others are not touched.
LEMMA HandlerWorks ==
    ASSUME ServerInv, NEW c \in Conns, NEW method, NEW what, Handles(c, method), Consumes(c, what),
           \/ Closes(c)
           \/ /\ socket' = socket /\ blocked' \in {0, c}
              /\ \E op \in {"none", "write"} : pending' = [pending EXCEPT ![c] = op]
    PROVE  WorksOn(c) /\ \A d \in Conns \ {c} : SameWork(d)
<1>1. /\ Len(inbox[c])' \in Nat /\ Len(inbox[c])' < Len(inbox[c])
      /\ \A d \in Conns \ {c} : inbox'[d] = inbox[d]
      /\ server' = server
  BY ReadTakes
<1>2. /\ socket \in [Conns -> SocketStates] /\ pending \in [Conns -> Operations]
      /\ \A d \in Conns : d # 0
  BY WorkTypes, ConstantFacts
<1>. QED BY <1>1, <1>2 DEF WorksOn, SameWork

LEMMA IoWorks ==
    ASSUME ServerInv, NEW c \in Conns, Io(c)
    PROVE  WorksOn(c) /\ \A d \in Conns \ {c} : SameWork(d)
<1>. USE WorkTypes, ConstantFacts
<1>1. CASE Accept(c)
  <2>1. pending[c] = "none"
    BY <1>1 DEF Accept, ServerInv, OperationsOnOpenSockets
  <2>. QED BY <1>1, <2>1 DEF Accept, WorksOn, SameWork
<1>2. CASE AcceptFails(c) \/ RegistrationUndeliverable(c) \/ BlockedWriteFails(c) \/ MessageFatal(c)
  <2>1. /\ server = "running"
        /\ socket[c] = "backlog" \/ (socket[c] = "open" /\ pending[c] = "read") \/ blocked = c
    BY <1>2 DEF AcceptFails, RegistrationUndeliverable, BlockedWriteFails, MessageFatal
  <2>2. server' # "running" /\ UNCHANGED <<socket, inbox, pending, blocked>>
    BY <1>2 DEF AcceptFails, RegistrationUndeliverable, BlockedWriteFails, MessageFatal
  <2>. QED BY <2>1, <2>2 DEF WorksOn, SameWork
<1>3. CASE HelloReplayed(c) \/ HelloRefused(c) \/ AgreeParamsRefused(c)
  <2>1. \E method, what : Handles(c, method) /\ Consumes(c, what)
    BY <1>3 DEF HelloReplayed, HelloRefused, AgreeParamsRefused
  <2>2. Closes(c)
    BY <1>3 DEF HelloReplayed, HelloRefused, AgreeParamsRefused
  <2>. QED BY ONLY ServerInv, c \in Conns, <2>1, <2>2, HandlerWorks
<1>4. CASE \/ HelloAccepted(c) \/ AgreeParamsAccepted(c) \/ SimpleAnswered(c)
           \/ SimpleMismatch(c) \/ UnknownMessage(c) \/ RegistrationAnswered(c)
  <2>1. \E method, what : Handles(c, method) /\ Consumes(c, what)
    BY <1>4 DEF HelloAccepted, AgreeParamsAccepted, SimpleAnswered, SimpleMismatch, UnknownMessage,
                RegistrationAnswered
  <2>2. /\ socket' = socket /\ blocked' \in {0, c}
        /\ \E op \in {"none", "write"} : pending' = [pending EXCEPT ![c] = op]
    BY <1>4 DEF HelloAccepted, AgreeParamsAccepted, SimpleAnswered, SimpleMismatch, UnknownMessage,
                RegistrationAnswered
  <2>. QED BY ONLY ServerInv, c \in Conns, <2>1, <2>2, HandlerWorks
<1>5. CASE BlockedWriteDone(c)
  BY <1>5 DEF BlockedWriteDone, WorksOn, SameWork
<1>6. CASE ReadError(c) \/ WriteError(c)
  BY <1>6 DEF ReadError, WriteError, WorksOn, SameWork
<1>7. CASE WriteDone(c)
  BY <1>7 DEF WriteDone, WorksOn, SameWork
<1>. QED BY ONLY Io(c), <1>1, <1>2, <1>3, <1>4, <1>5, <1>6, <1>7 DEF Io

\* What is left, case by case.
WorkByCase(c) ==
    /\ server # "running" => WorkLeft(c) = 0
    /\ socket[c] = "closed" => WorkLeft(c) = 0
    /\ server = "running" /\ socket[c] = "open" /\ pending[c] = "none" /\ blocked = c => WorkLeft(c) = 1
    /\ server = "running" /\ socket[c] = "open" /\ pending[c] = "none" /\ blocked # c => WorkLeft(c) = 0
    /\ server = "running" /\ socket[c] \in {"backlog", "open"} /\ pending[c] = "read"
            => WorkLeft(c) = 2 * Len(inbox[c]) + 1
    /\ server = "running" /\ socket[c] = "backlog" /\ pending[c] = "none"
            => WorkLeft(c) = 2 * Len(inbox[c]) + 2
    /\ server = "running" /\ socket[c] = "open" /\ pending[c] = "write"
            => WorkLeft(c) = 2 * Len(inbox[c]) + 2

LEMMA WorkByCaseHolds == \A c \in Conns : WorkByCase(c)
BY DEF WorkByCase, WorkLeft, Stalled

LEMMA WorkByCaseNext == \A c \in Conns : WorkByCase(c)'
BY DEF WorkByCase, WorkLeft, Stalled

LEMMA WorkDecreases ==
    ASSUME ServerInv, ServerInv', NEW c \in Conns, WorksOn(c)
    PROVE  WorkLeft(c)' < WorkLeft(c)
<1>1. Len(inbox[c]) \in Nat /\ c # 0
  BY WorkTypes, ConstantFacts
<1>2. inbox' \in [Conns -> Seq(Sent)]
  BY DEF ServerInv, RestTypes
<1>3. Len(inbox[c])' \in Nat
  BY <1>2
<1>4. /\ blocked = c => socket[c] = "open" /\ pending[c] = "none"
      /\ pending[c] # "none" => socket[c] = "open"
  BY <1>1 DEF ServerInv, OperationsOnOpenSockets, Stalled
<1>5. WorkByCase(c) /\ WorkByCase(c)'
  BY WorkByCaseHolds, WorkByCaseNext
<1>6. pending[c] \in Operations
  BY WorkTypes
<1>. QED BY ONLY WorksOn(c), <1>1, <1>3, <1>4, <1>5, <1>6 DEF WorksOn, WorkByCase, Operations

\* After its peer has hung up, a connection is at most so many steps of the io
\* thread from its end as there are messages and replies left in it.
THEOREM HangUpsAreWorkedOffHolds == Spec => HangUpsAreWorkedOff
<1>1. ASSUME ServerInv, ServerInv', [Next]_vars, NEW c \in Conns, peer[c] # "open",
             socket[c] # "unused"
      PROVE  /\ WorkLeft(c)' <= WorkLeft(c)
             /\ Io(c) => WorkLeft(c)' < WorkLeft(c)
  <2>1. Io(c) => WorkLeft(c)' < WorkLeft(c)
    BY <1>1, IoWorks, WorkDecreases
  <2>2. WorkLeft(c) \in Nat
    BY <1>1, WorkLeftValue
  <2>3. CASE Start
    <3>1. socket'[c] = "unused"
      BY <2>3 DEF Start
    <3>2. WorkLeft(c)' = 0
      BY <3>1 DEF WorkLeft
    <3>. QED BY ONLY <2>2, <3>2, <2>1
  <2>4. CASE Signal \/ Clock \/ UNCHANGED vars
    <3>1. SameWork(c)
      BY <2>4 DEF Signal, Clock, vars, SameWork
    <3>. QED BY <1>1, <2>1, <3>1, SameWorkLeft
  <2>5. ASSUME NEW d \in Conns, Peer(d)
        PROVE  /\ WorkLeft(c)' <= WorkLeft(c)
               /\ Io(c) => WorkLeft(c)' < WorkLeft(c)
    <3>1. SameWork(c)
      BY <1>1, <2>5, WorkTypes DEF Peer, PeerConnect, PeerSend, PeerReceive, PeerLeave, SameWork
    <3>. QED BY <1>1, <2>1, <3>1, SameWorkLeft
  <2>6. ASSUME NEW d \in Conns, Io(d), d # c PROVE WorkLeft(c)' <= WorkLeft(c)
    <3>1. SameWork(c)
      BY <1>1, <2>6, IoWorks
    <3>. QED BY <1>1, <3>1, SameWorkLeft
  <2>7. ASSUME Io(c) PROVE WorkLeft(c)' <= WorkLeft(c)
    <3>1. WorkLeft(c)' < WorkLeft(c) /\ WorkLeft(c)' \in Nat
      BY <1>1, <2>1, <2>7, WorkLeftNatNext
    <3>. QED BY ONLY <2>2, <3>1
  <2>. QED BY <1>1, <2>1, <2>3, <2>4, <2>5, <2>6, <2>7 DEF Next
<1>2. ServerInv /\ ServerInv' /\ [Next]_vars =>
        [\A c \in Conns : peer[c] # "open" /\ socket[c] # "unused" =>
            /\ WorkLeft(c)' <= WorkLeft(c)
            /\ Io(c) => WorkLeft(c)' < WorkLeft(c)]_vars
  BY <1>1
<1>. QED BY <1>2, ServerInvInit, ServerInvNext, PTL DEF Spec, HangUpsAreWorkedOff

=============================================================================
