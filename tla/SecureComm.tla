------------------------------ MODULE SecureComm ------------------------------
(***************************************************************************)
(* The two programs together: the server of Server, and on the other end   *)
(* of each connection the program of Client.  Every step is a step of one  *)
(* of them, and of what it does to the connection: what the client sends   *)
(* is what its peer in Server sends, what the server writes is what the    *)
(* client receives, and a program that ends closes its side.               *)
(***************************************************************************)
EXTENDS ServerProperties

CONSTANT MaxTexts    \* bound on the lines typed at each client

\* A reply fits an empty send buffer.
ASSUME CommAssumption == SendRoom > 0 /\ MaxTexts \in Nat

VARIABLES
    identity, intact, where, session_keys_symetric, io_thread, drawn, texts,
    acknowledged,                                                      \* see Client
    responses,
    heard         \* history: texts of each client the server has decrypted and verified

commVars == <<vars, identity, intact, where, session_keys_symetric, io_thread, drawn, texts,
              acknowledged, responses, heard>>

\* The connection as the client sees it.
Stream == [c \in Conns |->
    CASE socket[c] = "unused" -> "none"
      [] socket[c] # "unused" /\ (server # "running" \/ socket[c] = "closed") -> "closed"
      [] OTHER -> "open"]

C == INSTANCE Client WITH
    Clients <- Conns, Responses <- {}, MaxPending <- 0,
    stream <- Stream, requests <- inbox

programVars == <<identity, intact, where, session_keys_symetric, io_thread, drawn, texts,
                 acknowledged>>

ClientsStart ==
    /\ where' = [c \in Conns |-> "start"]
    /\ session_keys_symetric' = [c \in Conns |-> NoKey]
    /\ io_thread' = [c \in Conns |-> "none"]
    /\ drawn' = [c \in Conns |-> {}]
    /\ texts' = [c \in Conns |-> 0]
    /\ acknowledged' = [c \in Conns |-> 0]
    /\ responses' = [c \in Conns |-> <<>>]
    /\ heard' = [c \in Conns |-> 0]

CommInit ==
    /\ Init
    /\ identity \in [Conns -> Identities]
    /\ intact \in [Conns -> BOOLEAN]
    /\ where = [c \in Conns |-> "start"]
    /\ session_keys_symetric = [c \in Conns |-> NoKey]
    /\ io_thread = [c \in Conns |-> "none"]
    /\ drawn = [c \in Conns |-> {}]
    /\ texts = [c \in Conns |-> 0]
    /\ acknowledged = [c \in Conns |-> 0]
    /\ responses = [c \in Conns |-> <<>>]
    /\ heard = [c \in Conns |-> 0]

-----------------------------------------------------------------------------
\* The server.

\* The clients of an earlier run of the server have ended, or have nothing more
\* to do with it.
ServerStarts ==
    /\ Start
    /\ ClientsStart
    /\ identity' \in [Conns -> Identities]
    /\ intact' \in [Conns -> BOOLEAN]

ServerSignal == Signal /\ UNCHANGED <<programVars, responses, heard>>

ServerClock == Clock /\ UNCHANGED <<programVars, responses, heard>>

\* What was written, by what the connection's last handler did.
Response(c) ==
    CASE outcome'[c] = "greeted" -> [method |-> "WhatsUpFIUNAM", own |-> outgoing[c], signed |-> TRUE]
      [] outcome'[c] = "agreed" -> [method |-> "StartConversation"]
      [] outcome'[c] = "answered" -> [method |-> "conn_continue", key |-> Entry(c)]
      [] outcome'[c] = "registered" -> [method |-> "RegistrationApproved"]
      [] OTHER -> [method |-> "RegistrationRejected"]

ServerStep(c) ==
    /\ Io(c)
    /\ responses' = IF unread'[c] > unread[c] THEN [responses EXCEPT ![c] = Append(@, Response(c))]
                    ELSE responses
    /\ heard' = IF inbox'[c] # inbox[c] /\ outcome'[c] = "answered"
                THEN [heard EXCEPT ![c] = @ + 1] ELSE heard
    /\ UNCHANGED programVars

-----------------------------------------------------------------------------
\* The clients.

ClientConnects(c) ==
    /\ PeerConnect(c) /\ C!Connect(c) /\ UNCHANGED heard

ClientFindsNoServer(c) ==
    /\ server # "running" /\ UNCHANGED vars
    /\ C!ConnectFails(c) /\ UNCHANGED heard

\* (Where a first conjunct below says at which points of the program a step is
\* taken, the step of Client says the same.)

\* What is sent to a server that has closed the connection, or has ended, is lost.
Carries(c) == IF Connected(c) THEN PeerSend(c) ELSE UNCHANGED vars

ClientSpeaks(c) == where[c] \in {"hello", "hello again", "register", "agree"} /\ Carries(c) /\ C!Speaks(c) /\ UNCHANGED heard

ClientTypes(c) == Carries(c) /\ C!TypeText(c) /\ UNCHANGED heard

ClientHears(c) ==
    /\ where[c] \in C!Awaiting /\ responses[c] # <<>>
    /\ IF Connected(c) THEN PeerReceive(c) ELSE UNCHANGED vars
    /\ C!Hears(c) /\ UNCHANGED heard

ClientThinks(c) == UNCHANGED vars /\ C!Thinks(c) /\ UNCHANGED heard

ClientIdles(c) == UNCHANGED vars /\ C!Inputs(c) /\ UNCHANGED heard

\* The system closes the connection of a program that ends: by a reset if there
\* is something the program has not read.
Leaves(c) ==
    IF Connected(c)
    THEN PeerLeave(c) /\ peer'[c] = (IF responses[c] = <<>> THEN "eof" ELSE "reset")
    ELSE UNCHANGED vars

ClientEnds(c) == where[c] \in {"throwing", "return"} /\ Leaves(c) /\ C!Ends(c) /\ UNCHANGED heard

ClientKilled(c) == Leaves(c) /\ C!Killed(c) /\ UNCHANGED heard

ClientProceeds(c) == ClientSpeaks(c) \/ ClientHears(c) \/ ClientThinks(c) \/ ClientEnds(c)

-----------------------------------------------------------------------------
CommNext ==
    \/ ServerStarts \/ ServerSignal \/ ServerClock
    \/ \E c \in Conns :
          \/ ServerStep(c)
          \/ ClientConnects(c) \/ ClientFindsNoServer(c) \/ ClientTypes(c) \/ ClientIdles(c)
          \/ ClientKilled(c) \/ ClientProceeds(c)

CommSpec == CommInit /\ [][CommNext]_commVars

\* The server's reactor is fair, and a program that is not waiting runs.
FairCommSpec ==
    CommSpec /\ \A c \in Conns : WF_commVars(ServerStep(c)) /\ WF_commVars(ClientProceeds(c))

-----------------------------------------------------------------------------
\* The two programs implement the secure channel: one key for both, made before
\* the first text, and each text heard exactly once and acknowledged in turn,
\* although neither numbers its messages and the server's handlers forget what
\* they read behind the first message.
Channel == INSTANCE SecureChannel WITH
    None <- NoKey,
    serverKey <- session_keys_symetric_map,
    clientKey <- session_keys_symetric,
    asked <- texts

ImplementsSecureChannel == Channel!Spec

\* The reply the server has begun to write is on its way to the client.
Writing(c) == IF pending[c] = "write" THEN 1 ELSE 0

\* There is at most one message between a client and the server, in the one
\* direction or the other: a read never takes two, so none is dropped with the
\* buffer, and a reply always finds room to be written at once.
OneMessageInFlight ==
    \A c \in Conns : Len(inbox[c]) + Writing(c) + Len(responses[c]) <= 1

\* No client program, however it ends and whatever its device is, stops the
\* server: of all that ends its io thread only a signal is left.
OnlySignalsStopServer == server \in {"off", "running", "signal"}

\* The connection that is accepted next is there to be accepted.
Accepting ==
    \E d \in Conns : d = connection_counter_ + 1 /\ socket[d] = "backlog" /\ peer[d] # "reset"

\* For every client that waits there is a step it can be waiting for: its answer
\* is there, or a reply to it that fits is being written, or its request lies in
\* a connection that is being read or is about to be accepted; and the io thread
\* is free.  No order of messages, ends of other clients and refusals leaves a
\* client with nobody working for it.
NobodyWaitsInVain ==
    \A c \in Conns : where[c] \in C!Awaiting /\ Stream[c] = "open" =>
        \/ responses[c] # <<>>
        \/ Ready /\ pending[c] = "write" /\ HasRoom(c)
        \/ Ready /\ inbox[c] # <<>> /\ pending[c] = "read"
        \/ Ready /\ inbox[c] # <<>> /\ socket[c] = "backlog" /\ Accepting

\* How far the answer is from the client that waits for it.
Distance(c) ==
    IF Stream[c] # "open" \/ responses[c] # <<>> THEN 0
    ELSE IF pending[c] = "write" THEN 1
    ELSE IF socket[c] = "open" THEN 2
    ELSE 3

\* Each step of the server for a waiting client brings its answer, or the end of
\* the connection, nearer, and no step of anybody else takes it further away.
AnswersComeNearer ==
    [][\A c \in Conns : where[c] \in C!Awaiting /\ where'[c] = where[c] =>
          /\ Distance(c)' <= Distance(c)
          /\ ServerStep(c) => Distance(c)' < Distance(c)]_commVars

\* A client whose signature is right is served, unless its keys are not on the
\* list and cannot be put there: no message of another connection, no nonce and
\* no earlier state of its own connection has the server turn it away.
TurnedAwayForItsKeys ==
    [][\A c \in Conns :
          LET keys == identity[c].keys
          IN  intact[c] /\ outcome'[c] # outcome[c] =>
                \/ outcome'[c] \in {"none", "greeted", "agreed", "answered", "disconnected"}
                \/ /\ outcome'[c] = "refused" /\ ~is_client_registered(file, keys)
                   /\ \/ is_device_id_registered_with_different_keys(file, identity[c].id, keys)
                      \/ "open" \in Faults]_commVars

\* No client waits for ever: every handshake comes to its end and every text is
\* answered, or the program ends.
ClientsAreAnswered ==
    \A c \in Conns : where[c] \in C!Awaiting ~> where[c] \notin C!Awaiting

\* "Device not trusted, requesting registration...": a device that was refused and
\* whose keys are not on the list asks to be registered.
RefusedAsksForRegistration ==
    \A c \in Conns :
        outcome[c] = "refused" /\ ~is_client_registered(file, identity[c].keys)
            => where[c] # "terminated"

=============================================================================
