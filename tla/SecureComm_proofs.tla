--------------------------- MODULE SecureComm_proofs ---------------------------
(***************************************************************************)
(* The two programs together, for every number of connections, devices,    *)
(* texts and restarts: the server is the one of Server and keeps all its   *)
(* invariants; at most one message is between a client and the server;     *)
(* only a signal stops the server; the two implement SecureChannel; and no *)
(* client waits for a server that waits too, or is turned away but for its *)
(* keys (the last part).                                                   *)
(*                                                                         *)
(* The invariant says what is under way on a connection (Flow): nothing    *)
(* when it is the client's turn, and otherwise nothing or one message of   *)
(* the exchange it waits for, as a request, as a reply being written or as *)
(* a reply arrived (UnderWay).  What was under way when a program ended    *)
(* stays so, because the server still handles it.                          *)
(***************************************************************************)
EXTENDS SecureComm, Server_proofs

\* What the server may have written.
Replied ==
    [method : {"WhatsUpFIUNAM"}, own : Nat, signed : {TRUE}]
    \cup [method : {"conn_continue"}, key : SessionKeys \cup {NoKey}]
    \cup [method : {"StartConversation", "RegistrationApproved", "RegistrationRejected"}]

Key(c) == session_keys_symetric[c]

\* Both have the key, as long as the server has not closed the connection.
Agreed(c) == Key(c) # NoKey /\ (socket[c] = "open" => Entry(c) = Key(c))

-----------------------------------------------------------------------------
\* What is under way: nothing, or one message of an exchange.

Exchanges == {"greeting", "start", "answer"}

Quiet(c) == inbox[c] = <<>> /\ pending[c] # "write" /\ responses[c] = <<>>

AskedWith(c, k, m) ==
    \/ /\ k = "greeting" /\ m.method = "HelloFIUNAM" /\ m.from = identity[c]
       /\ Entry(c) = NoKey /\ Key(c) = NoKey
    \/ k = "start" /\ m.method = "AgreeParams" /\ m.algorithm = "ChaCha20"
    \/ /\ k = "answer" /\ m.method = "simple_message" /\ m.sha256
       /\ Agreed(c) /\ m.key = Key(c) /\ heard[c] < texts[c]

Asked(c, k) ==
    /\ pending[c] # "write" /\ responses[c] = <<>>
    /\ \E m \in Sent : inbox[c] = <<m>> /\ AskedWith(c, k, m)

BeingAnswered(c, k) ==
    /\ pending[c] = "write" /\ responses[c] = <<>> /\ inbox[c] = <<>>
    /\ \/ /\ k = "greeting" /\ outcome[c] = "greeted" /\ Key(c) = NoKey
          /\ peer[c] = "open" => Entry(c) = [own |-> outgoing[c], peer |-> identity[c].keys]
       \/ k = "start" /\ outcome[c] = "agreed"
       \/ k = "answer" /\ outcome[c] = "answered" /\ Agreed(c) /\ acknowledged[c] < heard[c]

AnsweredWith(c, k, r) ==
    \/ /\ k = "greeting" /\ r.method = "WhatsUpFIUNAM" /\ r.signed /\ Key(c) = NoKey
       /\ peer[c] = "open" => Entry(c) = [own |-> r.own, peer |-> identity[c].keys]
    \/ k = "start" /\ r.method = "StartConversation"
    \/ k = "answer" /\ r.method = "conn_continue" /\ r.key = Key(c) /\ acknowledged[c] < heard[c]

Answered(c, k) ==
    /\ pending[c] # "write" /\ inbox[c] = <<>>
    /\ \E r \in Replied : responses[c] = <<r>> /\ AnsweredWith(c, k, r)

UnderWay(c, k) == Asked(c, k) \/ BeingAnswered(c, k) \/ Answered(c, k)

Left == {"returned", "terminated", "killed"}

Gone == {"shutdown", "return", "throwing", "spinning"} \cup Left

Places == {"start", "hello", "await greeting", "agree", "await start", "chat", "await answer"}
          \cup Gone

\* Where a client waits for the end of the exchange.
WaitsFor(k) == CASE k = "greeting" -> "await greeting"
                 [] k = "start" -> "await start"
                 [] k = "answer" -> "await answer"

Flow(c) == Quiet(c) \/ \E k \in Exchanges : UnderWay(c, k) /\ where[c] \in {WaitsFor(k)} \cup Gone

-----------------------------------------------------------------------------
\* What the client program knows at each of its places.

Even(c) == texts[c] = acknowledged[c]

Standing(c) ==
    /\ where[c] \in Places
    /\ where[c] \in {"start", "hello"} => Entry(c) = NoKey
    /\ where[c] \in {"start", "hello", "await greeting"} => Key(c) = NoKey
    /\ where[c] \in {"agree", "await start", "chat", "await answer"} => Agreed(c)
    /\ where[c] \notin {"await answer"} \cup Gone => Even(c)

Counts(c) == /\ acknowledged[c] <= heard[c] /\ heard[c] <= texts[c]
             /\ texts[c] <= acknowledged[c] + 1

\* As long as the program runs, its side of the connection is open, and what it
\* has not read is what the server has written.
Connection(c) ==
    /\ where[c] \notin Left => peer[c] = "open"
    /\ socket[c] \in {"unused", "backlog"} =>
          responses[c] = <<>> /\ peer[c] # "reset" /\ Key(c) = NoKey
    /\ server = "running" /\ peer[c] = "open" /\ socket[c] # "closed" =>
          unread[c] = Len(responses[c])

Conv(c) == Flow(c) /\ Standing(c) /\ Counts(c) /\ Connection(c)

ProgramTypes ==
    /\ identity \in [Conns -> Identities]
    /\ where \in [Conns -> Places]
    /\ session_keys_symetric \in [Conns -> SessionKeys \cup {NoKey}]
    /\ responses \in [Conns -> Seq(Replied)]
    /\ texts \in [Conns -> Nat] /\ heard \in [Conns -> Nat] /\ acknowledged \in [Conns -> Nat]

CommInv ==
    /\ ServerInv /\ ProgramTypes
    /\ blocked = 0 /\ OnlySignalsStopServer
    /\ \A c \in Conns : Conv(c)

-----------------------------------------------------------------------------
\* Every step of the two programs is one of the server and its peers.

LEMMA CommStepIsServers == [CommNext]_commVars => [Next]_vars
<1> SUFFICES ASSUME [CommNext]_commVars PROVE [Next]_vars
  OBVIOUS
<1>1. CASE UNCHANGED commVars
  BY <1>1 DEF commVars
<1>2. CASE ServerStarts \/ ServerSignal \/ ServerClock
  BY <1>2 DEF ServerStarts, ServerSignal, ServerClock, Next
<1>3. ASSUME NEW c \in Conns,
             \/ ServerStep(c)
             \/ ClientConnects(c) \/ ClientFindsNoServer(c) \/ ClientTypes(c) \/ ClientIdles(c)
             \/ ClientKilled(c) \/ ClientProceeds(c)
      PROVE  [Next]_vars
  <2>1. Io(c) \/ Peer(c) \/ UNCHANGED vars
    BY <1>3 DEF ServerStep, ClientConnects, ClientFindsNoServer, ClientTypes, ClientIdles,
                ClientKilled, ClientProceeds, ClientSpeaks, ClientHears, ClientThinks, ClientEnds,
                Carries, Leaves, Peer
  <2>. QED BY <2>1 DEF Next
<1>. QED BY <1>1, <1>2, <1>3 DEF CommNext

-----------------------------------------------------------------------------
\* A step of one connection leaves the others alone.

Same(d) ==
    /\ socket'[d] = socket[d] /\ peer'[d] = peer[d] /\ identity'[d] = identity[d]
    /\ inbox'[d] = inbox[d] /\ unread'[d] = unread[d]
    /\ pending'[d] = pending[d] /\ outgoing'[d] = outgoing[d] /\ outcome'[d] = outcome[d]
    /\ session_keys_symetric_map'[d] = session_keys_symetric_map[d]
    /\ where'[d] = where[d] /\ session_keys_symetric'[d] = session_keys_symetric[d]
    /\ responses'[d] = responses[d]
    /\ texts'[d] = texts[d] /\ heard'[d] = heard[d] /\ acknowledged'[d] = acknowledged[d]

ServerGoesOn == server' = server \/ server' = "signal"

LEMMA SameConv ==
    ASSUME NEW d \in Conns, Conv(d), Same(d), ServerGoesOn
    PROVE  Conv(d)'
<1>1. Agreed(d)' <=> Agreed(d)
  BY DEF Same, Agreed, Key, Entry
<1>2. Quiet(d)' <=> Quiet(d)
  BY DEF Same, Quiet
<1>3. ASSUME NEW k PROVE UnderWay(d, k) => UnderWay(d, k)'
  <2>1. Asked(d, k) => Asked(d, k)'
    BY <1>1 DEF Same, Asked, AskedWith, Key, Entry
  <2>2. BeingAnswered(d, k) => BeingAnswered(d, k)'
    BY <1>1 DEF Same, BeingAnswered, Key, Entry
  <2>3. Answered(d, k) => Answered(d, k)'
    BY DEF Same, Answered, AnsweredWith, Key, Entry
  <2>. QED BY <2>1, <2>2, <2>3 DEF UnderWay
<1>4. Flow(d)'
  BY <1>2, <1>3 DEF Conv, Flow, Same
<1>5. Standing(d)' /\ Counts(d)'
  BY <1>1 DEF Conv, Standing, Counts, Even, Key, Entry, Same
<1>6. Connection(d)'
  BY DEF Conv, Connection, ServerGoesOn, Key, Same
<1>. QED BY <1>4, <1>5, <1>6 DEF Conv

\* What a step for connection c has to establish.
Keeps(c) ==
    /\ ProgramTypes' /\ blocked' = blocked /\ ServerGoesOn
    /\ Conv(c)' /\ \A d \in Conns \ {c} : Same(d)

LEMMA KeepsInv ==
    ASSUME CommInv, ServerInv', NEW c \in Conns, Keeps(c)
    PROVE  CommInv'
<1>1. ASSUME NEW d \in Conns PROVE Conv(d)'
  <2>1. CASE d = c
    BY <2>1 DEF Keeps
  <2>2. CASE d # c
    BY <2>2, SameConv DEF Keeps, CommInv
  <2>. QED BY <2>1, <2>2
<1>2. OnlySignalsStopServer'
  BY DEF Keeps, CommInv, ServerGoesOn, OnlySignalsStopServer
<1>. QED BY <1>1, <1>2 DEF Keeps, CommInv

\* Sequences of one message.
LEMMA Single ==
    ASSUME NEW S, NEW s \in Seq(S), NEW m \in S, s = <<m>>
    PROVE  /\ s # <<>> /\ Len(s) = 1 /\ Head(s) = m /\ s[1] = m
           /\ \A n \in 1..Len(s) : n = 1 /\ SubSeq(s, n + 1, Len(s)) = <<>>
OBVIOUS

LEMMA AppendToNone ==
    ASSUME NEW m
    PROVE  Append(<<>>, m) = <<m>> /\ <<m>> # <<>> /\ Len(<<m>>) = 1
OBVIOUS

-----------------------------------------------------------------------------
\* Steps of the server.

LEMMA TypeFacts ==
    ASSUME CommInv
    PROVE  /\ socket \in [Conns -> SocketStates] /\ peer \in [Conns -> PeerStates]
           /\ pending \in [Conns -> Operations] /\ unread \in [Conns -> 0..SendRoom]
           /\ inbox \in [Conns -> Seq(Sent)] /\ outcome \in [Conns -> Outcomes]
           /\ outgoing \in [Conns -> 0..generated] /\ generated \in Nat
           /\ identity \in [Conns -> Identities]
           /\ session_keys_asymetric_map \in [Conns -> 0..generated]
           /\ session_keys_symetric_map \in [Conns -> SessionKeys \cup {NoKey}]
           /\ ProgramTypes
BY DEF CommInv, ServerInv, Types, IoTypes, KeyTypes, RestTypes, ProgramTypes

\* Which message is handled: that of the exchange under way.
LEMMA HandledIsAsked ==
    ASSUME CommInv, NEW c \in Conns, NEW method, Handles(c, method)
    PROVE  \E k \in Exchanges, m \in Sent :
              /\ inbox[c] = <<m>> /\ Head(inbox[c]) = m /\ m.method = method
              /\ AskedWith(c, k, m) /\ Asked(c, k)
              /\ where[c] \in {WaitsFor(k)} \cup Gone
<1>1. inbox[c] # <<>> /\ Head(inbox[c]).method = method /\ pending[c] = "read"
  BY DEF Handles
<1>2. PICK k \in Exchanges : UnderWay(c, k) /\ where[c] \in {WaitsFor(k)} \cup Gone
  BY <1>1 DEF CommInv, Conv, Flow, Quiet
<1>3. Asked(c, k)
  BY <1>1, <1>2 DEF UnderWay, BeingAnswered, Answered
<1>4. PICK m \in Sent : inbox[c] = <<m>> /\ AskedWith(c, k, m)
  BY <1>3 DEF Asked
<1>5. Head(inbox[c]) = m
  BY <1>4
<1>. QED BY <1>1, <1>2, <1>3, <1>4, <1>5

\* Nothing but a signal stops it, and no registration is asked for.
LEMMA IoKinds ==
    ASSUME CommInv, NEW c \in Conns, Io(c)
    PROVE  \/ Accept(c) \/ HelloReplayed(c) \/ HelloRefused(c) \/ HelloAccepted(c)
           \/ AgreeParamsAccepted(c) \/ SimpleAnswered(c)
           \/ ReadError(c) \/ WriteError(c) \/ WriteDone(c)
<1>1. ~AcceptFails(c)
  BY DEF AcceptFails, CommInv, Conv, Connection
<1>2. ~BlockedWriteDone(c) /\ ~BlockedWriteFails(c)
  BY ConstantFacts DEF BlockedWriteDone, BlockedWriteFails, CommInv
<1>3. \A method \in {"RequestRegistration", "unknown", "malformed"} : ~Handles(c, method)
  BY HandledIsAsked DEF AskedWith
<1>4. ~RegistrationAnswered(c) /\ ~RegistrationUndeliverable(c) /\ ~UnknownMessage(c)
  BY <1>3 DEF RegistrationAnswered, RegistrationUndeliverable, UnknownMessage
<1>5. ~AgreeParamsRefused(c)
  BY HandledIsAsked DEF AskedWith, AgreeParamsRefused
<1>6. Handles(c, "simple_message") =>
        /\ session_keys_symetric_map[c] # NoKey /\ Opens(c) /\ Head(inbox[c]).sha256
  <2> SUFFICES ASSUME Handles(c, "simple_message")
               PROVE  /\ session_keys_symetric_map[c] # NoKey
                      /\ Head(inbox[c]).key = session_keys_symetric_map[c]
                      /\ Head(inbox[c]).sha256
    BY DEF Opens
  <2>1. PICK k \in Exchanges, m \in Sent :
          Head(inbox[c]) = m /\ m.method = "simple_message" /\ AskedWith(c, k, m)
    BY HandledIsAsked
  <2>2. Agreed(c) /\ m.key = Key(c) /\ m.sha256
    BY <2>1 DEF AskedWith
  <2>3. socket[c] = "open"
    BY DEF Handles
  <2>. QED BY <2>1, <2>2, <2>3 DEF Agreed, Entry
<1>7. ~SimpleMismatch(c) /\ ~MessageFatal(c)
  BY <1>3, <1>6 DEF SimpleMismatch, MessageFatal
<1>. QED BY ONLY Io(c), <1>1, <1>2, <1>4, <1>5, <1>7 DEF Io

\* What the server's step leaves alone in the programs, and when nothing arrives.
LEMMA ServerStepFacts ==
    ASSUME CommInv, NEW c \in Conns, ServerStep(c)
    PROVE  /\ Io(c)
           /\ UNCHANGED <<identity, where, session_keys_symetric, texts, acknowledged>>
           /\ unread' = unread => responses' = responses
           /\ inbox' = inbox \/ outcome'[c] # "answered" => heard' = heard
<1>1. unread' = unread => ~(unread'[c] > unread[c])
  BY TypeFacts, ConstantFacts
<1>. QED BY <1>1 DEF ServerStep, programVars

\* A message is handled: a reply is begun, or the connection closed.
LEMMA HandlesKeeps ==
    ASSUME CommInv, NEW c \in Conns, ServerStep(c), NEW k \in Exchanges,
           where[c] \in {WaitsFor(k)} \cup Gone,
           UNCHANGED <<server, peer, unread, blocked>>,
           socket[c] = "open", socket'[c] \in {"open", "closed"},
           \A d \in Conns \ {c} : Same(d),
           BeingAnswered(c, k)' \/ Quiet(c)',
           Agreed(c) => Agreed(c)',
           heard' \in [Conns -> Nat], Counts(c)'
    PROVE  Keeps(c)
<1>1. /\ UNCHANGED <<identity, where, session_keys_symetric, texts, acknowledged>>
      /\ responses' = responses
  BY ServerStepFacts
<1>2. ProgramTypes'
  BY <1>1 DEF CommInv, ProgramTypes
<1>3. Flow(c)'
  BY <1>1 DEF Flow, UnderWay
<1>4. where[c] \notin {"start", "hello"}
  BY DEF Gone, Left, WaitsFor, Exchanges
<1>5. Standing(c)'
  BY <1>1, <1>4 DEF Standing, Even, Key, CommInv, Conv
<1>6. Connection(c)'
  BY <1>1 DEF Connection, Key, CommInv, Conv
<1>. QED BY <1>2, <1>3, <1>5, <1>6 DEF Keeps, Conv, ServerGoesOn

\* The read takes the message and leaves nothing.
LEMMA Consumed ==
    ASSUME CommInv, NEW c \in Conns, NEW what \in Outcomes, Consumes(c, what), NEW m \in Sent,
           inbox[c] = <<m>>
    PROVE  /\ inbox'[c] = <<>> /\ outcome'[c] = what
           /\ \A d \in Conns \ {c} : inbox'[d] = inbox[d] /\ outcome'[d] = outcome[d]
           /\ UNCHANGED <<server, peer>>
<1>1. inbox \in [Conns -> Seq(Sent)] /\ outcome \in [Conns -> Outcomes]
  BY TypeFacts
<1>2. PICK n \in 1..Len(inbox[c]) :
        \E rest \in Remainders(inbox[c], n) : inbox' = [inbox EXCEPT ![c] = rest]
  BY DEF Consumes
<1>3. Remainders(inbox[c], n) = {<<>>}
  <2>1. inbox[c] \in Seq(Sent)
    BY <1>1
  <2>2. n = 1 /\ Len(inbox[c]) = 1 /\ SubSeq(inbox[c], n + 1, Len(inbox[c])) = <<>>
    BY ONLY <2>1, m \in Sent, inbox[c] = <<m>>, n \in 1..Len(inbox[c]), Single
  <2>3. ~(n < Len(inbox[c]))
    BY ONLY <2>2
  <2>. QED BY <2>2, <2>3, Zenon DEF Remainders
<1>4. /\ outcome' = [outcome EXCEPT ![c] = what]
      /\ UNCHANGED <<server, peer>>
  BY DEF Consumes
<1>. QED BY <1>1, <1>2, <1>3, <1>4

LEMMA RefusedHelloKeeps ==
    ASSUME CommInv, NEW c \in Conns, ServerStep(c), HelloReplayed(c) \/ HelloRefused(c)
    PROVE  Keeps(c)
<1>1. /\ Handles(c, "HelloFIUNAM") /\ Closes(c) /\ UNCHANGED keyVars
      /\ \E what \in {"replayed", "refused"} : Consumes(c, what)
  BY DEF HelloReplayed, HelloRefused
<1>2. PICK k \in Exchanges, m \in Sent :
        inbox[c] = <<m>> /\ Asked(c, k) /\ where[c] \in {WaitsFor(k)} \cup Gone
  BY <1>1, HandledIsAsked
<1>3. /\ inbox'[c] = <<>> /\ outcome'[c] \in {"replayed", "refused"}
      /\ \A d \in Conns \ {c} : inbox'[d] = inbox[d] /\ outcome'[d] = outcome[d]
      /\ UNCHANGED <<server, peer>>
  BY <1>1, <1>2, Consumed DEF Outcomes
<1>4. /\ UNCHANGED <<identity, where, session_keys_symetric, texts, acknowledged, heard>>
      /\ UNCHANGED <<unread, outgoing, blocked, responses, session_keys_symetric_map>>
  BY <1>1, <1>3, ServerStepFacts DEF Closes, keyVars
<1>5. /\ socket[c] = "open" /\ socket'[c] = "closed" /\ pending'[c] = "none"
      /\ \A d \in Conns \ {c} : socket'[d] = socket[d] /\ pending'[d] = pending[d]
  BY <1>1, TypeFacts DEF Closes, Handles
<1>6. \A d \in Conns \ {c} : Same(d)
  BY <1>3, <1>4, <1>5 DEF Same
<1>7. Quiet(c)'
  BY <1>2, <1>3, <1>4, <1>5 DEF Quiet, Asked
<1>8. Agreed(c) => Agreed(c)'
  BY <1>4, <1>5 DEF Agreed, Key
<1>9. Counts(c)' /\ heard' \in [Conns -> Nat]
  BY <1>4 DEF Counts, CommInv, Conv, ProgramTypes
<1>. QED BY <1>2, <1>3, <1>4, <1>5, <1>6, <1>7, <1>8, <1>9, HandlesKeeps

\* What is common to the handlers that answer.
LEMMA AnsweringFacts ==
    ASSUME CommInv, NEW c \in Conns, ServerStep(c), NEW method, NEW what \in Outcomes,
           NEW announced \in Nat,
           Handles(c, method), Consumes(c, what), Replies(c, announced)
    PROVE  /\ inbox'[c] = <<>> /\ outcome'[c] = what /\ pending'[c] = "write"
           /\ socket[c] = "open" /\ responses'[c] = <<>> /\ inbox' # inbox
           /\ HasRoom(c) => outgoing'[c] = announced
           /\ \A d \in Conns \ {c} :
                 /\ inbox'[d] = inbox[d] /\ outcome'[d] = outcome[d] /\ pending'[d] = pending[d]
                 /\ outgoing'[d] = outgoing[d]
           /\ UNCHANGED <<server, peer, identity, socket, unread, blocked, responses, where,
                          session_keys_symetric, texts, acknowledged>>
<1>1. PICK k \in Exchanges, m \in Sent : inbox[c] = <<m>> /\ Asked(c, k)
  BY HandledIsAsked
<1>2. /\ inbox'[c] = <<>> /\ outcome'[c] = what
      /\ \A d \in Conns \ {c} : inbox'[d] = inbox[d] /\ outcome'[d] = outcome[d]
      /\ UNCHANGED <<server, peer>>
  BY <1>1, Consumed
<1>3. <<m>> # <<>>
  OBVIOUS
<1>4. UNCHANGED <<unread, socket, blocked>>
  BY DEF Replies
<1>5. UNCHANGED <<identity, responses, where, session_keys_symetric, texts, acknowledged>>
  BY <1>4, ServerStepFacts
<1>6. /\ pending'[c] = "write"
      /\ \A d \in Conns \ {c} : pending'[d] = pending[d] /\ outgoing'[d] = outgoing[d]
      /\ HasRoom(c) => outgoing'[c] = announced
  <2>1. pending' = [pending EXCEPT ![c] = "write"]
    BY DEF Replies
  <2>2. PICK r \in IF HasRoom(c) THEN {announced} ELSE {announced, 0} :
          outgoing' = [outgoing EXCEPT ![c] = r]
    BY DEF Replies
  <2>. QED BY <2>1, <2>2, TypeFacts
<1>. QED BY <1>1, <1>2, <1>3, <1>4, <1>5, <1>6 DEF Handles, Asked

LEMMA HelloAcceptedKeeps ==
    ASSUME CommInv, NEW c \in Conns, ServerStep(c), HelloAccepted(c)
    PROVE  Keeps(c)
<1>1. /\ Handles(c, "HelloFIUNAM") /\ Consumes(c, "greeted") /\ "greeted" \in Outcomes
      /\ insertSession(c) /\ Replies(c, session_keys_asymetric_map'[c])
  BY DEF HelloAccepted, Outcomes
<1>2. PICK m \in Sent :
        /\ Head(inbox[c]) = m /\ m.from = identity[c]
        /\ Entry(c) = NoKey /\ Key(c) = NoKey /\ Asked(c, "greeting")
        /\ where[c] \in {WaitsFor("greeting")} \cup Gone
  BY <1>1, HandledIsAsked DEF AskedWith
<1>3. session_keys_asymetric_map'[c] \in Nat \ {0}
  BY <1>1, TypeFacts DEF insertSession, insert
<1>4. /\ inbox'[c] = <<>> /\ outcome'[c] = "greeted" /\ pending'[c] = "write"
      /\ socket[c] = "open" /\ responses'[c] = <<>>
      /\ HasRoom(c) => outgoing'[c] = session_keys_asymetric_map'[c]
      /\ \A d \in Conns \ {c} :
            /\ inbox'[d] = inbox[d] /\ outcome'[d] = outcome[d] /\ pending'[d] = pending[d]
            /\ outgoing'[d] = outgoing[d]
      /\ UNCHANGED <<server, peer, identity, socket, unread, blocked, responses, where,
                     session_keys_symetric, texts, acknowledged>>
  BY <1>1, <1>3, AnsweringFacts
<1>5. heard' = heard
  BY <1>4, ServerStepFacts
<1>6. \A d \in Conns \ {c} : session_keys_symetric_map'[d] = session_keys_symetric_map[d]
  BY <1>1, TypeFacts DEF insertSession, insert
<1>7. \A d \in Conns \ {c} : Same(d)
  BY <1>4, <1>5, <1>6 DEF Same
<1>8. peer[c] = "open" => HasRoom(c)
  <2>1. server = "running" /\ socket[c] = "open"
    BY <1>1 DEF Handles, Ready
  <2>2. peer[c] = "open" => unread[c] = Len(responses[c]) /\ responses[c] = <<>>
    BY <1>2, <2>1 DEF CommInv, Conv, Connection, Asked
  <2>3. Len(<<>>) = 0
    OBVIOUS
  <2>. QED BY <2>2, <2>3, CommAssumption DEF HasRoom
<1>9. BeingAnswered(c, "greeting")'
  <2>1. session_keys_asymetric_map[c] = 0
    BY <1>2 DEF CommInv, ServerInv, SessionMapsAgree, Entry
  <2>2. session_keys_asymetric_map'[c] = generated + 1
    BY <1>1, <2>1, TypeFacts DEF insertSession, insert
  <2>3. Entry(c)' = [own |-> generated + 1, peer |-> identity[c].keys]
    BY <1>1, <1>2, TypeFacts DEF insertSession, insert, Sender, Entry
  <2>4. peer'[c] = "open" => Entry(c)' = [own |-> outgoing'[c], peer |-> identity'[c].keys]
    BY <1>4, <1>8, <2>2, <2>3
  <2>. QED BY <1>2, <1>4, <2>4 DEF BeingAnswered, Key
<1>10. ~Agreed(c)
  BY <1>2 DEF Agreed
<1>11. Counts(c)' /\ heard' \in [Conns -> Nat]
  BY <1>4, <1>5 DEF Counts, CommInv, Conv, ProgramTypes
<1>. QED BY <1>2, <1>4, <1>7, <1>9, <1>10, <1>11, HandlesKeeps DEF Exchanges

LEMMA AgreeParamsAcceptedKeeps ==
    ASSUME CommInv, NEW c \in Conns, ServerStep(c), AgreeParamsAccepted(c)
    PROVE  Keeps(c)
<1>1. /\ Handles(c, "AgreeParams") /\ Consumes(c, "agreed") /\ "agreed" \in Outcomes
      /\ Replies(c, 0) /\ UNCHANGED keyVars
  BY DEF AgreeParamsAccepted, Outcomes
<1>2. Asked(c, "start") /\ where[c] \in {WaitsFor("start")} \cup Gone
  BY <1>1, HandledIsAsked DEF AskedWith
<1>4. /\ inbox'[c] = <<>> /\ outcome'[c] = "agreed" /\ pending'[c] = "write"
      /\ socket[c] = "open" /\ responses'[c] = <<>>
      /\ \A d \in Conns \ {c} :
            /\ inbox'[d] = inbox[d] /\ outcome'[d] = outcome[d] /\ pending'[d] = pending[d]
            /\ outgoing'[d] = outgoing[d]
      /\ UNCHANGED <<server, peer, identity, socket, unread, blocked, responses, where,
                     session_keys_symetric, texts, acknowledged>>
  BY <1>1, AnsweringFacts
<1>5. heard' = heard /\ session_keys_symetric_map' = session_keys_symetric_map
  BY <1>1, <1>4, ServerStepFacts DEF keyVars
<1>7. \A d \in Conns \ {c} : Same(d)
  BY <1>4, <1>5 DEF Same
<1>9. BeingAnswered(c, "start")'
  BY <1>4 DEF BeingAnswered
<1>10. Agreed(c) => Agreed(c)'
  BY <1>4, <1>5 DEF Agreed, Key, Entry
<1>11. Counts(c)' /\ heard' \in [Conns -> Nat]
  BY <1>4, <1>5 DEF Counts, CommInv, Conv, ProgramTypes
<1>. QED BY <1>2, <1>4, <1>7, <1>9, <1>10, <1>11, HandlesKeeps DEF Exchanges

\* A text is heard while its sender waits for the answer.
LEMMA SimpleAnsweredFacts ==
    ASSUME CommInv, NEW c \in Conns, ServerStep(c), SimpleAnswered(c)
    PROVE  /\ Asked(c, "answer") /\ where[c] \in {WaitsFor("answer")} \cup Gone
           /\ Agreed(c) /\ Entry(c) = Key(c) /\ heard[c] < texts[c]
           /\ heard' = [heard EXCEPT ![c] = @ + 1]
           /\ UNCHANGED <<session_keys_symetric_map, session_keys_symetric, texts, acknowledged>>
<1>1. /\ Handles(c, "simple_message") /\ Consumes(c, "answered") /\ "answered" \in Outcomes
      /\ Replies(c, 0) /\ UNCHANGED keyVars
  BY DEF SimpleAnswered, Outcomes
<1>2. /\ Asked(c, "answer") /\ where[c] \in {WaitsFor("answer")} \cup Gone
      /\ Agreed(c) /\ heard[c] < texts[c]
  BY <1>1, HandledIsAsked DEF AskedWith
<1>3. outcome'[c] = "answered" /\ inbox'[c] = <<>> /\ inbox[c] # <<>>
      /\ UNCHANGED <<session_keys_symetric, texts, acknowledged>>
  BY <1>1, AnsweringFacts DEF Handles
<1>4. inbox'[c] # inbox[c]
  BY <1>3
<1>. QED BY <1>1, <1>2, <1>3, <1>4 DEF ServerStep, Handles, Agreed, keyVars

LEMMA SimpleAnsweredKeeps ==
    ASSUME CommInv, NEW c \in Conns, ServerStep(c), SimpleAnswered(c)
    PROVE  Keeps(c)
<1>1. /\ Handles(c, "simple_message") /\ Consumes(c, "answered") /\ "answered" \in Outcomes
      /\ Replies(c, 0)
  BY DEF SimpleAnswered, Outcomes
<1>2. /\ Asked(c, "answer") /\ where[c] \in {WaitsFor("answer")} \cup Gone
      /\ Agreed(c) /\ heard[c] < texts[c]
      /\ heard' = [heard EXCEPT ![c] = @ + 1]
      /\ UNCHANGED <<session_keys_symetric_map, session_keys_symetric, texts, acknowledged>>
  BY SimpleAnsweredFacts
<1>4. /\ inbox'[c] = <<>> /\ outcome'[c] = "answered" /\ pending'[c] = "write"
      /\ socket[c] = "open" /\ responses'[c] = <<>>
      /\ \A d \in Conns \ {c} :
            /\ inbox'[d] = inbox[d] /\ outcome'[d] = outcome[d] /\ pending'[d] = pending[d]
            /\ outgoing'[d] = outgoing[d]
      /\ UNCHANGED <<server, peer, identity, socket, unread, blocked, responses, where>>
  BY <1>1, AnsweringFacts
<1>5. /\ heard \in [Conns -> Nat] /\ texts[c] \in Nat /\ acknowledged[c] \in Nat
      /\ acknowledged[c] <= heard[c] /\ heard[c] <= texts[c] /\ texts[c] <= acknowledged[c] + 1
  BY DEF CommInv, Conv, Counts, ProgramTypes
<1>6. /\ heard' \in [Conns -> Nat] /\ heard'[c] = heard[c] + 1
      /\ \A d \in Conns \ {c} : heard'[d] = heard[d]
  BY ONLY <1>2, <1>5, c \in Conns
<1>7. \A d \in Conns \ {c} : Same(d)
  BY <1>2, <1>4, <1>6 DEF Same
<1>8. /\ acknowledged[c] < heard'[c] /\ acknowledged[c] <= heard'[c] /\ heard'[c] <= texts[c]
  BY ONLY <1>2, <1>5, <1>6
<1>9. Agreed(c)'
  BY <1>2, <1>4 DEF Agreed, Key, Entry
<1>10. BeingAnswered(c, "answer")'
  BY <1>2, <1>4, <1>8, <1>9 DEF BeingAnswered
<1>11. Counts(c)'
  BY <1>2, <1>5, <1>8 DEF Counts
<1>. QED BY <1>2, <1>4, <1>6, <1>7, <1>9, <1>10, <1>11, HandlesKeeps DEF Exchanges

\* A connection that is not accepted yet: at most a greeting is on its way, and
\* nobody has a key.
LEMMA AcceptKeeps ==
    ASSUME CommInv, NEW c \in Conns, ServerStep(c), Accept(c)
    PROVE  Keeps(c)
<1>1. /\ socket[c] = "backlog"
      /\ socket' = [socket EXCEPT ![c] = "open"] /\ pending' = [pending EXCEPT ![c] = "read"]
      /\ UNCHANGED <<server, peer, inbox, unread, outgoing, blocked,
                     session_keys_symetric_map, outcome>>
  BY DEF Accept, handle_client, keyVars
<1>2. UNCHANGED <<identity, where, session_keys_symetric, texts, acknowledged, responses, heard>>
  BY <1>1, ServerStepFacts
<1>3. /\ socket'[c] = "open" /\ pending'[c] = "read"
      /\ \A d \in Conns \ {c} : socket'[d] = socket[d] /\ pending'[d] = pending[d]
  BY <1>1, TypeFacts
<1>4. \A d \in Conns \ {c} : Same(d)
  BY <1>1, <1>2, <1>3 DEF Same
<1>5. responses[c] = <<>> /\ Key(c) = NoKey /\ pending[c] # "write"
  BY <1>1 DEF CommInv, Conv, Connection, ServerInv, OperationsOnOpenSockets
<1>6. ~Agreed(c)
  BY <1>5 DEF Agreed
<1>7. Flow(c)'
  <2>1. CASE Quiet(c)
    BY <1>1, <1>2, <1>3, <2>1 DEF Quiet, Flow
  <2>2. CASE ~Quiet(c)
    <3>1. PICK k \in Exchanges : UnderWay(c, k) /\ where[c] \in {WaitsFor(k)} \cup Gone
      BY <2>2 DEF CommInv, Conv, Flow
    <3>2. Asked(c, k)
      BY <1>5, <3>1 DEF UnderWay, BeingAnswered, Answered
    <3>3. Asked(c, k)'
      BY <1>1, <1>2, <1>3, <1>6, <3>2 DEF Asked, AskedWith, Key, Entry
    <3>. QED BY <1>2, <3>1, <3>3 DEF Flow, UnderWay
  <2>. QED BY <2>1, <2>2
<1>8. Standing(c)'
  BY <1>1, <1>2, <1>6 DEF Standing, Even, Key, Entry, CommInv, Conv
<1>9. Connection(c)' /\ Counts(c)' /\ ProgramTypes'
  BY <1>1, <1>2, <1>3 DEF Connection, Counts, Key, ProgramTypes, CommInv, Conv
<1>. QED BY <1>1, <1>4, <1>7, <1>8, <1>9 DEF Keeps, Conv, ServerGoesOn

\* The session goes only after the program has.
LEMMA ForgetsKeeps ==
    ASSUME CommInv, NEW c \in Conns, ServerStep(c), ReadError(c) \/ WriteError(c)
    PROVE  Keeps(c)
<1>1. peer[c] # "open" /\ socket[c] = "open" /\ Forgets(c)
  BY DEF ReadError, WriteError
<1>2. /\ UNCHANGED <<server, peer, inbox, unread, outgoing, blocked>>
      /\ socket' = [socket EXCEPT ![c] = "closed"] /\ pending' = [pending EXCEPT ![c] = "none"]
      /\ session_keys_symetric_map' = [session_keys_symetric_map EXCEPT ![c] = NoKey]
      /\ outcome' = [outcome EXCEPT ![c] = "disconnected"]
  BY <1>1 DEF Forgets, Closes, erasesSession
<1>3. UNCHANGED <<identity, where, session_keys_symetric, texts, acknowledged, responses, heard>>
  BY <1>2, ServerStepFacts
<1>4. /\ socket'[c] = "closed" /\ pending'[c] = "none" /\ Entry(c)' = NoKey
      /\ \A d \in Conns \ {c} :
            /\ socket'[d] = socket[d] /\ pending'[d] = pending[d] /\ outcome'[d] = outcome[d]
            /\ session_keys_symetric_map'[d] = session_keys_symetric_map[d]
  BY <1>2, TypeFacts DEF Entry
<1>5. \A d \in Conns \ {c} : Same(d)
  BY <1>2, <1>3, <1>4 DEF Same
<1>6. where[c] \in Left
  BY <1>1 DEF CommInv, Conv, Connection
<1>7. Agreed(c) => Agreed(c)'
  BY <1>3, <1>4 DEF Agreed, Key
<1>8. Flow(c)'
  <2>1. CASE Quiet(c)
    BY <1>2, <1>3, <1>4, <2>1 DEF Quiet, Flow
  <2>2. CASE ~Quiet(c)
    <3>1. PICK k \in Exchanges : UnderWay(c, k) /\ where[c] \in {WaitsFor(k)} \cup Gone
      BY <2>2 DEF CommInv, Conv, Flow
    <3>2. Asked(c, k) => Asked(c, k)'
      BY <1>2, <1>3, <1>4, <1>7 DEF Asked, AskedWith, Key
    <3>3. BeingAnswered(c, k) => Quiet(c)'
      BY <1>2, <1>3, <1>4 DEF BeingAnswered, Quiet
    <3>4. Answered(c, k) => Answered(c, k)'
      BY <1>1, <1>2, <1>3, <1>4 DEF Answered, AnsweredWith, Key
    <3>. QED BY <1>3, <3>1, <3>2, <3>3, <3>4 DEF Flow, UnderWay
  <2>. QED BY <2>1, <2>2
<1>9. Standing(c)'
  BY <1>3, <1>6 DEF Standing, Places, Left, Gone
<1>10. Connection(c)' /\ Counts(c)' /\ ProgramTypes'
  BY <1>1, <1>2, <1>3, <1>4, <1>6 DEF Connection, Counts, Key, ProgramTypes, CommInv, Conv
<1>. QED BY <1>2, <1>5, <1>8, <1>9, <1>10 DEF Keeps, Conv, ServerGoesOn

\* The reply arrives, and means what it says.
LEMMA WriteDoneKeeps ==
    ASSUME CommInv, NEW c \in Conns, ServerStep(c), WriteDone(c)
    PROVE  Keeps(c)
<1>1. /\ socket[c] = "open" /\ pending[c] = "write"
      /\ unread' = [unread EXCEPT ![c] = @ + 1]
      /\ outgoing' = [outgoing EXCEPT ![c] = 0]
      /\ pending' = [pending EXCEPT ![c] = "read"]
      /\ UNCHANGED <<server, socket, peer, inbox, blocked, session_keys_symetric_map,
                     outcome>>
  BY DEF WriteDone, handle_client, keyVars
<1>2. PICK k \in Exchanges : BeingAnswered(c, k) /\ where[c] \in {WaitsFor(k)} \cup Gone
  BY <1>1 DEF CommInv, Conv, Flow, Quiet, UnderWay, Asked, Answered
<1>3. /\ unread'[c] = unread[c] + 1 /\ unread[c] \in Nat /\ pending'[c] = "read"
      /\ \A d \in Conns \ {c} :
            /\ unread'[d] = unread[d] /\ pending'[d] = pending[d] /\ outgoing'[d] = outgoing[d]
  BY <1>1, TypeFacts, ConstantFacts
<1>4. UNCHANGED <<identity, where, session_keys_symetric, texts, acknowledged, heard>>
  BY <1>1, ServerStepFacts
<1>5. responses' = [responses EXCEPT ![c] = Append(@, Response(c))]
  <2>1. unread'[c] > unread[c]
    BY <1>3
  <2>. QED BY <2>1 DEF ServerStep
<1>6. responses[c] = <<>> /\ responses \in [Conns -> Seq(Replied)]
  BY <1>2, TypeFacts DEF BeingAnswered, ProgramTypes
<1>7. PICK r \in Replied : r = Response(c) /\ AnsweredWith(c, k, r)
  <2>1. CASE k = "greeting"
    <3>1. /\ outcome'[c] = "greeted" /\ Key(c) = NoKey
          /\ peer[c] = "open" => Entry(c) = [own |-> outgoing[c], peer |-> identity[c].keys]
      BY <1>1, <1>2, <2>1 DEF BeingAnswered
    <3>2. Response(c) = [method |-> "WhatsUpFIUNAM", own |-> outgoing[c], signed |-> TRUE]
      BY <3>1 DEF Response
    <3>3. outgoing[c] \in Nat
      BY TypeFacts
    <3>5. PICK r : r = [method |-> "WhatsUpFIUNAM", own |-> outgoing[c], signed |-> TRUE]
      OBVIOUS
    <3>6. r \in Replied /\ r.method = "WhatsUpFIUNAM" /\ r.signed /\ r.own = outgoing[c]
      BY <3>3, <3>5 DEF Replied
    <3>. QED BY <2>1, <3>1, <3>2, <3>5, <3>6 DEF AnsweredWith
  <2>2. CASE k = "start"
    <3>1. outcome'[c] = "agreed"
      BY <1>1, <1>2, <2>2 DEF BeingAnswered
    <3>2. Response(c) = [method |-> "StartConversation"]
      BY <3>1 DEF Response
    <3>3. PICK r : r = [method |-> "StartConversation"]
      OBVIOUS
    <3>4. r \in Replied /\ r.method = "StartConversation"
      BY <3>3 DEF Replied
    <3>. QED BY <2>2, <3>2, <3>3, <3>4 DEF AnsweredWith
  <2>3. CASE k = "answer"
    <3>1. outcome'[c] = "answered" /\ Agreed(c) /\ acknowledged[c] < heard[c]
      BY <1>1, <1>2, <2>3 DEF BeingAnswered
    <3>2. Response(c) = [method |-> "conn_continue", key |-> Entry(c)]
      BY <3>1 DEF Response
    <3>3. Entry(c) = Key(c) /\ Entry(c) \in SessionKeys \cup {NoKey}
      BY <1>1, <3>1, TypeFacts DEF Agreed, Entry
    <3>4. PICK r : r = [method |-> "conn_continue", key |-> Entry(c)]
      OBVIOUS
    <3>5. r \in Replied /\ r.method = "conn_continue" /\ r.key = Entry(c)
      BY <3>3, <3>4 DEF Replied
    <3>. QED BY <2>3, <3>1, <3>2, <3>3, <3>4, <3>5 DEF AnsweredWith
  <2>. QED BY <2>1, <2>2, <2>3 DEF Exchanges
<1>8. /\ responses'[c] = <<r>> /\ responses' \in [Conns -> Seq(Replied)]
      /\ Len(responses'[c]) = 1
      /\ \A d \in Conns \ {c} : responses'[d] = responses[d]
  <2>1. <<r>> \in Seq(Replied) /\ Len(<<r>>) = 1 /\ Append(<<>>, r) = <<r>>
    BY <1>7
  <2>. QED BY ONLY <1>5, <1>6, <1>7, <2>1, c \in Conns
<1>9. Answered(c, k)'
  <2>1. AnsweredWith(c, k, r)'
    BY <1>1, <1>4, <1>7 DEF AnsweredWith, Key, Entry
  <2>2. pending'[c] # "write" /\ inbox'[c] = <<>>
    BY <1>1, <1>2, <1>3 DEF BeingAnswered
  <2>. QED BY <1>7, <1>8, <2>1, <2>2 DEF Answered
<1>10. Flow(c)'
  BY <1>2, <1>4, <1>9 DEF Flow, UnderWay
<1>11. \A d \in Conns \ {c} : Same(d)
  BY <1>1, <1>3, <1>4, <1>8 DEF Same
<1>12. Standing(c)' /\ Counts(c)'
  BY <1>1, <1>4 DEF Standing, Counts, Agreed, Even, Key, Entry, CommInv, Conv
<1>13. Connection(c)'
  <2>1. server = "running" /\ peer[c] = "open" => unread[c] = Len(responses[c])
    BY <1>1 DEF CommInv, Conv, Connection
  <2>2. Len(<<>>) = 0
    OBVIOUS
  <2>3. server' = "running" /\ peer'[c] = "open" => unread'[c] = Len(responses'[c])
    BY <1>1, <1>3, <1>6, <1>8, <2>1, <2>2
  <2>. QED BY <1>1, <1>4, <2>3 DEF CommInv, Conv, Connection
<1>14. ProgramTypes'
  BY <1>4, <1>8 DEF CommInv, ProgramTypes
<1>. QED BY <1>1, <1>10, <1>11, <1>12, <1>13, <1>14 DEF Keeps, Conv, ServerGoesOn

LEMMA ServerStepKeeps ==
    ASSUME CommInv, NEW c \in Conns, ServerStep(c)
    PROVE  Keeps(c)
BY IoKinds, AcceptKeeps, RefusedHelloKeeps, HelloAcceptedKeeps, AgreeParamsAcceptedKeeps,
   SimpleAnsweredKeeps, ForgetsKeeps, WriteDoneKeeps, ServerStepFacts

-----------------------------------------------------------------------------
\* Steps of a client.

\* What a step of a client never touches.
ServerUntouched ==
    UNCHANGED <<server, blocked, identity, pending, outgoing, outcome, session_keys_symetric_map,
                heard>>

\* A program on its way to its end takes nothing and sends nothing; its
\* connection is closed with it, by a reset only if there was something to read.
LEMMA GoesKeeps ==
    ASSUME CommInv, NEW c \in Conns, NEW to \in Gone, C!Goes(c, to),
           ServerUntouched,
           UNCHANGED <<socket, inbox, unread, session_keys_symetric, responses, texts,
                       acknowledged>>,
           where[c] \notin {"start"} \cup Left,
           \A d \in Conns \ {c} : peer'[d] = peer[d],
           \/ peer'[c] = peer[c]
           \/ to \in Left /\ peer'[c] = (IF responses[c] = <<>> THEN "eof" ELSE "reset")
    PROVE  Keeps(c)
<1>1. /\ where'[c] = to /\ \A d \in Conns \ {c} : where'[d] = where[d]
      /\ where' \in [Conns -> Places]
  <2>1. where \in [Conns -> Places]
    BY DEF CommInv, ProgramTypes
  <2>2. to \in Places
    BY DEF Places
  <2>3. where' = [where EXCEPT ![c] = to]
    BY DEF C!Goes
  <2>. QED BY ONLY <2>1, <2>2, <2>3, c \in Conns
<1>2. \A d \in Conns \ {c} : Same(d)
  BY <1>1 DEF Same, ServerUntouched
<1>3. Agreed(c)' <=> Agreed(c)
  BY DEF Agreed, Key, Entry, ServerUntouched
<1>4. peer'[c] = "open" => peer[c] = "open"
  OBVIOUS
<1>5. Flow(c)'
  <2>1. Quiet(c) => Quiet(c)'
    BY DEF Quiet, ServerUntouched
  <2>2. ASSUME NEW k, UnderWay(c, k) PROVE UnderWay(c, k)'
    <3>1. Asked(c, k) => Asked(c, k)'
      BY <1>3 DEF Asked, AskedWith, Key, Entry, ServerUntouched
    <3>2. BeingAnswered(c, k) => BeingAnswered(c, k)'
      BY <1>3, <1>4 DEF BeingAnswered, Key, Entry, ServerUntouched
    <3>3. Answered(c, k) => Answered(c, k)'
      BY <1>4 DEF Answered, AnsweredWith, Key, Entry, ServerUntouched
    <3>. QED BY <2>2, <3>1, <3>2, <3>3 DEF UnderWay
  <2>3. ASSUME NEW k \in Exchanges, UnderWay(c, k) PROVE Flow(c)'
    BY <1>1, <2>2, <2>3 DEF Flow
  <2>. QED BY <2>1, <2>3 DEF CommInv, Conv, Flow
<1>6. Standing(c)'
  BY <1>1 DEF Standing, Places, Gone, Left
<1>7. Counts(c)'
  BY DEF Counts, CommInv, Conv, ServerUntouched
<1>8. Connection(c)'
  <2>1. where[c] \notin Left => peer[c] = "open"
    BY DEF CommInv, Conv, Connection
  <2>2. where'[c] \notin Left => peer'[c] = "open"
    BY <1>1, <2>1
  <2>. QED BY <1>4, <2>2 DEF CommInv, Conv, Connection, Key, ServerUntouched
<1>9. ProgramTypes'
  BY <1>1 DEF CommInv, ProgramTypes, ServerUntouched
<1>. QED BY <1>2, <1>5, <1>6, <1>7, <1>8, <1>9 DEF Keeps, Conv, ServerGoesOn, ServerUntouched

\* The constructor, whether or not it finds a server.
LEMMA ConstructsKeeps ==
    ASSUME CommInv, NEW c \in Conns, C!Constructs(c), ServerUntouched,
           UNCHANGED <<peer, inbox, unread>>,
           socket' = socket \/ (socket[c] = "unused" /\ socket' = [socket EXCEPT ![c] = "backlog"])
    PROVE  Keeps(c)
<1>1. /\ where[c] = "start" /\ where' = [where EXCEPT ![c] = "hello"]
      /\ UNCHANGED <<session_keys_symetric, responses, texts, acknowledged>>
  BY DEF C!Constructs, C!Goes
<1>2. /\ where'[c] = "hello" /\ \A d \in Conns \ {c} : where'[d] = where[d]
      /\ where' \in [Conns -> Places]
  <2>1. where \in [Conns -> Places]
    BY DEF CommInv, ProgramTypes
  <2>2. "hello" \in Places
    BY DEF Places
  <2>. QED BY ONLY <1>1, <2>1, <2>2, c \in Conns
<1>3. /\ \A d \in Conns \ {c} : socket'[d] = socket[d]
      /\ socket'[c] = socket[c] \/ (socket[c] = "unused" /\ socket'[c] = "backlog")
  BY TypeFacts
<1>4. \A d \in Conns \ {c} : Same(d)
  BY <1>1, <1>2, <1>3 DEF Same, ServerUntouched
<1>5. Quiet(c)
  BY <1>1 DEF CommInv, Conv, Flow, WaitsFor, Exchanges, Gone, Left
<1>6. Flow(c)'
  BY <1>1, <1>5 DEF Flow, Quiet, ServerUntouched
<1>7. Standing(c)'
  BY <1>1, <1>2 DEF Standing, Even, Key, Entry, CommInv, Conv, ServerUntouched, Places, Gone, Left
<1>8. Counts(c)'
  BY <1>1 DEF Counts, CommInv, Conv, ServerUntouched
<1>9. Connection(c)'
  BY <1>1, <1>3 DEF CommInv, Conv, Connection, Key, ServerUntouched, Left
<1>10. ProgramTypes'
  BY <1>1, <1>2 DEF CommInv, ProgramTypes, ServerUntouched
<1>. QED BY <1>4, <1>6, <1>7, <1>8, <1>9, <1>10 DEF Keeps, Conv, ServerGoesOn, ServerUntouched

LEMMA ClientConnectsKeeps ==
    ASSUME CommInv, NEW c \in Conns, ClientConnects(c) \/ ClientFindsNoServer(c)
    PROVE  Keeps(c)
<1>1. C!Constructs(c)
  BY DEF ClientConnects, ClientFindsNoServer, C!Connect, C!ConnectFails
<1>2. ServerUntouched /\ UNCHANGED <<peer, inbox, unread>>
  BY DEF ClientConnects, ClientFindsNoServer, PeerConnect, PeerVars, ServerUntouched, vars, netVars,
         ioVars, keyVars, C!Connect, C!ConnectFails, C!Constructs
<1>3. socket' = socket \/ (socket[c] = "unused" /\ socket' = [socket EXCEPT ![c] = "backlog"])
  <2>1. CASE ClientConnects(c)
    BY <2>1 DEF ClientConnects, PeerConnect
  <2>2. CASE ClientFindsNoServer(c)
    BY ONLY <2>2 DEF ClientFindsNoServer, vars, netVars
  <2>. QED BY <2>1, <2>2
<1>. QED BY <1>1, <1>2, <1>3, ConstructsKeeps

LEMMA ClientEndsKeeps ==
    ASSUME CommInv, NEW c \in Conns,
           ClientThinks(c) \/ ClientIdles(c) \/ ClientEnds(c) \/ ClientKilled(c)
    PROVE  Keeps(c)
<1>1. CASE ClientThinks(c) \/ ClientIdles(c)
  <2>1. /\ UNCHANGED vars /\ heard' = heard
        /\ UNCHANGED <<identity, session_keys_symetric, responses, texts, acknowledged>>
        /\ \E to \in Gone : C!Goes(c, to)
        /\ where[c] \notin {"start"} \cup Left
    BY <1>1 DEF ClientThinks, ClientIdles, C!Thinks, C!Inputs, C!ReceiveFails, C!StopSocket,
                C!EndOfInput, C!TextWithoutKey, C!Moves, C!netVars, C!Awaiting, C!Greeting, Gone, Left
  <2>2. PICK to \in Gone : C!Goes(c, to)
    BY <2>1
  <2>3. /\ ServerUntouched /\ UNCHANGED <<socket, inbox, unread>>
        /\ peer'[c] = peer[c] /\ \A d \in Conns \ {c} : peer'[d] = peer[d]
    BY <2>1 DEF ServerUntouched, vars, netVars, ioVars, keyVars
  <2>. QED BY ONLY CommInv, c \in Conns, <2>1, <2>2, <2>3, GoesKeeps
<1>2. CASE ClientEnds(c) \/ ClientKilled(c)
  <2>1. /\ Leaves(c) /\ heard' = heard
        /\ UNCHANGED <<identity, session_keys_symetric, responses, texts, acknowledged>>
        /\ \E to \in Left : C!Goes(c, to)
        /\ where[c] \notin {"start"} \cup Left
    BY <1>2 DEF ClientEnds, ClientKilled, C!Ends, C!Killed, C!Abort, C!Destroy, C!Moves,
                C!netVars, C!Ended, Left
  <2>2. PICK to \in Left : C!Goes(c, to)
    BY <2>1
  <2>3. ServerUntouched /\ UNCHANGED <<socket, inbox, unread>>
    BY <2>1 DEF Leaves, PeerLeave, PeerVars, ServerUntouched, vars, netVars, ioVars, keyVars
  <2>4. \A d \in Conns \ {c} : peer'[d] = peer[d]
    BY <2>1, TypeFacts DEF Leaves, PeerLeave, vars, netVars
  <2>5. peer'[c] = peer[c] \/ peer'[c] = (IF responses[c] = <<>> THEN "eof" ELSE "reset")
    BY <2>1 DEF Leaves, vars, netVars
  <2>6. to \in Gone
    BY <2>2 DEF Gone
  <2>. QED BY ONLY CommInv, c \in Conns, <2>1, <2>2, <2>3, <2>4, <2>5, <2>6, GoesKeeps
<1>. QED BY <1>1, <1>2

\* A program that speaks has nothing under way, and what it sends is lost or lies
\* there alone.
LEMMA SendsFacts ==
    ASSUME CommInv, NEW c \in Conns, NEW m, NEW to, Carries(c), C!Sends(c, m, to),
           where[c] \in {"hello", "agree", "chat"}, heard' = heard
    PROVE  /\ Quiet(c) /\ ServerUntouched
           /\ UNCHANGED <<socket, peer, unread, session_keys_symetric, responses, acknowledged>>
           /\ where' = [where EXCEPT ![c] = to]
           /\ \A d \in Conns \ {c} : inbox'[d] = inbox[d]
           /\ inbox' = inbox \/ (m \in Sent /\ inbox'[c] = <<m>> /\ pending[c] # "write")
<1>1. Quiet(c)
  BY DEF CommInv, Conv, Flow, WaitsFor, Exchanges, Gone, Left
<1>2. /\ UNCHANGED <<identity, session_keys_symetric, responses, acknowledged>>
      /\ where' = [where EXCEPT ![c] = to]
      /\ inbox' = IF Stream[c] = "open" THEN [inbox EXCEPT ![c] = Append(@, m)] ELSE inbox
  BY DEF C!Sends, C!Goes
<1>3. ServerUntouched /\ UNCHANGED <<socket, peer, unread>>
  BY <1>2 DEF Carries, PeerSend, PeerVars, ServerUntouched, vars, netVars, ioVars, keyVars
<1>4. inbox \in [Conns -> Seq(Sent)]
  BY TypeFacts
<1>5. \A d \in Conns \ {c} : inbox'[d] = inbox[d]
  BY ONLY <1>2, <1>4
<1>6. inbox' = inbox \/ (m \in Sent /\ inbox'[c] = <<m>> /\ pending[c] # "write")
  <2>1. CASE ~Connected(c)
    BY <2>1 DEF Carries, vars, netVars
  <2>2. CASE Connected(c) /\ inbox' # inbox
    <3>1. inbox' = [inbox EXCEPT ![c] = Append(@, m)]
      BY <1>2, <2>2
    <3>2. PICK n \in Messages \cup SimpleMessages(c) : inbox' = [inbox EXCEPT ![c] = Append(@, n)]
      BY <2>2 DEF Carries, PeerSend
    <3>3. inbox[c] = <<>> /\ Append(<<>>, m) = <<m>> /\ Append(<<>>, n) = <<n>> /\ <<n>>[1] = n
          /\ <<m>>[1] = m
      BY <1>1 DEF Quiet
    <3>4. inbox'[c] = <<m>> /\ inbox'[c] = <<n>>
      BY ONLY <1>4, <3>1, <3>2, <3>3, c \in Conns
    <3>5. m = n
      BY ONLY <3>3, <3>4
    <3>6. inbox' \in [Conns -> Seq(Sent)]
      <4>1. [Next]_vars
        BY <2>2 DEF Carries, Next, Peer
      <4>. QED BY <4>1, InboxStep DEF CommInv, ServerInv
    <3>7. <<m>> \in Seq(Sent) /\ <<m>>[1] = m /\ Len(<<m>>) = 1
      BY ONLY <3>4, <3>6, c \in Conns
    <3>8. m \in Sent
      BY ONLY <3>7
    <3>. QED BY <1>1, <3>4, <3>8 DEF Quiet
  <2>. QED BY <2>1, <2>2
<1>. QED BY <1>1, <1>2, <1>3, <1>5, <1>6

\* It then waits for the end of the exchange it has begun.
LEMMA SpeaksKeeps ==
    ASSUME CommInv, NEW c \in Conns, NEW k \in Exchanges, NEW m, Carries(c),
           C!Sends(c, m, WaitsFor(k)), where[c] \in {"hello", "agree", "chat"}, heard' = heard,
           texts' \in [Conns -> Nat], \A d \in Conns \ {c} : texts'[d] = texts[d],
           k # "answer" => texts' = texts,
           Counts(c)', AskedWith(c, k, m)',
           k # "greeting" => Agreed(c)
    PROVE  Keeps(c)
<1>1. /\ Quiet(c) /\ ServerUntouched
      /\ UNCHANGED <<socket, peer, unread, session_keys_symetric, responses, acknowledged>>
      /\ where' = [where EXCEPT ![c] = WaitsFor(k)]
      /\ \A d \in Conns \ {c} : inbox'[d] = inbox[d]
      /\ inbox' = inbox \/ (m \in Sent /\ inbox'[c] = <<m>> /\ pending[c] # "write")
  BY SendsFacts
<1>2. /\ where'[c] = WaitsFor(k) /\ \A d \in Conns \ {c} : where'[d] = where[d]
      /\ where' \in [Conns -> Places]
  <2>1. where \in [Conns -> Places]
    BY DEF CommInv, ProgramTypes
  <2>2. WaitsFor(k) \in Places
    BY DEF WaitsFor, Exchanges, Places
  <2>. QED BY ONLY <1>1, <2>1, <2>2, c \in Conns
<1>3. \A d \in Conns \ {c} : Same(d)
  BY <1>1, <1>2 DEF Same, ServerUntouched
<1>4. Agreed(c)' <=> Agreed(c)
  BY <1>1 DEF Agreed, Key, Entry, ServerUntouched
<1>5. Flow(c)'
  <2>1. CASE inbox' = inbox
    BY <1>1, <2>1 DEF Flow, Quiet, ServerUntouched
  <2>2. CASE m \in Sent /\ inbox'[c] = <<m>> /\ pending[c] # "write"
    <3>1. pending'[c] # "write" /\ responses'[c] = <<>>
      BY <1>1, <2>2 DEF Quiet, ServerUntouched
    <3>2. Asked(c, k)'
      BY <2>2, <3>1 DEF Asked
    <3>. QED BY <1>2, <3>2 DEF Flow, UnderWay
  <2>. QED BY <1>1, <2>1, <2>2
<1>6. where[c] \in {"hello", "agree", "chat"} => Even(c)
  BY DEF CommInv, Conv, Standing, Gone, Left
<1>7. k = "greeting" => Key(c)' = NoKey
  BY DEF AskedWith
<1>8. Standing(c)'
  <2>1. CASE k = "greeting"
    <3>1. where'[c] = "await greeting" /\ texts' = texts
      BY <1>2, <2>1 DEF WaitsFor
    <3>. QED BY <1>1, <1>6, <1>7, <2>1, <3>1 DEF Standing, Places, Even, Gone, Left
  <2>2. CASE k = "start"
    <3>1. where'[c] = "await start" /\ texts' = texts
      BY <1>2, <2>2 DEF WaitsFor
    <3>. QED BY <1>1, <1>4, <1>6, <2>2, <3>1 DEF Standing, Places, Even, Gone, Left
  <2>3. CASE k = "answer"
    <3>1. where'[c] = "await answer"
      BY <1>2, <2>3 DEF WaitsFor
    <3>. QED BY <1>4, <2>3, <3>1 DEF Standing, Places, Gone, Left
  <2>. QED BY <2>1, <2>2, <2>3 DEF Exchanges
<1>9. Connection(c)'
  BY <1>1 DEF CommInv, Conv, Connection, Key, Gone, Left, ServerUntouched
<1>10. ProgramTypes'
  BY <1>1, <1>2 DEF CommInv, ProgramTypes, ServerUntouched
<1>. QED BY <1>1, <1>3, <1>5, <1>8, <1>9, <1>10 DEF Keeps, Conv, ServerGoesOn, ServerUntouched

LEMMA ClientSpeaksKeeps ==
    ASSUME CommInv, NEW c \in Conns, ClientSpeaks(c)
    PROVE  Keeps(c)
<1>1. Carries(c) /\ heard' = heard /\ C!Speaks(c)
  BY DEF ClientSpeaks
<1>2. where[c] \in Places
  BY DEF CommInv, Conv, Standing
<1>3. CASE C!SayHello(c)
  <2>1. where[c] = "hello"
    BY <1>2, <1>3 DEF C!SayHello, Places, Gone, Left
  <2>2. PICK n \in Nonces \ drawn[c] :
          C!Sends(c, [method |-> "HelloFIUNAM", from |-> identity[c], nounce |-> n,
                      auth_token |-> "", signed |-> intact[c]], "await greeting")
    BY <1>3, <2>1 DEF C!SayHello
  <2>3. PICK m : m = [method |-> "HelloFIUNAM", from |-> identity[c], nounce |-> n,
                     auth_token |-> "", signed |-> intact[c]]
    OBVIOUS
  <2>4. texts' = texts
    BY <1>3 DEF C!SayHello
  <2>5. C!Sends(c, m, WaitsFor("greeting")) /\ m.method = "HelloFIUNAM" /\ m.from = identity[c]
    BY <2>2, <2>3 DEF WaitsFor
  <2>6. /\ ServerUntouched /\ UNCHANGED <<session_keys_symetric, acknowledged>>
    BY <1>1, <2>1, <2>5, SendsFacts
  <2>7. Entry(c) = NoKey /\ Key(c) = NoKey
    BY <2>1 DEF CommInv, Conv, Standing
  <2>8. AskedWith(c, "greeting", m)'
    BY <2>5, <2>6, <2>7 DEF AskedWith, Key, Entry, ServerUntouched
  <2>9. Counts(c)' /\ texts' \in [Conns -> Nat]
    BY <2>4, <2>6 DEF Counts, CommInv, Conv, ProgramTypes, ServerUntouched
  <2>. QED BY <1>1, <2>1, <2>4, <2>5, <2>8, <2>9, SpeaksKeeps DEF Exchanges
<1>4. CASE C!AgreeParams(c)
  <2>1. where[c] = "agree" /\ texts' = texts
        /\ C!Sends(c, [method |-> "AgreeParams", algorithm |-> "ChaCha20"], "await start")
    BY <1>4 DEF C!AgreeParams
  <2>2. PICK m : m = [method |-> "AgreeParams", algorithm |-> "ChaCha20"]
    OBVIOUS
  <2>3. C!Sends(c, m, WaitsFor("start")) /\ m.method = "AgreeParams" /\ m.algorithm = "ChaCha20"
    BY <2>1, <2>2 DEF WaitsFor
  <2>4. /\ ServerUntouched /\ UNCHANGED <<session_keys_symetric, acknowledged>>
    BY <1>1, <2>1, <2>3, SendsFacts
  <2>5. AskedWith(c, "start", m)'
    BY <2>3 DEF AskedWith
  <2>6. Counts(c)' /\ texts' \in [Conns -> Nat]
    BY <2>1, <2>4 DEF Counts, CommInv, Conv, ProgramTypes, ServerUntouched
  <2>7. Agreed(c)
    BY <2>1 DEF CommInv, Conv, Standing
  <2>. QED BY <1>1, <2>1, <2>3, <2>5, <2>6, <2>7, SpeaksKeeps DEF Exchanges
<1>5. ~C!RequestRegistration(c)
  BY <1>2 DEF C!RequestRegistration, Places, Gone, Left
<1>. QED BY <1>1, <1>3, <1>4, <1>5 DEF C!Speaks

LEMMA ClientTypesKeeps ==
    ASSUME CommInv, NEW c \in Conns, ClientTypes(c)
    PROVE  Keeps(c)
<1>1. /\ Carries(c) /\ heard' = heard /\ where[c] = "chat"
      /\ C!Sends(c, [method |-> "simple_message", sha256 |-> TRUE,
                     key |-> session_keys_symetric[c]], "await answer")
      /\ texts' = [texts EXCEPT ![c] = @ + 1]
  BY DEF ClientTypes, C!TypeText
<1>2. PICK m : m = [method |-> "simple_message", sha256 |-> TRUE, key |-> session_keys_symetric[c]]
  OBVIOUS
<1>3. C!Sends(c, m, WaitsFor("answer")) /\ m.method = "simple_message" /\ m.sha256 /\ m.key = Key(c)
  BY <1>1, <1>2 DEF WaitsFor, Key
<1>4. /\ ServerUntouched /\ UNCHANGED <<socket, session_keys_symetric, acknowledged>>
  BY <1>1, <1>3, SendsFacts
<1>5. /\ heard[c] \in Nat /\ texts \in [Conns -> Nat] /\ acknowledged[c] \in Nat
      /\ acknowledged[c] <= heard[c] /\ heard[c] <= texts[c] /\ texts[c] = acknowledged[c]
      /\ Agreed(c)
  BY <1>1 DEF CommInv, Conv, Counts, Standing, Even, ProgramTypes, Gone, Left
<1>6. /\ texts'[c] = texts[c] + 1 /\ texts' \in [Conns -> Nat]
      /\ \A d \in Conns \ {c} : texts'[d] = texts[d]
  <2>1. texts' = [texts EXCEPT ![c] = @ + 1] /\ texts \in [Conns -> Nat]
    BY <1>1, <1>5
  <2>. QED BY ONLY <2>1, c \in Conns
<1>7. /\ heard[c] < texts'[c] /\ heard[c] <= texts'[c]
      /\ texts'[c] <= acknowledged[c] + 1
  BY ONLY <1>5, <1>6
<1>8. Counts(c)'
  BY <1>4, <1>5, <1>7 DEF Counts, ServerUntouched
<1>9. Agreed(c)' /\ Key(c)' = Key(c)
  BY <1>4, <1>5 DEF Agreed, Key, Entry, ServerUntouched
<1>10. AskedWith(c, "answer", m)'
  BY <1>3, <1>4, <1>7, <1>9 DEF AskedWith, ServerUntouched
<1>. QED BY <1>1, <1>3, <1>5, <1>6, <1>8, <1>10, SpeaksKeeps DEF Exchanges

\* The answer to what was asked, alone; what is in it is what the program looks for.
LEMMA HearsFacts ==
    ASSUME CommInv, NEW c \in Conns, ClientHears(c)
    PROVE  \E k \in Exchanges, r \in Replied :
              /\ where[c] = WaitsFor(k) /\ Answered(c, k)
              /\ responses[c] = <<r>> /\ AnsweredWith(c, k, r)
              /\ Head(responses[c]) = r
              /\ responses' = [responses EXCEPT ![c] = <<>>]
              /\ ServerUntouched /\ UNCHANGED <<socket, peer, inbox, texts>>
              /\ server = "running" => socket[c] # "unused"
              /\ unread' = (IF Connected(c) THEN [unread EXCEPT ![c] = @ - 1] ELSE unread)
              /\ \/ k = "greeting" /\ C!HearsGreeting(c)
                 \/ k = "start" /\ C!HearsStart(c)
                 \/ k = "answer" /\ C!HearsAnswer(c)
<1>1. where[c] \in {"await greeting", "await start", "await answer"} /\ responses[c] # <<>>
  BY DEF ClientHears, C!Awaiting, C!Greeting, CommInv, Conv, Standing, Places, Gone, Left
<1>2. PICK k \in Exchanges : UnderWay(c, k) /\ where[c] = WaitsFor(k)
  BY <1>1 DEF CommInv, Conv, Flow, Quiet, Gone, Left
<1>3. Answered(c, k)
  BY <1>1, <1>2 DEF UnderWay, Asked, BeingAnswered
<1>4. PICK r \in Replied : responses[c] = <<r>> /\ AnsweredWith(c, k, r)
  BY <1>3 DEF Answered
<1>5. responses[c] \in Seq(Replied) /\ responses \in [Conns -> Seq(Replied)]
  BY TypeFacts DEF ProgramTypes
<1>6. /\ Head(responses[c]) = r /\ responses[c][1] = r
      /\ \A n \in 1..Len(responses[c]) : n = 1 /\ SubSeq(responses[c], n + 1, Len(responses[c])) = <<>>
  BY ONLY <1>4, <1>5, Single
<1>7. r.method \in {"WhatsUpFIUNAM", "conn_continue", "StartConversation", "RegistrationApproved",
                    "RegistrationRejected"}
  BY DEF Replied
<1>8. \/ where[c] = "await greeting" /\ C!HearsGreeting(c)
      \/ where[c] = "await start" /\ C!HearsStart(c)
      \/ where[c] = "await answer" /\ C!HearsAnswer(c)
  <2>1. ~C!HearsRefusal(c)
    <3>1. ASSUME NEW n \in 1..Len(responses[c]) PROVE ~C!Mentions(c, n, "refusal")
      <4>1. n = 1
        BY <1>6
      <4>2. \A i \in 1..1 : i = 1
        OBVIOUS
      <4>3. responses[c][1].method # "refusal"
        BY <1>6, <1>7
      <4>. QED BY <4>1, <4>2, <4>3 DEF C!Mentions
    <3>. QED BY <3>1 DEF C!HearsRefusal
  <2>2. ~C!HearsApproval(c)
    BY <1>1 DEF C!HearsApproval
  <2>3. C!HearsGreeting(c) => where[c] = "await greeting"
    BY <1>1 DEF C!HearsGreeting, C!Greeting
  <2>4. C!HearsStart(c) => where[c] = "await start"
    BY DEF C!HearsStart
  <2>5. C!HearsAnswer(c) => where[c] = "await answer"
    BY DEF C!HearsAnswer
  <2>. QED BY <2>1, <2>2, <2>3, <2>4, <2>5 DEF ClientHears, C!Hears
<1>9. PICK n \in 1..Len(responses[c]) : C!Receives(c, n)
  BY <1>8 DEF C!HearsGreeting, C!HearsStart, C!HearsAnswer
<1>10. responses' = [responses EXCEPT ![c] = <<>>] /\ texts' = texts /\ inbox' = inbox
  <2>1. responses' = [responses EXCEPT ![c] = SubSeq(responses[c], n + 1, Len(responses[c]))]
    BY <1>9 DEF C!Receives
  <2>2. SubSeq(responses[c], n + 1, Len(responses[c])) = <<>>
    BY <1>6
  <2>. QED BY <1>9, <2>1, <2>2 DEF C!Receives
<1>11. /\ ServerUntouched /\ UNCHANGED <<socket, peer>>
       /\ unread' = (IF Connected(c) THEN [unread EXCEPT ![c] = @ - 1] ELSE unread)
  BY <1>9 DEF ClientHears, PeerReceive, PeerVars, ServerUntouched, vars, netVars, ioVars, keyVars,
              C!Receives
<1>12. socket[c] # "unused"
  BY <1>1 DEF CommInv, Conv, Connection
<1>13. \/ k = "greeting" /\ where[c] = "await greeting"
       \/ k = "start" /\ where[c] = "await start"
       \/ k = "answer" /\ where[c] = "await answer"
  BY <1>2 DEF WaitsFor, Exchanges
<1>14. \/ k = "greeting" /\ C!HearsGreeting(c)
       \/ k = "start" /\ C!HearsStart(c)
       \/ k = "answer" /\ C!HearsAnswer(c)
  BY <1>8, <1>13
<1>. QED BY <1>2, <1>3, <1>4, <1>6, <1>10, <1>11, <1>12, <1>14

\* What it makes of the answer, in each place.
LEMMA HearsOutcome ==
    ASSUME CommInv, NEW c \in Conns, ClientHears(c)
    PROVE  /\ where' \in [Conns -> Places] /\ where'[c] \in {"agree", "chat"}
           /\ where[c] \in {"await greeting", "await start", "await answer"}
           /\ \A d \in Conns \ {c} : where'[d] = where[d]
           /\ session_keys_symetric' \in [Conns -> SessionKeys \cup {NoKey}]
           /\ \A d \in Conns \ {c} : session_keys_symetric'[d] = session_keys_symetric[d]
           /\ Agreed(c)'
           /\ \/ /\ Key(c) = NoKey /\ acknowledged' = acknowledged /\ Even(c)
                 /\ session_keys_symetric' = [session_keys_symetric EXCEPT ![c] = Key(c)']
                 /\ peer[c] = "open" => Key(c)' = Entry(c)
              \/ session_keys_symetric' = session_keys_symetric /\ acknowledged' = acknowledged /\ Even(c)
              \/ /\ session_keys_symetric' = session_keys_symetric
                 /\ acknowledged' = [acknowledged EXCEPT ![c] = @ + 1]
                 /\ acknowledged[c] < heard[c]
<1>1. PICK k \in Exchanges, r \in Replied :
              /\ where[c] = WaitsFor(k)
              /\ AnsweredWith(c, k, r) /\ Head(responses[c]) = r
              /\ ServerUntouched /\ UNCHANGED <<socket, peer>>
              /\ \/ k = "greeting" /\ C!HearsGreeting(c)
                 \/ k = "start" /\ C!HearsStart(c)
                 \/ k = "answer" /\ C!HearsAnswer(c)
  BY HearsFacts
<1>2. /\ where \in [Conns -> Places]
      /\ session_keys_symetric \in [Conns -> SessionKeys \cup {NoKey}]
      /\ NoKey \notin SessionKeys
      /\ peer[c] = "open" /\ where[c] \in {"await greeting", "await start", "await answer"}
      /\ "agree" \in Places /\ "chat" \in Places
  BY <1>1, ConstantFacts DEF CommInv, Conv, Connection, ProgramTypes, Places, Gone, Left, WaitsFor,
     Exchanges
<1>3. CASE k = "greeting"
  <2>1. C!HearsGreeting(c) /\ where[c] = "await greeting"
    BY <1>1, <1>3 DEF WaitsFor
  <2>2. /\ r.method = "WhatsUpFIUNAM" /\ r.signed /\ Key(c) = NoKey
        /\ Entry(c) = [own |-> r.own, peer |-> identity[c].keys]
    BY <1>1, <1>2, <1>3 DEF AnsweredWith
  <2>3. ~C!Throws(c, r) /\ C!Valid(c, r)
    BY <2>2 DEF C!Throws, C!Valid
  <2>4. /\ where' = [where EXCEPT ![c] = "agree"]
        /\ session_keys_symetric' =
              [session_keys_symetric EXCEPT ![c] = [own |-> r.own, peer |-> identity[c].keys]]
        /\ acknowledged' = acknowledged
    BY <1>1, <2>1, <2>2, <2>3
    DEF C!HearsGreeting, C!is_valid_response_from_server, C!Goes, C!Derived
  <2>5. Entry(c) \in SessionKeys
    <3>1. identity[c].keys \in Keys
      BY TypeFacts, ConstantFacts
    <3>2. r.own \in Nat
      BY <2>2 DEF Replied
    <3>. QED BY <2>2, <3>1, <3>2 DEF SessionKeys
  <2>6. session_keys_symetric' = [session_keys_symetric EXCEPT ![c] = Entry(c)]
    BY <2>2, <2>4
  <2>7. /\ where' \in [Conns -> Places] /\ where'[c] = "agree"
        /\ \A d \in Conns \ {c} : where'[d] = where[d]
    BY ONLY <1>2, <2>4, c \in Conns
  <2>8. /\ session_keys_symetric' \in [Conns -> SessionKeys \cup {NoKey}]
        /\ session_keys_symetric'[c] = Entry(c)
        /\ \A d \in Conns \ {c} : session_keys_symetric'[d] = session_keys_symetric[d]
    BY ONLY <1>2, <2>5, <2>6, c \in Conns
  <2>9. Agreed(c)' /\ Key(c)' = Entry(c)
    BY <1>1, <1>2, <2>5, <2>8 DEF Agreed, Key, Entry, ServerUntouched
  <2>10. Even(c)
    BY <2>1 DEF CommInv, Conv, Standing, Gone, Left
  <2>. QED BY <1>2, <2>2, <2>4, <2>6, <2>7, <2>8, <2>9, <2>10
<1>4. CASE k = "start"
  <2>1. C!HearsStart(c) /\ where[c] = "await start" /\ r.method = "StartConversation"
    BY <1>1, <1>4 DEF WaitsFor, AnsweredWith
  <2>2. ~C!Throws(c, r) /\ C!Valid(c, r)
    BY <2>1 DEF C!Throws, C!Valid
  <2>3. /\ where' = [where EXCEPT ![c] = "chat"] /\ UNCHANGED <<session_keys_symetric, acknowledged>>
    BY <1>1, <2>1, <2>2 DEF C!HearsStart, C!is_valid_response_from_server, C!Goes
  <2>4. /\ where' \in [Conns -> Places] /\ where'[c] = "chat"
        /\ \A d \in Conns \ {c} : where'[d] = where[d]
    BY ONLY <1>2, <2>3, c \in Conns
  <2>5. Agreed(c) /\ Even(c)
    BY <2>1 DEF CommInv, Conv, Standing, Gone, Left
  <2>6. Agreed(c)'
    BY <1>1, <2>3, <2>5 DEF Agreed, Key, Entry, ServerUntouched
  <2>. QED BY <1>2, <2>3, <2>4, <2>5, <2>6
<1>5. CASE k = "answer"
  <2>1. /\ C!HearsAnswer(c) /\ where[c] = "await answer" /\ r.method = "conn_continue"
        /\ r.key = Key(c) /\ acknowledged[c] < heard[c]
    BY <1>1, <1>5 DEF WaitsFor, AnsweredWith
  <2>2. Agreed(c) /\ Key(c) # NoKey
    BY <2>1 DEF CommInv, Conv, Standing, Agreed, Gone, Left
  <2>3. ~C!Throws(c, r) /\ C!Valid(c, r)
    BY <2>1, <2>2 DEF C!Throws, C!Valid, Key
  <2>4. /\ where' = [where EXCEPT ![c] = "chat"] /\ UNCHANGED session_keys_symetric
        /\ acknowledged' = IF where'[c] = "chat" THEN [acknowledged EXCEPT ![c] = @ + 1]
                           ELSE acknowledged
    BY <1>1, <2>1, <2>3 DEF C!HearsAnswer, C!is_valid_response_from_server, C!Goes
  <2>5. /\ where' \in [Conns -> Places] /\ where'[c] = "chat"
        /\ \A d \in Conns \ {c} : where'[d] = where[d]
    BY ONLY <1>2, <2>4, c \in Conns
  <2>6. Agreed(c)'
    BY <1>1, <2>2, <2>4 DEF Agreed, Key, Entry, ServerUntouched
  <2>. QED BY <1>2, <2>1, <2>4, <2>5, <2>6
<1>. QED BY <1>3, <1>4, <1>5 DEF Exchanges

LEMMA ClientHearsKeeps ==
    ASSUME CommInv, NEW c \in Conns, ClientHears(c)
    PROVE  Keeps(c)
<1>1. PICK k \in Exchanges, r \in Replied :
              /\ Answered(c, k) /\ responses[c] = <<r>>
              /\ responses' = [responses EXCEPT ![c] = <<>>]
              /\ ServerUntouched /\ UNCHANGED <<socket, peer, inbox, texts>>
              /\ server = "running" => socket[c] # "unused"
              /\ unread' = (IF Connected(c) THEN [unread EXCEPT ![c] = @ - 1] ELSE unread)
  BY HearsFacts
<1>2. /\ where' \in [Conns -> Places] /\ where'[c] \in {"agree", "chat"}
      /\ where[c] \in {"await greeting", "await start", "await answer"}
      /\ \A d \in Conns \ {c} : where'[d] = where[d]
      /\ session_keys_symetric' \in [Conns -> SessionKeys \cup {NoKey}]
      /\ \A d \in Conns \ {c} : session_keys_symetric'[d] = session_keys_symetric[d]
      /\ Agreed(c)'
      /\ \/ acknowledged' = acknowledged /\ Even(c)
         \/ acknowledged' = [acknowledged EXCEPT ![c] = @ + 1] /\ acknowledged[c] < heard[c]
  BY HearsOutcome
<1>3. /\ responses \in [Conns -> Seq(Replied)] /\ acknowledged \in [Conns -> Nat]
      /\ heard[c] \in Nat /\ texts[c] \in Nat /\ unread \in [Conns -> 0..SendRoom]
      /\ acknowledged[c] <= heard[c] /\ heard[c] <= texts[c] /\ texts[c] <= acknowledged[c] + 1
  BY TypeFacts DEF CommInv, Conv, Counts, ProgramTypes
<1>4. /\ responses' \in [Conns -> Seq(Replied)] /\ responses'[c] = <<>>
      /\ \A d \in Conns \ {c} : responses'[d] = responses[d]
  BY <1>1, <1>3
<1>5. /\ acknowledged' \in [Conns -> Nat]
      /\ \A d \in Conns \ {c} : acknowledged'[d] = acknowledged[d]
      /\ texts[c] = acknowledged'[c] /\ acknowledged'[c] <= heard[c]
      /\ texts[c] <= acknowledged'[c] + 1
  <2>1. CASE acknowledged' = acknowledged /\ Even(c)
    BY <1>3, <2>1 DEF Even
  <2>2. CASE acknowledged' = [acknowledged EXCEPT ![c] = @ + 1] /\ acknowledged[c] < heard[c]
    BY ONLY <1>3, <2>2, c \in Conns
  <2>. QED BY <1>2, <2>1, <2>2
<1>6. \A d \in Conns \ {c} : unread'[d] = unread[d]
  BY <1>1, <1>3
<1>7. \A d \in Conns \ {c} : Same(d)
  BY <1>1, <1>2, <1>4, <1>5, <1>6 DEF Same, ServerUntouched
<1>8. Quiet(c)'
  BY <1>1, <1>4 DEF Quiet, Answered, ServerUntouched
<1>9. Standing(c)'
  BY <1>1, <1>2, <1>5 DEF Standing, Places, Even, Gone, Left
<1>10. Counts(c)'
  BY <1>1, <1>3, <1>5 DEF Counts, ServerUntouched
<1>11. Connection(c)'
  <2>1. peer[c] = "open" /\ where[c] \notin Left
    BY <1>2 DEF CommInv, Conv, Connection, Left
  <2>2. <<r>> # <<>> /\ Len(<<r>>) = 1 /\ Len(<<>>) = 0
    OBVIOUS
  <2>3. socket[c] \notin {"unused", "backlog"}
    BY <1>1, <2>2 DEF CommInv, Conv, Connection
  <2>4. ASSUME server = "running", socket[c] # "closed" PROVE unread'[c] = 0
    <3>1. Connected(c)
      BY <2>1, <2>3, <2>4, TypeFacts DEF Connected, SocketStates
    <3>2. unread[c] = 1
      BY <1>1, <2>1, <2>2, <2>4 DEF CommInv, Conv, Connection
    <3>. QED BY <1>1, <1>3, <3>1, <3>2
  <2>. QED BY <1>1, <1>2, <1>4, <2>1, <2>2, <2>3, <2>4 DEF Connection, Left, ServerUntouched
<1>12. ProgramTypes'
  BY <1>1, <1>2, <1>4, <1>5 DEF CommInv, ProgramTypes, ServerUntouched
<1>. QED BY <1>1, <1>7, <1>8, <1>9, <1>10, <1>11, <1>12 DEF Keeps, Conv, Flow, ServerGoesOn,
         ServerUntouched

-----------------------------------------------------------------------------
\* The invariant.

\* Every connection is new.
Fresh(c) ==
    /\ socket[c] = "unused" /\ peer[c] = "open" /\ inbox[c] = <<>> /\ unread[c] = 0
    /\ pending[c] = "none" /\ Entry(c) = NoKey
    /\ where[c] = "start" /\ Key(c) = NoKey /\ responses[c] = <<>>
    /\ texts[c] = 0 /\ heard[c] = 0 /\ acknowledged[c] = 0

LEMMA FreshConv == (\A c \in Conns : Fresh(c)) => (\A c \in Conns : Conv(c))
<1> SUFFICES ASSUME NEW c \in Conns, Fresh(c) PROVE Conv(c)
  OBVIOUS
<1>1. Len(<<>>) = 0
  OBVIOUS
<1>. QED BY <1>1 DEF Fresh, Conv, Flow, Quiet, Standing, Places, Even, Counts, Connection, Gone, Left

LEMMA CommInvInit == CommInit => CommInv
<1> SUFFICES ASSUME CommInit PROVE CommInv
  OBVIOUS
<1>1. ServerInv
  BY ServerInvInit DEF CommInit
<1>2. \A c \in Conns : Conv(c)
  <2>1. \A c \in Conns : Fresh(c)
    BY DEF CommInit, Init, Fresh, Entry, Key
  <2>. QED BY <2>1, FreshConv
<1>3. blocked = 0 /\ OnlySignalsStopServer
  BY DEF CommInit, Init, OnlySignalsStopServer
<1>4. ProgramTypes
  BY DEF CommInit, ProgramTypes, Places
<1>. QED BY <1>1, <1>2, <1>3, <1>4 DEF CommInv

LEMMA ServerStartsKeeps ==
    ASSUME CommInv, ServerInv', ServerStarts
    PROVE  CommInv'
<1>1. (\A c \in Conns : Conv(c))'
  <2>1. (\A c \in Conns : Fresh(c))'
    BY DEF ServerStarts, Start, ClientsStart, Fresh, Entry, Key
  <2>. QED BY <2>1, FreshConv, PTL
<1>2. blocked' = 0 /\ OnlySignalsStopServer'
  BY DEF ServerStarts, Start, OnlySignalsStopServer
<1>3. ProgramTypes'
  BY DEF ServerStarts, ClientsStart, ProgramTypes, Places
<1>. QED BY <1>1, <1>2, <1>3 DEF CommInv

\* A signal, the clock, and nothing.
LEMMA OthersKeep ==
    ASSUME CommInv, ServerInv', ServerSignal \/ ServerClock \/ UNCHANGED commVars
    PROVE  CommInv'
<1>1. ServerGoesOn /\ blocked' = blocked
  BY DEF ServerSignal, ServerClock, commVars, Signal, Halts, Clock, ioVars, vars, ServerGoesOn
<1>2. \A d \in Conns : Same(d)
  BY DEF ServerSignal, ServerClock, commVars, programVars, Signal, Halts, Clock, netVars, ioVars,
         keyVars, vars, Same
<1>3. ProgramTypes'
  BY DEF ServerSignal, ServerClock, commVars, programVars, CommInv, ProgramTypes
<1>4. OnlySignalsStopServer'
  BY <1>1 DEF CommInv, ServerGoesOn, OnlySignalsStopServer
<1>5. \A d \in Conns : Conv(d)'
  BY <1>1, <1>2, SameConv DEF CommInv
<1>. QED BY <1>1, <1>3, <1>4, <1>5 DEF CommInv

LEMMA ClientStepKeeps ==
    ASSUME CommInv, NEW c \in Conns,
           \/ ClientConnects(c) \/ ClientFindsNoServer(c) \/ ClientTypes(c) \/ ClientIdles(c)
           \/ ClientKilled(c) \/ ClientProceeds(c)
    PROVE  Keeps(c)
BY ClientConnectsKeeps, ClientTypesKeeps, ClientEndsKeeps, ClientSpeaksKeeps, ClientHearsKeeps
DEF ClientProceeds

LEMMA CommInvNext == CommInv /\ [CommNext]_commVars => CommInv'
<1> SUFFICES ASSUME CommInv, [CommNext]_commVars PROVE CommInv'
  OBVIOUS
<1>1. ServerInv'
  BY CommStepIsServers, ServerInvNext DEF CommInv
<1>2. CASE ServerStarts
  BY <1>1, <1>2, ServerStartsKeeps
<1>3. CASE ServerSignal \/ ServerClock \/ UNCHANGED commVars
  BY <1>1, <1>3, OthersKeep
<1>4. ASSUME NEW c \in Conns,
             \/ ServerStep(c)
             \/ ClientConnects(c) \/ ClientFindsNoServer(c) \/ ClientTypes(c) \/ ClientIdles(c)
             \/ ClientKilled(c) \/ ClientProceeds(c)
      PROVE  Keeps(c)
  BY <1>4, ServerStepKeeps, ClientStepKeeps
<1>. QED BY <1>1, <1>2, <1>3, <1>4, KeepsInv DEF CommNext

LEMMA CommInvHolds == CommSpec => []CommInv
BY CommInvInit, CommInvNext, PTL DEF CommSpec

\* Composed with the client programs, the server is still the server: all that
\* was proved of it holds.
THEOREM CommImplementsServer == CommSpec => Spec
<1>1. CommInit => Init
  BY DEF CommInit
<1>. QED BY <1>1, CommStepIsServers, PTL DEF CommSpec, Spec

\* At most one message is between a client and the server.
THEOREM OneMessageInFlightHolds == CommSpec => []OneMessageInFlight
<1>1. CommInv => OneMessageInFlight
  <2> SUFFICES ASSUME CommInv, NEW c \in Conns
               PROVE  Len(inbox[c]) + Writing(c) + Len(responses[c]) <= 1
    BY DEF OneMessageInFlight
  <2>1. Len(<<>>) = 0 /\ \A m : Len(<<m>>) = 1
    OBVIOUS
  <2>2. Quiet(c) \/ \E k \in Exchanges : UnderWay(c, k)
    BY DEF CommInv, Conv, Flow
  <2>3. CASE Quiet(c)
    BY <2>1, <2>3 DEF Quiet, Writing
  <2>4. ASSUME NEW k, UnderWay(c, k) PROVE Len(inbox[c]) + Writing(c) + Len(responses[c]) <= 1
    <3>1. CASE Asked(c, k)
      <4>1. Len(inbox[c]) = 1 /\ Writing(c) = 0 /\ Len(responses[c]) = 0
        BY <2>1, <3>1 DEF Asked, Writing
      <4>. QED BY <4>1
    <3>2. CASE BeingAnswered(c, k)
      <4>1. Len(inbox[c]) = 0 /\ Writing(c) = 1 /\ Len(responses[c]) = 0
        BY <2>1, <3>2 DEF BeingAnswered, Writing
      <4>. QED BY <4>1
    <3>3. CASE Answered(c, k)
      <4>1. Len(inbox[c]) = 0 /\ Writing(c) = 0 /\ Len(responses[c]) = 1
        BY <2>1, <3>3 DEF Answered, Writing
      <4>. QED BY <4>1
    <3>. QED BY <2>4, <3>1, <3>2, <3>3 DEF UnderWay
  <2>. QED BY <2>2, <2>3, <2>4
<1>. QED BY <1>1, CommInvHolds, PTL

\* However the programs end and whatever their devices are, only a signal stops
\* the server.
THEOREM OnlySignalsStopServerHolds == CommSpec => []OnlySignalsStopServer
<1>1. CommInv => OnlySignalsStopServer
  BY DEF CommInv
<1>. QED BY <1>1, CommInvHolds, PTL

-----------------------------------------------------------------------------
\* The two programs implement the secure channel.

ChannelStep == [Channel!Next]_(Channel!channelVars)

LEMMA ServerStepIsChannels ==
    ASSUME CommInv, NEW c \in Conns, ServerStep(c)
    PROVE  ChannelStep
<1>1. UNCHANGED <<session_keys_symetric, texts, acknowledged>>
  BY ServerStepFacts
<1>2. CASE HelloAccepted(c)
  <2>1. /\ Handles(c, "HelloFIUNAM") /\ Consumes(c, "greeted") /\ "greeted" \in Outcomes
        /\ insertSession(c) /\ Replies(c, session_keys_asymetric_map'[c])
    BY <1>2 DEF HelloAccepted, Outcomes
  <2>2. Entry(c) = NoKey /\ Key(c) = NoKey /\ Sender(c) = identity[c]
    BY <2>1, HandledIsAsked DEF AskedWith, Sender
  <2>3. PICK k : k = [own |-> generated + 1, peer |-> identity[c].keys]
    OBVIOUS
  <2>4. session_keys_symetric_map' = [session_keys_symetric_map EXCEPT ![c] = k]
    BY <2>1, <2>2, <2>3, TypeFacts DEF insertSession, insert, Entry
  <2>5. k \in SessionKeys
    BY <2>3, TypeFacts, ConstantFacts DEF SessionKeys
  <2>6. \A d \in Conns : session_keys_symetric_map[d] # k
    <3>1. ASSUME NEW d \in Conns, session_keys_symetric_map[d] = k PROVE FALSE
      <4>1. Entry(d).own = session_keys_asymetric_map[d]
        BY <2>5, <3>1, ConstantFacts DEF CommInv, ServerInv, SessionMapsAgree, Entry
      <4>2. session_keys_asymetric_map[d] = generated + 1
        BY <2>3, <3>1, <4>1 DEF Entry
      <4>3. session_keys_asymetric_map[d] \in 0..generated /\ generated \in Nat
        BY TypeFacts
      <4>. QED BY ONLY <4>2, <4>3
    <3>. QED BY <3>1
  <2>7. session_keys_symetric_map'[c] = k
    BY <2>4, TypeFacts
  <2>8. heard' = heard
    <3>1. outcome'[c] = "greeted"
      BY <2>1, TypeFacts DEF Consumes
    <3>. QED BY <3>1, ServerStepFacts
  <2>9. Channel!ServerAgrees(c)
    BY <1>1, <2>2, <2>4, <2>5, <2>6, <2>7, <2>8 DEF Channel!ServerAgrees, Entry, Key
  <2>. QED BY <2>9 DEF ChannelStep, Channel!Next
<1>3. CASE SimpleAnswered(c)
  <2>1. Channel!Hear(c)
    BY <1>3, SimpleAnsweredFacts DEF Channel!Hear, Entry, Key
  <2>. QED BY <2>1 DEF ChannelStep, Channel!Next
<1>4. CASE ReadError(c) \/ WriteError(c)
  <2>1. inbox' = inbox
        /\ session_keys_symetric_map' = [session_keys_symetric_map EXCEPT ![c] = NoKey]
    BY <1>4 DEF ReadError, WriteError, Forgets, erasesSession
  <2>2. Channel!Forget(c)
    BY <1>1, <2>1, ServerStepFacts DEF Channel!Forget
  <2>. QED BY <2>2 DEF ChannelStep, Channel!Next
<1>5. CASE HelloReplayed(c) \/ HelloRefused(c) \/ AgreeParamsAccepted(c)
  <2>1. session_keys_symetric_map' = session_keys_symetric_map
    BY <1>5 DEF HelloReplayed, HelloRefused, AgreeParamsAccepted, keyVars
  <2>2. outcome'[c] \in {"replayed", "refused", "agreed"}
    BY <1>5, TypeFacts DEF HelloReplayed, HelloRefused, AgreeParamsAccepted, Consumes
  <2>3. heard' = heard
    BY <2>2, ServerStepFacts
  <2>. QED BY <1>1, <2>1, <2>3 DEF ChannelStep, Channel!channelVars
<1>6. CASE Accept(c) \/ WriteDone(c)
  <2>1. inbox' = inbox /\ session_keys_symetric_map' = session_keys_symetric_map
    BY <1>6 DEF Accept, WriteDone, keyVars
  <2>. QED BY <1>1, <2>1, ServerStepFacts DEF ChannelStep, Channel!channelVars
<1>. QED BY <1>2, <1>3, <1>4, <1>5, <1>6, IoKinds, ServerStepFacts

LEMMA ClientStepIsChannels ==
    ASSUME CommInv, NEW c \in Conns,
           \/ ClientConnects(c) \/ ClientFindsNoServer(c) \/ ClientTypes(c) \/ ClientIdles(c)
           \/ ClientKilled(c) \/ ClientProceeds(c)
    PROVE  ChannelStep
<1>1. CASE ClientTypes(c)
  <2>1. /\ Carries(c) /\ heard' = heard /\ where[c] = "chat"
        /\ texts' = [texts EXCEPT ![c] = @ + 1]
        /\ UNCHANGED <<session_keys_symetric, acknowledged>>
    BY <1>1 DEF ClientTypes, C!TypeText, C!Sends
  <2>2. Agreed(c) /\ Even(c)
    BY <2>1 DEF CommInv, Conv, Standing, Gone, Left
  <2>3. session_keys_symetric_map' = session_keys_symetric_map
    BY <2>1 DEF Carries, PeerSend, PeerVars, vars, keyVars
  <2>4. Channel!Ask(c)
    BY <2>1, <2>2, <2>3 DEF Channel!Ask, Agreed, Even, Key
  <2>. QED BY <2>4 DEF ChannelStep, Channel!Next
<1>2. CASE ClientHears(c)
  <2>1. UNCHANGED <<session_keys_symetric_map, heard, texts>>
    BY <1>2, HearsFacts DEF ServerUntouched
  <2>2. /\ Agreed(c)' /\ where[c] \in {"await greeting", "await start", "await answer"}
        /\ \/ /\ Key(c) = NoKey /\ acknowledged' = acknowledged
              /\ session_keys_symetric' = [session_keys_symetric EXCEPT ![c] = Key(c)']
              /\ peer[c] = "open" => Key(c)' = Entry(c)
           \/ session_keys_symetric' = session_keys_symetric /\ acknowledged' = acknowledged
           \/ /\ session_keys_symetric' = session_keys_symetric
              /\ acknowledged' = [acknowledged EXCEPT ![c] = @ + 1]
              /\ acknowledged[c] < heard[c]
    BY <1>2, HearsOutcome
  <2>3. CASE /\ Key(c) = NoKey /\ acknowledged' = acknowledged
             /\ session_keys_symetric' = [session_keys_symetric EXCEPT ![c] = Key(c)']
             /\ peer[c] = "open" => Key(c)' = Entry(c)
    <3>1. peer[c] = "open"
      BY <2>2 DEF CommInv, Conv, Connection, Left
    <3>2. Entry(c) # NoKey /\ Key(c)' = Entry(c)
      BY <2>2, <2>3, <3>1 DEF Agreed
    <3>3. session_keys_symetric' = [session_keys_symetric EXCEPT ![c] = Entry(c)]
      BY <2>3, <3>2
    <3>4. Channel!ClientAgrees(c)
      BY <2>1, <2>3, <3>2, <3>3 DEF Channel!ClientAgrees, Key, Entry
    <3>. QED BY <3>4 DEF ChannelStep, Channel!Next
  <2>4. CASE session_keys_symetric' = session_keys_symetric /\ acknowledged' = acknowledged
    BY <2>1, <2>4 DEF ChannelStep, Channel!channelVars
  <2>5. CASE /\ session_keys_symetric' = session_keys_symetric
             /\ acknowledged' = [acknowledged EXCEPT ![c] = @ + 1]
             /\ acknowledged[c] < heard[c]
    <3>1. Channel!Acknowledge(c)
      BY <2>1, <2>5 DEF Channel!Acknowledge
    <3>. QED BY <3>1 DEF ChannelStep, Channel!Next
  <2>. QED BY <2>2, <2>3, <2>4, <2>5
<1>3. CASE ClientConnects(c) \/ ClientFindsNoServer(c)
  <2>1. UNCHANGED <<session_keys_symetric_map, heard, session_keys_symetric, texts, acknowledged>>
    BY <1>3 DEF ClientConnects, ClientFindsNoServer, PeerConnect, PeerVars, vars, keyVars,
                C!Connect, C!ConnectFails, C!Constructs
  <2>. QED BY <2>1 DEF ChannelStep, Channel!channelVars
<1>4. CASE ClientIdles(c) \/ ClientThinks(c)
  <2>1. UNCHANGED <<session_keys_symetric_map, heard, session_keys_symetric, texts, acknowledged>>
    BY <1>4 DEF ClientIdles, ClientThinks, vars, keyVars, C!Inputs, C!EndOfInput, C!TextWithoutKey,
                C!Thinks, C!ReceiveFails, C!StopSocket, C!Moves
  <2>. QED BY <2>1 DEF ChannelStep, Channel!channelVars
<1>5. CASE ClientKilled(c) \/ ClientEnds(c)
  <2>1. UNCHANGED <<session_keys_symetric_map, heard, session_keys_symetric, texts, acknowledged>>
    BY <1>5 DEF ClientKilled, ClientEnds, Leaves, PeerLeave, PeerVars, vars, keyVars,
                C!Killed, C!Ends, C!Abort, C!Destroy, C!Moves
  <2>. QED BY <2>1 DEF ChannelStep, Channel!channelVars
<1>6. CASE ClientSpeaks(c)
  <2>1. UNCHANGED <<session_keys_symetric_map, heard, session_keys_symetric, texts, acknowledged>>
    BY <1>6 DEF ClientSpeaks, Carries, PeerSend, PeerVars, vars, keyVars,
                C!Speaks, C!SayHello, C!RequestRegistration, C!AgreeParams, C!Sends
  <2>. QED BY <2>1 DEF ChannelStep, Channel!channelVars
<1>. QED BY <1>1, <1>2, <1>3, <1>4, <1>5, <1>6 DEF ClientProceeds

\* One key for both ends, made afresh before the first text; each text heard once
\* and acknowledged before the next: whatever the messages and the restarts, and
\* whenever the programs end.
THEOREM ImplementsSecureChannelHolds == CommSpec => ImplementsSecureChannel
<1>1. CommInit => Channel!Init
  BY DEF CommInit, Init, Channel!Init
<1>2. ASSUME CommInv, [CommNext]_commVars PROVE ChannelStep
  <2>1. CASE ServerStarts
    <3>1. Channel!Restart
      BY <2>1 DEF ServerStarts, Start, ClientsStart, Channel!Restart
    <3>. QED BY <3>1 DEF ChannelStep, Channel!Next
  <2>2. CASE ServerSignal \/ ServerClock \/ UNCHANGED commVars
    BY <2>2 DEF ServerSignal, ServerClock, commVars, programVars, Signal, Halts, Clock, keyVars,
                vars, ChannelStep, Channel!channelVars
  <2>3. ASSUME NEW c \in Conns, ServerStep(c) PROVE ChannelStep
    BY <1>2, <2>3, ServerStepIsChannels
  <2>4. ASSUME NEW c \in Conns,
               \/ ClientConnects(c) \/ ClientFindsNoServer(c) \/ ClientTypes(c) \/ ClientIdles(c)
               \/ ClientKilled(c) \/ ClientProceeds(c)
        PROVE  ChannelStep
    BY <1>2, <2>4, ClientStepIsChannels
  <2>. QED BY <1>2, <2>1, <2>2, <2>3, <2>4 DEF CommNext
<1>3. CommInv /\ [CommNext]_commVars => [Channel!Next]_(Channel!channelVars)
  BY <1>2 DEF ChannelStep
<1>. QED BY <1>1, <1>3, CommInvHolds, PTL DEF CommSpec, ImplementsSecureChannel, Channel!Spec

-----------------------------------------------------------------------------
\* What becomes of a waiting client.  The invariant adds that its greeting, the
\* only one of its connection, finds no nonce; that the server's handlers left
\* the connection in one of a few ways, none of which stalls it; and that while
\* it waits something is under way.

Waiting == {"await greeting", "await start", "await answer"}

Open(c) == server = "running" /\ socket[c] \in {"backlog", "open"}

NoToken == ""

Greets(c) ==
    /\ where[c] \in {"start", "hello"} => used_nonces_per_client[c] = {}
    /\ \A m \in Sent : inbox[c] = <<m>> /\ m.method = "HelloFIUNAM" =>
          m.signed = intact[c] /\ m.auth_token = NoToken /\ used_nonces_per_client[c] = {}

Served == {"none", "greeted", "agreed", "answered", "disconnected"}

Attended(c) ==
    /\ Greets(c)
    /\ outcome[c] \in Served \cup {"refused"}
    /\ where[c] \in Waiting /\ Open(c) => ~Quiet(c)

LEMMA StreamOpen ==
    ASSUME CommInv, NEW c \in Conns
    PROVE  (Stream[c] = "open") <=> Open(c)
BY TypeFacts DEF Stream, Open, SocketStates

\* The clients that wait, among the places these programs reach.
LEMMA WaitingPlaces ==
    ASSUME CommInv, NEW c \in Conns
    PROVE  where[c] \in C!Awaiting <=> where[c] \in Waiting
BY DEF CommInv, Conv, Standing, Places, Gone, Left, C!Awaiting, C!Greeting, Waiting

\* A step of another connection takes no nonce but in a cleanup.
NoncesOnlyGo(c) ==
    \A d \in Conns \ {c} : used_nonces_per_client[d] = {} => used_nonces_per_client'[d] = {}

LEMMA SameAttended ==
    ASSUME NEW d \in Conns, Attended(d), Same(d), ServerGoesOn, intact' = intact,
           used_nonces_per_client[d] = {} => used_nonces_per_client'[d] = {}
    PROVE  Attended(d)'
<1>1. Greets(d)'
  BY DEF Attended, Greets, Same
<1>2. outcome'[d] \in Served \cup {"refused"}
  BY DEF Attended, Same
<1>3. where'[d] \in Waiting /\ Open(d)' => ~Quiet(d)'
  BY DEF Attended, Same, Open, Quiet, ServerGoesOn
<1>. QED BY <1>1, <1>2, <1>3 DEF Attended, Served

\* What a step for connection c has to establish, besides Keeps(c).
Attends(c) == Attended(c)' /\ intact' = intact /\ NoncesOnlyGo(c)

AnswerInv == \A c \in Conns : Attended(c)

LEMMA AttendsInv ==
    ASSUME AnswerInv, NEW c \in Conns, Keeps(c), Attends(c)
    PROVE  AnswerInv'
<1>1. ASSUME NEW d \in Conns PROVE Attended(d)'
  <2>1. CASE d = c
    BY <2>1 DEF Attends
  <2>2. CASE d # c
    BY <2>2, SameAttended DEF Keeps, Attends, AnswerInv, NoncesOnlyGo
  <2>. QED BY <2>1, <2>2
<1>. QED BY <1>1 DEF AnswerInv

\* No nonce is found that would have the greeting taken for a replay.
LEMMA NotReplayed ==
    ASSUME CommInv, AnswerInv, NEW c \in Conns
    PROVE  ~HelloReplayed(c)
<1> SUFFICES ASSUME HelloReplayed(c) PROVE FALSE
  OBVIOUS
<1>1. Handles(c, "HelloFIUNAM") /\ Head(inbox[c]).nounce \in used_nonces_per_client[c]
  BY DEF HelloReplayed
<1>2. PICK m \in Sent : inbox[c] = <<m>> /\ m.method = "HelloFIUNAM"
  BY <1>1, HandledIsAsked
<1>. QED BY <1>1, <1>2 DEF AnswerInv, Attended, Greets

\* Why a greeting is refused.
LEMMA RefusalReason ==
    ASSUME CommInv, AnswerInv, NEW c \in Conns, HelloRefused(c), intact[c],
           "read" \notin Faults
    PROVE  /\ ~is_client_registered(file, identity[c].keys)
           /\ \/ is_device_id_registered_with_different_keys(file, identity[c].id, identity[c].keys)
              \/ "open" \in Faults
<1>1. PICK m \in Sent :
        inbox[c] = <<m>> /\ m.method = "HelloFIUNAM" /\ Head(inbox[c]) = m /\ m.from = identity[c]
  BY HandledIsAsked DEF HelloRefused, AskedWith
<1>2. Head(inbox[c]).signed /\ Head(inbox[c]).auth_token = NoToken
  BY <1>1 DEF AnswerInv, Attended, Greets
<1>3. PICK o \in Authenticated(c) : ~(o.ok /\ Head(inbox[c]).signed)
  BY DEF HelloRefused
<1>4. Sender(c) = identity[c]
  BY <1>1 DEF Sender
<1>5. o \in authenticate_and_register_device(file, identity[c].id, identity[c].keys, "")
  BY ONLY <1>2, <1>3, <1>4, Zenon DEF Authenticated, NoToken
<1>. QED BY ONLY <1>2, <1>3, <1>5, "read" \notin Faults, RefusedByList, Zenon

-----------------------------------------------------------------------------
\* Steps of the server.

LEMMA ServerStepNonces ==
    ASSUME CommInv, NEW c \in Conns, ServerStep(c)
    PROVE  /\ intact' = intact
           /\ NoncesOnlyGo(c)
           /\ \/ HelloReplayed(c) \/ HelloRefused(c) \/ HelloAccepted(c)
              \/ used_nonces_per_client' = used_nonces_per_client
<1>1. intact' = intact
  BY DEF ServerStep, programVars
<1>2. UNCHANGED nonceVars => NoncesOnlyGo(c) /\ used_nonces_per_client' = used_nonces_per_client
  BY DEF nonceVars, NoncesOnlyGo
<1>3. CASE ChecksNonce(c) /\ (HelloRefused(c) \/ HelloAccepted(c))
  <2>1. ASSUME NEW n, AcceptNonce(c, n) PROVE NoncesOnlyGo(c)
    <3>1. used_nonces_per_client \in [Conns -> SUBSET Nonces]
      BY DEF CommInv, ServerInv, NonceInv, NonceTypeOK
    <3>2. PICK old :
            used_nonces_per_client' =
                erase_sets([used_nonces_per_client EXCEPT ![c] = @ \cup {n}], old)
      BY <2>1 DEF AcceptNonce
    <3>. QED BY <3>1, <3>2 DEF erase_sets, NoncesOnlyGo
  <2>. QED BY <1>1, <1>2, <1>3, <2>1 DEF ChecksNonce
<1>. QED
  BY <1>1, <1>2, <1>3, IoKinds, ServerStepFacts
  DEF Accept, HelloReplayed, HelloRefused, HelloAccepted, AgreeParamsAccepted, SimpleAnswered,
      ReadError, WriteError, Forgets, WriteDone

\* What each step of the server does to the exchange it is for.
LEMMA ServerStepTaken ==
    ASSUME CommInv, AnswerInv, NEW c \in Conns, ServerStep(c)
    PROVE  /\ where' = where
           /\ \/ /\ Accept(c)
                 /\ socket[c] = "backlog" /\ socket'[c] = "open" /\ pending[c] # "write"
                 /\ pending'[c] = "read"
                 /\ UNCHANGED <<inbox, outcome, responses, used_nonces_per_client>>
                 /\ responses[c] = <<>>
              \/ /\ HelloRefused(c) /\ socket'[c] = "closed" /\ outcome'[c] = "refused"
                 /\ socket[c] = "open" /\ pending[c] = "read" /\ responses[c] = <<>>
                 /\ inbox'[c] = <<>> /\ where[c] \notin {"start", "hello"}
              \/ /\ pending'[c] = "write" /\ outcome'[c] \in {"greeted", "agreed", "answered"}
                 /\ socket[c] = "open" /\ pending[c] = "read"
                 /\ responses[c] = <<>> /\ responses'[c] = <<>>
                 /\ inbox'[c] = <<>> /\ where[c] \notin {"start", "hello"}
              \/ /\ peer[c] # "open" /\ where[c] \in Left /\ outcome'[c] = "disconnected"
                 /\ UNCHANGED <<inbox, used_nonces_per_client>>
              \/ /\ WriteDone(c) /\ pending[c] = "write" /\ responses[c] = <<>>
                 /\ responses'[c] # <<>>
                 /\ UNCHANGED <<inbox, outcome, used_nonces_per_client>>
<1>1. where' = where /\ (unread' = unread => responses' = responses)
  BY ServerStepFacts
<1>2. CASE Accept(c)
  <2>1. /\ socket[c] = "backlog" /\ socket' = [socket EXCEPT ![c] = "open"]
        /\ pending' = [pending EXCEPT ![c] = "read"]
        /\ UNCHANGED <<inbox, unread, outcome, used_nonces_per_client>>
    BY <1>2 DEF Accept, handle_client, nonceVars
  <2>2. responses[c] = <<>> /\ pending[c] # "write"
    BY <2>1 DEF CommInv, Conv, Connection, ServerInv, OperationsOnOpenSockets
  <2>. QED BY <1>1, <1>2, <2>1, <2>2, TypeFacts
<1>3. ASSUME NEW method, Handles(c, method)
      PROVE  /\ socket[c] = "open" /\ pending[c] = "read" /\ responses[c] = <<>>
             /\ where[c] \notin {"start", "hello"}
             /\ \E m \in Sent : inbox[c] = <<m>>
  <2>1. PICK k \in Exchanges, m \in Sent :
          inbox[c] = <<m>> /\ Asked(c, k) /\ where[c] \in {WaitsFor(k)} \cup Gone
    BY <1>3, HandledIsAsked
  <2>. QED BY <1>3, <2>1 DEF Handles, Asked, WaitsFor, Exchanges, Gone, Left
<1>4. CASE HelloRefused(c)
  <2>1. Handles(c, "HelloFIUNAM") /\ Closes(c) /\ Consumes(c, "refused") /\ "refused" \in Outcomes
    BY <1>4 DEF HelloRefused, Outcomes
  <2>2. inbox'[c] = <<>> /\ outcome'[c] = "refused"
    BY <1>3, <2>1, Consumed
  <2>3. socket'[c] = "closed"
    BY <2>1, TypeFacts DEF Closes
  <2>. QED BY <1>1, <1>3, <1>4, <2>1, <2>2, <2>3
<1>5. ASSUME NEW method, NEW what \in {"greeted", "agreed", "answered"}, NEW announced \in Nat,
             Handles(c, method), Consumes(c, what), Replies(c, announced)
      PROVE  /\ pending'[c] = "write" /\ outcome'[c] \in {"greeted", "agreed", "answered"}
             /\ socket[c] = "open" /\ pending[c] = "read"
             /\ responses[c] = <<>> /\ responses'[c] = <<>>
             /\ inbox'[c] = <<>> /\ where[c] \notin {"start", "hello"}
  <2>1. what \in Outcomes
    BY DEF Outcomes
  <2>. QED BY <1>3, <1>5, <2>1, AnsweringFacts
<1>6. CASE HelloAccepted(c)
  <2>1. session_keys_asymetric_map'[c] \in Nat
    BY <1>6, TypeFacts DEF HelloAccepted, insertSession, insert
  <2>. QED BY <1>1, <1>5, <1>6, <2>1 DEF HelloAccepted
<1>7. CASE AgreeParamsAccepted(c) \/ SimpleAnswered(c)
  BY <1>1, <1>5, <1>7 DEF AgreeParamsAccepted, SimpleAnswered
<1>8. CASE ReadError(c) \/ WriteError(c)
  <2>1. peer[c] # "open" /\ Forgets(c)
    BY <1>8 DEF ReadError, WriteError
  <2>2. outcome'[c] = "disconnected" /\ UNCHANGED <<inbox, used_nonces_per_client>>
    BY <2>1, TypeFacts DEF Forgets, nonceVars
  <2>3. where[c] \in Left
    BY <2>1 DEF CommInv, Conv, Connection
  <2>. QED BY <1>1, <2>1, <2>2, <2>3
<1>9. CASE WriteDone(c)
  <2>1. /\ pending[c] = "write" /\ unread' = [unread EXCEPT ![c] = @ + 1]
        /\ UNCHANGED <<inbox, outcome, used_nonces_per_client>>
    BY <1>9 DEF WriteDone, nonceVars
  <2>2. responses[c] = <<>>
    BY <2>1 DEF CommInv, Conv, Flow, Quiet, UnderWay, Asked, BeingAnswered, Answered
  <2>3. unread'[c] > unread[c]
    BY <2>1, TypeFacts, ConstantFacts
  <2>4. responses' = [responses EXCEPT ![c] = Append(@, Response(c))]
    BY <2>3 DEF ServerStep
  <2>5. PICK r : r = Response(c)
    OBVIOUS
  <2>6. responses'[c] = Append(<<>>, r)
    BY <2>2, <2>4, <2>5, TypeFacts DEF ProgramTypes
  <2>. QED BY <1>1, <1>9, <2>1, <2>2, <2>6, AppendToNone
<1>. QED BY <1>2, <1>4, <1>6, <1>7, <1>8, <1>9, IoKinds, NotReplayed, ServerStepFacts

LEMMA ServerStepAttends ==
    ASSUME CommInv, AnswerInv, NEW c \in Conns, ServerStep(c)
    PROVE  Attends(c)
<1>1. intact' = intact /\ NoncesOnlyGo(c) /\ where' = where
  BY ServerStepNonces, ServerStepTaken
<1>2. \A m : <<m>> # <<>>
  OBVIOUS
<1>3. Greets(c)'
  <2>1. CASE UNCHANGED <<inbox, used_nonces_per_client>>
    BY <1>1, <2>1 DEF AnswerInv, Attended, Greets
  <2>2. CASE inbox'[c] = <<>> /\ where[c] \notin {"start", "hello"}
    BY <1>1, <1>2, <2>2 DEF Greets
  <2>. QED BY <2>1, <2>2, ServerStepTaken
<1>4. outcome'[c] \in Served \cup {"refused"}
  BY ServerStepTaken DEF AnswerInv, Attended, Served
<1>5. ASSUME where'[c] \in Waiting, Open(c)' PROVE ~Quiet(c)'
  <2>1. where[c] \in Waiting /\ where[c] \notin Left
    BY <1>1, <1>5 DEF Left, Waiting
  <2>2. CASE /\ Accept(c) /\ socket[c] = "backlog" /\ pending[c] # "write"
             /\ UNCHANGED <<inbox, responses>>
    <3>1. Open(c)
      BY <2>2 DEF Open, Accept, Ready
    <3>. QED BY <2>1, <2>2, <3>1 DEF AnswerInv, Attended, Quiet
  <2>3. CASE \/ socket'[c] = "closed" \/ pending'[c] = "write" \/ responses'[c] # <<>>
    BY <1>5, <2>3 DEF Open, Quiet
  <2>. QED BY <2>1, <2>2, <2>3, ServerStepTaken
<1>. QED BY <1>1, <1>3, <1>4, <1>5 DEF Attends, Attended, Served

-----------------------------------------------------------------------------
\* Steps of a client.

ClientStep(c) ==
    \/ ClientConnects(c) \/ ClientFindsNoServer(c) \/ ClientTypes(c) \/ ClientIdles(c)
    \/ ClientKilled(c) \/ ClientProceeds(c)

LEMMA ClientTouchesNoNonce ==
    ASSUME NEW c \in Conns, ClientStep(c)
    PROVE  intact' = intact /\ used_nonces_per_client' = used_nonces_per_client /\ outcome' = outcome
<1>1. UNCHANGED <<used_nonces_per_client, outcome>>
  BY DEF ClientStep, ClientProceeds, ClientConnects, ClientFindsNoServer, ClientTypes, ClientIdles,
         ClientKilled, ClientSpeaks, ClientHears, ClientThinks, ClientEnds, Carries, Leaves,
         PeerConnect, PeerSend, PeerReceive, PeerLeave, PeerVars, vars, nonceVars
<1>2. intact' = intact
  <2>1. CASE ClientConnects(c) \/ ClientFindsNoServer(c)
    BY <2>1 DEF ClientConnects, ClientFindsNoServer, C!Connect, C!ConnectFails, C!Constructs
  <2>2. CASE ClientTypes(c) \/ ClientSpeaks(c)
    BY <2>2 DEF ClientTypes, ClientSpeaks, C!TypeText, C!Speaks, C!SayHello, C!RequestRegistration,
                C!AgreeParams, C!Sends
  <2>3. CASE ClientHears(c)
    BY <2>3 DEF ClientHears, C!Hears, C!HearsRefusal, C!HearsApproval, C!HearsGreeting,
                C!HearsStart, C!HearsAnswer, C!Receives
  <2>4. CASE ClientThinks(c) \/ ClientIdles(c) \/ ClientEnds(c) \/ ClientKilled(c)
    BY <2>4 DEF ClientThinks, ClientIdles, ClientEnds, ClientKilled, C!Thinks, C!ReceiveFails,
                C!StopSocket, C!Inputs, C!EndOfInput, C!TextWithoutKey, C!Ends, C!Abort, C!Destroy,
                C!Killed, C!Moves
  <2>. QED BY <2>1, <2>2, <2>3, <2>4 DEF ClientStep, ClientProceeds
<1>. QED BY <1>1, <1>2

\* A step that sends nothing leads to a place where nothing is waited for.
LEMMA SilentSteps ==
    ASSUME CommInv, NEW c \in Conns, ClientStep(c), ~ClientSpeaks(c), ~ClientTypes(c)
    PROVE  /\ inbox'[c] = inbox[c] /\ where'[c] \notin Waiting
           /\ where'[c] \in {"start", "hello"} => where[c] = "start"
<1>1. where \in [Conns -> Places]
  BY DEF CommInv, ProgramTypes
<1>2. CASE ClientConnects(c) \/ ClientFindsNoServer(c)
  <2>1. where[c] = "start" /\ where' = [where EXCEPT ![c] = "hello"] /\ inbox' = inbox
    BY <1>2 DEF ClientConnects, ClientFindsNoServer, C!Connect, C!ConnectFails, C!Constructs, C!Goes
  <2>. QED BY <1>1, <2>1 DEF Waiting
<1>3. CASE ClientHears(c)
  <2>1. where'[c] \in {"agree", "chat"} /\ inbox' = inbox
    BY <1>3, HearsOutcome, HearsFacts
  <2>. QED BY <2>1 DEF Waiting
<1>4. CASE ClientThinks(c) \/ ClientIdles(c) \/ ClientEnds(c) \/ ClientKilled(c)
  <2>1. inbox' = inbox /\ \E to \in Gone : C!Goes(c, to)
    BY <1>4 DEF ClientThinks, ClientIdles, ClientEnds, ClientKilled, C!Thinks, C!ReceiveFails,
                C!StopSocket, C!Inputs, C!EndOfInput, C!TextWithoutKey, C!Ends, C!Abort, C!Destroy,
                C!Killed, C!Moves, C!netVars, Gone, Left
  <2>2. where'[c] \in Gone
    BY <1>1, <2>1 DEF C!Goes
  <2>. QED BY <2>1, <2>2 DEF Gone, Left, Waiting
<1>. QED BY <1>2, <1>3, <1>4 DEF ClientStep, ClientProceeds

\* What is sent is on its way if the connection is open; a greeting carries the
\* client's own signature, and is the first thing the connection carries.
LEMMA SentIsUnderWay ==
    ASSUME CommInv, AnswerInv, NEW c \in Conns, NEW m, NEW to, Carries(c), C!Sends(c, m, to),
           where[c] \in {"hello", "agree", "chat"}, heard' = heard,
           to \notin {"start", "hello"}, intact' = intact,
           used_nonces_per_client' = used_nonces_per_client, outcome' = outcome,
           m.method = "HelloFIUNAM" =>
               where[c] = "hello" /\ m.signed = intact[c] /\ m.auth_token = NoToken
    PROVE  Attended(c)'
<1>1. /\ Quiet(c) /\ ServerUntouched /\ socket' = socket
      /\ where' = [where EXCEPT ![c] = to]
      /\ inbox' = inbox \/ inbox'[c] = <<m>>
  BY SendsFacts
<1>2. where'[c] = to
  BY <1>1 DEF CommInv, ProgramTypes
<1>3. (\A n : <<n>> # <<>> /\ <<n>>[1] = n) /\ Append(<<>>, m) = <<m>>
  OBVIOUS
<1>4. Greets(c)'
  <2>1. ASSUME NEW n \in Sent, inbox'[c] = <<n>>, n.method = "HelloFIUNAM"
        PROVE  n.signed = intact[c] /\ n.auth_token = NoToken /\ used_nonces_per_client[c] = {}
    <3>1. n = m
      BY <1>1, <1>3, <2>1 DEF Quiet
    <3>. QED BY <2>1, <3>1 DEF AnswerInv, Attended, Greets
  <2>. QED BY <1>2, <2>1 DEF Greets
<1>5. ASSUME Open(c)' PROVE ~Quiet(c)'
  <2>1. Open(c)
    BY <1>1, <1>5 DEF Open, ServerUntouched
  <2>2. inbox' = [inbox EXCEPT ![c] = Append(@, m)]
    BY <2>1, StreamOpen DEF C!Sends
  <2>3. inbox'[c] = <<m>>
    BY <1>1, <1>3, <2>2, TypeFacts DEF Quiet
  <2>. QED BY <1>3, <2>3 DEF Quiet
<1>. QED BY <1>4, <1>5 DEF Attended, AnswerInv

LEMMA ClientStepAttends ==
    ASSUME CommInv, AnswerInv, NEW c \in Conns, ClientStep(c)
    PROVE  Attends(c)
<1>1. intact' = intact /\ used_nonces_per_client' = used_nonces_per_client /\ outcome' = outcome
  BY ClientTouchesNoNonce
<1>2. Attended(c)'
  <2>1. CASE ~ClientSpeaks(c) /\ ~ClientTypes(c)
    BY <1>1, <2>1, SilentSteps DEF AnswerInv, Attended, Greets
  <2>2. where[c] \in Places
    BY DEF CommInv, Conv, Standing
  <2>3. CASE ClientTypes(c)
    <3>1. PICK m : m = [method |-> "simple_message", sha256 |-> TRUE, key |-> session_keys_symetric[c]]
      OBVIOUS
    <3>2. /\ Carries(c) /\ heard' = heard /\ where[c] = "chat" /\ m.method = "simple_message"
          /\ C!Sends(c, m, "await answer")
      BY <2>3, <3>1 DEF ClientTypes, C!TypeText
    <3>. QED BY <1>1, <3>2, SentIsUnderWay
  <2>4. CASE ClientSpeaks(c) /\ C!AgreeParams(c)
    <3>1. PICK m : m = [method |-> "AgreeParams", algorithm |-> "ChaCha20"]
      OBVIOUS
    <3>2. /\ Carries(c) /\ heard' = heard /\ where[c] = "agree" /\ m.method = "AgreeParams"
          /\ C!Sends(c, m, "await start")
      BY <2>4, <3>1 DEF ClientSpeaks, C!AgreeParams
    <3>. QED BY <1>1, <3>2, SentIsUnderWay
  <2>5. CASE ClientSpeaks(c) /\ C!SayHello(c)
    <3>1. where[c] = "hello"
      BY <2>2, <2>5 DEF C!SayHello, Places, Gone, Left
    <3>2. PICK n : C!Sends(c, [method |-> "HelloFIUNAM", from |-> identity[c], nounce |-> n,
                               auth_token |-> NoToken, signed |-> intact[c]], "await greeting")
      BY <2>5, <3>1 DEF C!SayHello, NoToken
    <3>3. PICK m : m = [method |-> "HelloFIUNAM", from |-> identity[c], nounce |-> n,
                        auth_token |-> NoToken, signed |-> intact[c]]
      OBVIOUS
    <3>4. /\ Carries(c) /\ heard' = heard /\ m.signed = intact[c] /\ m.auth_token = NoToken
          /\ C!Sends(c, m, "await greeting")
      BY <2>5, <3>2, <3>3 DEF ClientSpeaks
    <3>. QED BY <1>1, <3>1, <3>4, SentIsUnderWay
  <2>6. ~C!RequestRegistration(c)
    BY <2>2 DEF C!RequestRegistration, Places, Gone, Left
  <2>. QED BY <2>1, <2>3, <2>4, <2>5, <2>6 DEF ClientSpeaks, C!Speaks
<1>. QED BY <1>1, <1>2 DEF Attends, NoncesOnlyGo

-----------------------------------------------------------------------------
\* The invariant.

LEMMA AnswerInvInit == CommInit => AnswerInv
<1> SUFFICES ASSUME CommInit, NEW c \in Conns PROVE Attended(c)
  BY DEF AnswerInv
<1>1. /\ used_nonces_per_client[c] = {} /\ inbox[c] = <<>> /\ outcome[c] = "none"
      /\ where[c] = "start"
  BY DEF CommInit, Init, NonceInit
<1>2. \A m : <<m>> # <<>>
  OBVIOUS
<1>. QED BY <1>1, <1>2 DEF Attended, Greets, Served, Waiting

LEMMA AnswerInvNext == CommInv /\ AnswerInv /\ [CommNext]_commVars => AnswerInv'
<1> SUFFICES ASSUME CommInv, AnswerInv, [CommNext]_commVars PROVE AnswerInv'
  OBVIOUS
<1>1. CASE ServerStarts
  <2> SUFFICES ASSUME NEW c \in Conns PROVE Attended(c)'
    BY DEF AnswerInv
  <2>1. /\ used_nonces_per_client'[c] = {} /\ inbox'[c] = <<>> /\ outcome'[c] = "none"
        /\ where'[c] = "start"
    BY <1>1 DEF ServerStarts, Start, ClientsStart
  <2>2. \A m : <<m>> # <<>>
    OBVIOUS
  <2>. QED BY <2>1, <2>2 DEF Attended, Greets, Served, Waiting
<1>2. CASE ServerSignal \/ ServerClock \/ UNCHANGED commVars
  <2>1. ServerGoesOn /\ intact' = intact /\ used_nonces_per_client' = used_nonces_per_client
    BY <1>2 DEF ServerSignal, ServerClock, commVars, programVars, Signal, Halts, Clock, Tick,
                nonceVars, vars, ServerGoesOn
  <2>2. \A d \in Conns : Same(d)
    BY <1>2 DEF ServerSignal, ServerClock, commVars, programVars, Signal, Halts, Clock, netVars,
                ioVars, keyVars, vars, Same
  <2>. QED BY <2>1, <2>2, SameAttended DEF AnswerInv
<1>3. ASSUME NEW c \in Conns, ServerStep(c) PROVE AnswerInv'
  BY <1>3, ServerStepKeeps, ServerStepAttends, AttendsInv
<1>4. ASSUME NEW c \in Conns, ClientStep(c) PROVE AnswerInv'
  BY <1>4, ClientStepKeeps, ClientStepAttends, AttendsInv DEF ClientStep
<1>. QED BY <1>1, <1>2, <1>3, <1>4 DEF CommNext, ClientStep

LEMMA AnswerInvHolds == CommSpec => [](CommInv /\ AnswerInv)
BY CommInvInit, CommInvNext, AnswerInvInit, AnswerInvNext, PTL DEF CommSpec

\* A client that waits has something coming to it, and the server is free to
\* bring it.
THEOREM NobodyWaitsInVainHolds == CommSpec => []NobodyWaitsInVain
<1>1. CommInv /\ AnswerInv => NobodyWaitsInVain
  <2> SUFFICES ASSUME CommInv, AnswerInv, NEW c \in Conns, where[c] \in Waiting, Open(c)
               PROVE  \/ responses[c] # <<>>
                      \/ Ready /\ pending[c] = "write" /\ HasRoom(c)
                      \/ Ready /\ inbox[c] # <<>> /\ pending[c] = "read"
                      \/ Ready /\ inbox[c] # <<>> /\ socket[c] = "backlog" /\ Accepting
    BY StreamOpen, WaitingPlaces, Zenon DEF NobodyWaitsInVain
  <2>1. Ready
    BY DEF Open, CommInv, Ready
  <2>2. peer[c] = "open"
    BY DEF CommInv, Conv, Connection, Waiting, Left
  <2>3. PICK k \in Exchanges : UnderWay(c, k)
    BY DEF AnswerInv, Attended, CommInv, Conv, Flow
  <2>4. CASE Answered(c, k)
    <3>1. \A r : <<r>> # <<>>
      OBVIOUS
    <3>. QED BY <2>4, <3>1 DEF Answered
  <2>5. CASE BeingAnswered(c, k)
    <3>1. pending[c] = "write" /\ responses[c] = <<>> /\ Len(<<>>) = 0
      BY <2>5 DEF BeingAnswered
    <3>2. socket[c] # "closed" /\ server = "running"
      BY DEF Open
    <3>3. unread[c] = 0
      BY <2>2, <3>1, <3>2 DEF CommInv, Conv, Connection
    <3>4. HasRoom(c)
      BY <3>3, CommAssumption DEF HasRoom
    <3>. QED BY <2>1, <3>1, <3>4
  <2>6. CASE Asked(c, k)
    <3>1. inbox[c] # <<>> /\ pending[c] # "write"
      <4>1. \A m : <<m>> # <<>>
        OBVIOUS
      <4>. QED BY <2>6, <4>1 DEF Asked
    <3>2. CASE socket[c] = "open"
      <4>1. ~Stalled(c)
        BY DEF CommInv, ServerInv, NoOtherStall, AnswerInv, Attended, Served
      <4>2. pending[c] \in Operations
        BY TypeFacts
      <4>. QED BY <2>1, <3>1, <3>2, <4>1, <4>2 DEF Stalled, Operations
    <3>3. CASE socket[c] = "backlog"
      <4>. DEFINE d == connection_counter_ + 1
      <4>1. connection_counter_ \in Nat /\ c \in Nat /\ connection_counter_ < c
        BY <3>3, ConstantFacts DEF CommInv, ServerInv, Types, IoTypes, AcceptedInOrder
      <4>2. d \in 1..c
        BY <4>1
      <4>3. d \in Conns
        BY <4>2, ServerAssumption
      <4>4. d \in Nat /\ connection_counter_ < d /\ (d = c \/ d < c)
        BY ONLY <4>1
      <4>5. socket[d] = "backlog"
        BY <3>3, <4>3, <4>4 DEF CommInv, ServerInv, AcceptedInOrder
      <4>6. peer[d] # "reset"
        BY <4>3, <4>5 DEF CommInv, Conv, Connection
      <4>. QED BY <2>1, <3>1, <3>3, <4>3, <4>5, <4>6 DEF Accepting
    <3>. QED BY <3>2, <3>3 DEF Open
  <2>. QED BY <2>3, <2>4, <2>5, <2>6 DEF UnderWay
<1>. QED BY <1>1, AnswerInvHolds, PTL

-----------------------------------------------------------------------------
\* The way of an answer.

DistanceIs(c) ==
    /\ Distance(c) \in {0, 1, 2, 3}
    /\ ~Open(c) \/ responses[c] # <<>> => Distance(c) = 0
    /\ Open(c) /\ responses[c] = <<>> =>
          Distance(c) = IF pending[c] = "write" THEN 1 ELSE IF socket[c] = "open" THEN 2 ELSE 3

LEMMA DistanceCases == CommInv => \A c \in Conns : DistanceIs(c)
<1> SUFFICES ASSUME CommInv, NEW c \in Conns PROVE DistanceIs(c)
  OBVIOUS
<1>3. (Stream[c] = "open") <=> Open(c)
  BY StreamOpen
<1>1. CASE ~Open(c) \/ responses[c] # <<>>
  <2>1. Distance(c) = 0
    BY ONLY <1>1, <1>3 DEF Distance
  <2>. QED BY <1>1, <2>1 DEF DistanceIs
<1>2. CASE Open(c) /\ responses[c] = <<>>
  <2>1. Distance(c) = IF pending[c] = "write" THEN 1 ELSE IF socket[c] = "open" THEN 2 ELSE 3
    BY ONLY <1>2, <1>3 DEF Distance
  <2>. QED BY <1>2, <2>1 DEF DistanceIs
<1>. QED BY <1>1, <1>2

LEMMA DistanceCasesNext == CommInv' => \A c \in Conns : DistanceIs(c)'
<1>1. CommInv' => (\A c \in Conns : DistanceIs(c))'
  BY DistanceCases, PTL
<1>. QED BY <1>1

LEMMA DistanceSame ==
    ASSUME CommInv, CommInv', NEW c \in Conns, Same(c), ServerGoesOn
    PROVE  Distance(c)' <= Distance(c)
<1>1. DistanceIs(c) /\ DistanceIs(c)'
  BY DistanceCases, DistanceCasesNext
<1>2. Open(c)' => Open(c)
  BY DEF Open, Same, ServerGoesOn
<1>3. /\ responses'[c] = responses[c] /\ pending'[c] = pending[c] /\ socket'[c] = socket[c]
  BY DEF Same
<1>4. Distance(c)' = 0 \/ Distance(c)' = Distance(c)
  BY <1>1, <1>2, <1>3 DEF DistanceIs
<1>5. Distance(c) \in {0, 1, 2, 3}
  BY <1>1 DEF DistanceIs
<1>. QED BY ONLY <1>4, <1>5

LEMMA ServerStepNearer ==
    ASSUME CommInv, CommInv', AnswerInv, NEW c \in Conns, ServerStep(c), where[c] \in Waiting
    PROVE  Distance(c)' < Distance(c)
<1>1. DistanceIs(c) /\ DistanceIs(c)' /\ where[c] \notin Left
  BY DistanceCases, DistanceCasesNext DEF Waiting, Left
<1>2. server = "running"
  BY ServerStepFacts, IoKinds
  DEF Ready, Accept, HelloReplayed, HelloRefused, HelloAccepted, AgreeParamsAccepted,
      SimpleAnswered, ReadError, WriteError, WriteDone, Handles
<1>3. CASE /\ socket[c] = "backlog" /\ socket'[c] = "open" /\ pending[c] # "write"
           /\ pending'[c] = "read" /\ UNCHANGED responses /\ responses[c] = <<>>
  <2>1. Distance(c) = 3
    BY <1>1, <1>2, <1>3 DEF DistanceIs, Open
  <2>2. Distance(c)' \in {0, 2}
    BY <1>1, <1>3 DEF DistanceIs
  <2>. QED BY ONLY <2>1, <2>2
<1>4. CASE /\ socket[c] = "open" /\ pending[c] = "read" /\ responses[c] = <<>>
           /\ socket'[c] = "closed" \/ (pending'[c] = "write" /\ responses'[c] = <<>>)
  <2>1. Distance(c) = 2
    BY <1>1, <1>2, <1>4 DEF DistanceIs, Open
  <2>2. Distance(c)' \in {0, 1}
    BY <1>1, <1>4 DEF DistanceIs, Open
  <2>. QED BY ONLY <2>1, <2>2
<1>5. CASE WriteDone(c) /\ pending[c] = "write" /\ responses[c] = <<>> /\ responses'[c] # <<>>
  <2>1. Distance(c) = 1
    BY <1>1, <1>2, <1>5 DEF DistanceIs, Open, WriteDone
  <2>2. Distance(c)' = 0
    BY <1>1, <1>5 DEF DistanceIs
  <2>. QED BY ONLY <2>1, <2>2
<1>. QED BY <1>1, <1>3, <1>4, <1>5, ServerStepTaken

\* What is waited for comes nearer with every step of the server for it, and
\* nothing else that happens on any connection puts it off.
THEOREM AnswersComeNearerHolds == CommSpec => AnswersComeNearer
<1>1. ASSUME CommInv, CommInv', AnswerInv, [CommNext]_commVars, NEW c \in Conns,
             where[c] \in C!Awaiting, where'[c] = where[c]
      PROVE  /\ Distance(c)' <= Distance(c)
             /\ ServerStep(c) => Distance(c)' < Distance(c)
  <2>1. where[c] \in Waiting
    BY <1>1, WaitingPlaces
  <2>2. ServerStep(c) => Distance(c)' < Distance(c)
    BY <1>1, <2>1, ServerStepNearer
  <2>3. Distance(c)' <= Distance(c)
    <3>1. Distance(c) \in {0, 1, 2, 3} /\ Distance(c)' \in {0, 1, 2, 3}
      BY <1>1, DistanceCases, DistanceCasesNext DEF DistanceIs
    <3>2. CASE ServerStarts
      <4>1. where'[c] = "start"
        BY <3>2 DEF ServerStarts, ClientsStart
      <4>. QED BY <1>1, <2>1, <4>1 DEF Waiting
    <3>3. CASE ServerSignal \/ ServerClock \/ UNCHANGED commVars
      <4>1. ServerGoesOn
        BY <3>3 DEF ServerSignal, ServerClock, commVars, Signal, Halts, Clock, vars, ServerGoesOn
      <4>2. Same(c)
        BY <3>3 DEF ServerSignal, ServerClock, commVars, programVars, Signal, Halts, Clock, netVars,
                    ioVars, keyVars, vars, Same
      <4>. QED BY <1>1, <4>1, <4>2, DistanceSame
    <3>4. ASSUME NEW d \in Conns, ServerStep(d) \/ ClientStep(d) PROVE Distance(c)' <= Distance(c)
      <4>1. Keeps(d)
        BY <1>1, <3>4, ServerStepKeeps, ClientStepKeeps DEF ClientStep
      <4>2. CASE d # c
        BY <1>1, <4>1, <4>2, DistanceSame DEF Keeps
      <4>3. CASE d = c /\ ServerStep(d)
        <5>1. Distance(c)' < Distance(c)
          BY <2>2, <4>3
        <5>. QED BY ONLY <3>1, <5>1
      <4>4. CASE d = c /\ ClientStep(d)
        <5>1. ~ClientSpeaks(c) /\ ~ClientTypes(c)
          BY <2>1 DEF ClientSpeaks, ClientTypes, C!TypeText, Waiting
        <5>2. where'[c] \notin Waiting
          BY <1>1, <4>4, <5>1, SilentSteps
        <5>. QED BY <1>1, <2>1, <5>2
      <4>. QED BY <3>4, <4>2, <4>3, <4>4
    <3>. QED BY <1>1, <3>2, <3>3, <3>4 DEF CommNext, ClientStep
  <2>. QED BY <2>2, <2>3
<1>2. CommInv /\ CommInv' /\ AnswerInv /\ [CommNext]_commVars =>
        [\A c \in Conns : where[c] \in C!Awaiting /\ where'[c] = where[c] =>
            /\ Distance(c)' <= Distance(c)
            /\ ServerStep(c) => Distance(c)' < Distance(c)]_commVars
  BY <1>1
<1>. QED BY <1>2, AnswerInvHolds, PTL DEF CommSpec, AnswersComeNearer

\* Nobody whose signature is right is refused, but for what the list says of its
\* keys, or because the list could not be opened.  (Where a list that is there may be
\* unreadable the server may also refuse keys that are on it.)
THEOREM TurnedAwayForItsKeysHolds ==
    ASSUME "read" \notin Faults
    PROVE  CommSpec => TurnedAwayForItsKeys
<1>1. ASSUME CommInv, AnswerInv, [CommNext]_commVars, NEW c \in Conns,
             intact[c], outcome'[c] # outcome[c]
      PROVE  \/ outcome'[c] \in Served
             \/ /\ outcome'[c] = "refused" /\ ~is_client_registered(file, identity[c].keys)
                /\ \/ is_device_id_registered_with_different_keys(file, identity[c].id,
                                                                  identity[c].keys)
                   \/ "open" \in Faults
  <2>1. CASE ServerStarts
    BY <2>1 DEF ServerStarts, Start, Served
  <2>2. CASE ServerSignal \/ ServerClock \/ UNCHANGED commVars
    BY <1>1, <2>2 DEF ServerSignal, ServerClock, commVars, Signal, Halts, Clock, vars
  <2>3. ASSUME NEW d \in Conns, ServerStep(d) \/ ClientStep(d) PROVE d = c /\ ServerStep(c)
    <3>1. d = c
      BY <1>1, <2>3, ServerStepKeeps, ClientStepKeeps DEF ClientStep, Keeps, Same
    <3>. QED BY <1>1, <2>3, <3>1, ClientTouchesNoNonce
  <2>4. CASE ServerStep(c)
    <3>1. \/ HelloRefused(c) /\ outcome'[c] = "refused"
          \/ outcome'[c] \in Served
      BY <1>1, <2>4, ServerStepTaken DEF Served
    <3>. QED BY <1>1, <3>1, RefusalReason
  <2>. QED BY <1>1, <2>1, <2>2, <2>3, <2>4 DEF CommNext, ClientStep
<1>2. CommInv /\ AnswerInv /\ [CommNext]_commVars =>
        [\A c \in Conns :
            LET keys == identity[c].keys
            IN  intact[c] /\ outcome'[c] # outcome[c] =>
                  \/ outcome'[c] \in {"none", "greeted", "agreed", "answered", "disconnected"}
                  \/ /\ outcome'[c] = "refused" /\ ~is_client_registered(file, keys)
                     /\ \/ is_device_id_registered_with_different_keys(file, identity[c].id, keys)
                        \/ "open" \in Faults]_commVars
  BY <1>1 DEF Served
<1>. QED BY <1>2, AnswerInvHolds, PTL DEF CommSpec, TurnedAwayForItsKeys

=============================================================================
