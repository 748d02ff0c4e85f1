-------------------------------- MODULE Client --------------------------------
(***************************************************************************)
(* The client program: main, the handshake it makes with the server, the   *)
(* conversation, and the ways it ends.  One thread does all of it, in      *)
(* turn: a step is what lies between two calls that can wait.  The other   *)
(* thread runs an io_context that has nothing to do, and is there only to  *)
(* be joined.                                                              *)
(*                                                                         *)
(* The server is whatever sends responses and closes the stream: any at    *)
(* any time in this module's Spec, the server program in SecureComm.       *)
(*                                                                         *)
(* Abstracted: as in Server, a key pair of the server is a number, a       *)
(* session key the two key pairs it is derived from, a ciphertext the key  *)
(* that opens it.  A response that is empty or mentions "NOT TRUSTED" or   *)
(* "authentication FAILED" is a `refusal'; one without end mark, not JSON  *)
(* or of another method is `unknown'; a `malformed' one lacks a field that *)
(* is read.                                                                *)
(***************************************************************************)
EXTENDS Naturals, Sequences

CONSTANTS
    Clients,
    Keys,         \* device key pairs
    Identities,   \* [id, keys] of the devices
    Nonces,       \* what get_random_nonce yields, never twice to one client
    NoKey,        \* no session key
    Responses,    \* what a server may send
    MaxPending,   \* bound on the responses not yet received
    MaxTexts      \* bound on the lines typed

SessionKeys == [own : Nat, peer : Keys]

ASSUME ClientAssumption ==
    /\ NoKey \notin SessionKeys
    /\ \A i \in Identities : i.keys \in Keys
    /\ MaxPending \in Nat /\ MaxTexts \in Nat
    /\ Responses \subseteq
          [method : {"WhatsUpFIUNAM"}, own : Nat, signed : BOOLEAN]
          \cup [method : {"conn_continue"}, key : SessionKeys \cup {NoKey}]
          \cup [method : {"StartConversation", "RegistrationApproved", "RegistrationRejected",
                          "refusal", "unknown", "malformed"}]

VARIABLES
    identity,     \* the device's id and keys, loaded once
    intact,       \* its signature fits its keys (see KeyStore)
    stream,       \* the connection: "none", "open", "closed" by the server
    requests,     \* sent and not yet taken by the server
    responses,    \* sent by the server and not yet received
    where,        \* where the main thread is, or how the program ended
    session_keys_symetric,
    io_thread,    \* "none", "joinable", "joined"
    drawn,        \* nonces drawn
    texts,        \* lines sent
    acknowledged  \* history: lines a valid response was received for

netVars == <<stream, requests, responses>>
clientVars == <<where, session_keys_symetric, io_thread, drawn, texts, acknowledged>>
vars == <<identity, intact, netVars, clientVars>>

Greeting == {"await greeting", "await second greeting"}
Awaiting == Greeting \cup {"await approval", "await start", "await answer"}
Ended == {"returned", "terminated", "killed"}

Init ==
    /\ identity \in [Clients -> Identities]
    /\ intact \in [Clients -> BOOLEAN]
    /\ stream = [c \in Clients |-> "none"]
    /\ requests = [c \in Clients |-> <<>>]
    /\ responses = [c \in Clients |-> <<>>]
    /\ where = [c \in Clients |-> "start"]
    /\ session_keys_symetric = [c \in Clients |-> NoKey]
    /\ io_thread = [c \in Clients |-> "none"]
    /\ drawn = [c \in Clients |-> {}]
    /\ texts = [c \in Clients |-> 0]
    /\ acknowledged = [c \in Clients |-> 0]

Goes(c, to) == where' = [where EXCEPT ![c] = to]

-----------------------------------------------------------------------------
\* The constructor.  A connection that fails is only logged.

Constructs(c) ==
    /\ where[c] = "start" /\ Goes(c, "hello")
    /\ io_thread' = [io_thread EXCEPT ![c] = "joinable"]
    /\ UNCHANGED <<identity, intact, requests, responses, session_keys_symetric, drawn, texts,
                   acknowledged>>

Connect(c) == Constructs(c) /\ stream' = [stream EXCEPT ![c] = "open"]

ConnectFails(c) == Constructs(c) /\ UNCHANGED stream

-----------------------------------------------------------------------------
\* send_message: errors are logged, and the program goes on.

Sends(c, m, to) ==
    /\ requests' = IF stream[c] = "open" THEN [requests EXCEPT ![c] = Append(@, m)] ELSE requests
    /\ Goes(c, to)
    /\ UNCHANGED <<identity, intact, stream, responses, session_keys_symetric, io_thread,
                   acknowledged>>

SayHello(c) ==
    /\ where[c] \in {"hello", "hello again"}
    /\ \E n \in Nonces \ drawn[c] :
          /\ Sends(c, [method |-> "HelloFIUNAM", from |-> identity[c], nounce |-> n,
                       auth_token |-> "", signed |-> intact[c]],
                   IF where[c] = "hello" THEN "await greeting" ELSE "await second greeting")
          /\ drawn' = [drawn EXCEPT ![c] = @ \cup {n}]
    /\ UNCHANGED texts

RequestRegistration(c) ==
    /\ where[c] = "register"
    /\ Sends(c, [method |-> "RequestRegistration", from |-> identity[c],
                 auth_token |-> "DEV_TOKEN_12345"], "await approval")
    /\ UNCHANGED <<drawn, texts>>

\* Variant: the answer is not waited for.
AgreeAndGoOn(c) ==
    /\ where[c] = "agree"
    /\ Sends(c, [method |-> "AgreeParams", algorithm |-> "ChaCha20"], "chat")
    /\ UNCHANGED <<drawn, texts>>

AgreeParams(c) ==
    /\ where[c] = "agree"
    /\ Sends(c, [method |-> "AgreeParams", algorithm |-> "ChaCha20"], "await start")
    /\ UNCHANGED <<drawn, texts>>

\* Variant: whether there is a key is not asked.
TypeTextAnyway(c) ==
    /\ where[c] = "chat" /\ texts[c] < MaxTexts
    /\ Sends(c, [method |-> "simple_message", sha256 |-> TRUE,
                 key |-> session_keys_symetric[c]], "await answer")
    /\ texts' = [texts EXCEPT ![c] = @ + 1]
    /\ UNCHANGED drawn

\* A line is typed; encrypting it under an empty key faults.
TypeText(c) ==
    /\ where[c] = "chat" /\ texts[c] < MaxTexts
    /\ session_keys_symetric[c] # NoKey
    /\ Sends(c, [method |-> "simple_message", sha256 |-> TRUE,
                 key |-> session_keys_symetric[c]], "await answer")
    /\ texts' = [texts EXCEPT ![c] = @ + 1]
    /\ UNCHANGED drawn

-----------------------------------------------------------------------------
\* receive_message: all that has arrived is taken; only its first message will
\* be parsed, and the rest is lost.
Receives(c, n) ==
    /\ responses' = [responses EXCEPT ![c] = SubSeq(@, n + 1, Len(@))]
    /\ UNCHANGED <<identity, intact, stream, requests, io_thread, drawn, texts>>

\* Two answers are searched for in the whole of it.
Mentions(c, n, what) == \E i \in 1..n : responses[c][i].method = what

\* Variant: the keys are derived in the role of a server, and open nothing.
DerivedAsServer(c, own) == [own |-> 0, peer |-> identity[c].keys]

Derived(c, own) == [own |-> own, peer |-> identity[c].keys]

\* A response is judged by its method alone: the one awaited is not the only one
\* that is accepted.
Throws(c, r) == \/ r.method = "malformed"
                \/ r.method = "conn_continue" /\ session_keys_symetric[c] = NoKey

Valid(c, r) == \/ r.method = "WhatsUpFIUNAM" /\ r.signed
               \/ r.method = "StartConversation"
               \/ r.method = "conn_continue" /\ r.key = session_keys_symetric[c]

is_valid_response_from_server(c, valid, invalid) ==
    LET r == Head(responses[c])
    IN  /\ Goes(c, IF Throws(c, r) THEN "throwing" ELSE IF Valid(c, r) THEN valid ELSE invalid)
        /\ session_keys_symetric' =
              IF r.method = "WhatsUpFIUNAM" /\ r.signed
              THEN [session_keys_symetric EXCEPT ![c] = Derived(c, r.own)]
              ELSE session_keys_symetric

HearsRefusal(c) ==
    /\ where[c] = "await greeting"
    /\ \E n \in 1..Len(responses[c]) : Receives(c, n) /\ Mentions(c, n, "refusal")
    /\ Goes(c, "register")
    /\ UNCHANGED <<session_keys_symetric, acknowledged>>

HearsApproval(c) ==
    /\ where[c] = "await approval"
    /\ \E n \in 1..Len(responses[c]) :
          /\ Receives(c, n)
          /\ Goes(c, IF Mentions(c, n, "RegistrationApproved") THEN "hello again" ELSE "return")
    /\ UNCHANGED <<session_keys_symetric, acknowledged>>

HearsGreeting(c) ==
    /\ where[c] \in Greeting
    /\ \E n \in 1..Len(responses[c]) :
          Receives(c, n) /\ (where[c] = "await greeting" => ~Mentions(c, n, "refusal"))
    /\ is_valid_response_from_server(c, "agree", "return")
    /\ UNCHANGED acknowledged

\* Variant: parameters that were not agreed on lead back to the greeting.
HearsStartOrRetries(c) ==
    /\ where[c] = "await start" /\ \E n \in 1..Len(responses[c]) : Receives(c, n)
    /\ is_valid_response_from_server(c, "chat", "hello again")
    /\ UNCHANGED acknowledged

HearsStart(c) ==
    /\ where[c] = "await start" /\ \E n \in 1..Len(responses[c]) : Receives(c, n)
    /\ is_valid_response_from_server(c, "chat", "return")
    /\ UNCHANGED acknowledged

HearsAnswer(c) ==
    /\ where[c] = "await answer" /\ \E n \in 1..Len(responses[c]) : Receives(c, n)
    /\ is_valid_response_from_server(c, "chat", "shutdown")
    /\ acknowledged' = IF where'[c] = "chat" THEN [acknowledged EXCEPT ![c] = @ + 1]
                       ELSE acknowledged

Moves(c, to) ==
    /\ Goes(c, to)
    /\ UNCHANGED <<identity, intact, netVars, session_keys_symetric, io_thread, drawn, texts,
                   acknowledged>>

\* Variant: the end of the stream is an empty message, as the handshake expects.
ReceivesNothing(c) ==
    /\ where[c] = "await greeting" /\ stream[c] # "open"
    /\ Moves(c, "register")

\* read_until throws at the end of the stream or at a reset, which may also
\* discard what had arrived.  Nothing catches it.
ReceiveFails(c) ==
    /\ where[c] \in Awaiting /\ stream[c] # "open"
    /\ Moves(c, "throwing")

-----------------------------------------------------------------------------
\* The end.

\* A line is typed and there is no key to encrypt it under.
TextWithoutKey(c) ==
    /\ where[c] = "chat" /\ session_keys_symetric[c] = NoKey
    /\ Moves(c, "throwing")

\* getline leaves an empty line for ever, and an empty line is ignored.
EndOfInput(c) == where[c] = "chat" /\ Moves(c, "spinning")

\* stop_socket after the loop; the destructor calls it again.
StopSocket(c) ==
    /\ where[c] = "shutdown" /\ Goes(c, "return")
    /\ io_thread' = [io_thread EXCEPT ![c] = "joined"]
    /\ UNCHANGED <<identity, intact, netVars, session_keys_symetric, drawn, texts, acknowledged>>

\* ~Client: a thread that is not joinable cannot be joined, and the exception
\* cannot leave a destructor.
Destroy(c) ==
    /\ where[c] = "return"
    /\ Goes(c, IF io_thread[c] = "joinable" THEN "returned" ELSE "terminated")
    /\ io_thread' = [io_thread EXCEPT ![c] = "joined"]
    /\ UNCHANGED <<identity, intact, netVars, session_keys_symetric, drawn, texts, acknowledged>>

Abort(c) == where[c] = "throwing" /\ Moves(c, "terminated")

\* Ctrl+C.
Killed(c) == where[c] \notin {"start"} \cup Ended /\ Moves(c, "killed")

-----------------------------------------------------------------------------
Speaks(c) == SayHello(c) \/ RequestRegistration(c) \/ AgreeParams(c)

Hears(c) == HearsRefusal(c) \/ HearsApproval(c) \/ HearsGreeting(c) \/ HearsStart(c)
            \/ HearsAnswer(c)

Thinks(c) == ReceiveFails(c) \/ StopSocket(c)

\* What its user may do that sends nothing.
Inputs(c) == EndOfInput(c) \/ TextWithoutKey(c)

Ends(c) == Abort(c) \/ Destroy(c)

\* What the program does without its user.
Proceeds(c) == Speaks(c) \/ Hears(c) \/ Thinks(c) \/ Ends(c)

\* A server of no particular kind.
Respond(c) ==
    /\ stream[c] = "open" /\ Len(responses[c]) < MaxPending
    /\ \E r \in Responses : responses' = [responses EXCEPT ![c] = Append(@, r)]
    /\ UNCHANGED <<identity, intact, stream, requests, clientVars>>

Close(c) ==
    /\ stream[c] = "open"
    /\ stream' = [stream EXCEPT ![c] = "closed"]
    /\ UNCHANGED <<identity, intact, requests, responses, clientVars>>

Next == \E c \in Clients :
            \/ Connect(c) \/ ConnectFails(c) \/ TypeText(c) \/ Inputs(c) \/ Killed(c)
            \/ Proceeds(c) \/ Respond(c) \/ Close(c)

Spec == Init /\ [][Next]_vars

FairSpec == Spec /\ \A c \in Clients : WF_vars(Proceeds(c))

-----------------------------------------------------------------------------
Locations == {"start", "hello", "register", "hello again", "agree", "chat", "shutdown",
              "return", "throwing", "spinning"} \cup Awaiting \cup Ended

Requests ==
    [method : {"HelloFIUNAM"}, from : Identities, nounce : Nonces, auth_token : {""},
     signed : BOOLEAN]
    \cup [method : {"RequestRegistration"}, from : Identities, auth_token : {"DEV_TOKEN_12345"}]
    \cup [method : {"AgreeParams"}, algorithm : {"ChaCha20"}]
    \cup [method : {"simple_message"}, sha256 : {TRUE}, key : SessionKeys]

TypeOK ==
    /\ identity \in [Clients -> Identities]
    /\ intact \in [Clients -> BOOLEAN]
    /\ stream \in [Clients -> {"none", "open", "closed"}]
    /\ requests \in [Clients -> Seq(Requests)]
    /\ responses \in [Clients -> Seq(Responses)]
    /\ where \in [Clients -> Locations]
    /\ session_keys_symetric \in [Clients -> SessionKeys \cup {NoKey}]
    /\ io_thread \in [Clients -> {"none", "joinable", "joined"}]
    /\ drawn \in [Clients -> SUBSET Nonces]
    /\ texts \in [Clients -> 0..MaxTexts]
    /\ acknowledged \in [Clients -> 0..MaxTexts]

Phase(m) == CASE m.method = "AgreeParams" -> 2
              [] m.method = "simple_message" -> 3
              [] OTHER -> 1

\* Whatever the server answers, and in whatever order, what the client says is a
\* conversation: greetings and registrations, then the parameters, once, then
\* texts; no text before the parameters, and none of another device's session.
ConversationInOrder ==
    \A c \in Clients :
        LET said == requests[c]
        IN  /\ \A i, j \in DOMAIN said : i < j => Phase(said[i]) <= Phase(said[j])
            /\ \A i, j \in DOMAIN said : Phase(said[i]) = 2 /\ Phase(said[j]) = 2 => i = j
            /\ \A i \in DOMAIN said : Phase(said[i]) = 3 =>
                  /\ \E j \in DOMAIN said : j < i /\ Phase(said[j]) = 2
                  /\ said[i].key.peer = identity[c].keys

\* A client whose server is gone ends by itself, unless it waits for its user.
EndsWithoutServer ==
    \A c \in Clients :
        (stream[c] = "closed" /\ where[c] # "start")
            ~> where[c] \in Ended \cup {"chat", "spinning"}

\* Why it ends: the steps from each place to the end, hearing an answer apart.
Rank(place) ==
    CASE place = "hello" -> 12
      [] place = "await greeting" -> 11
      [] place = "register" -> 10
      [] place = "await approval" -> 9
      [] place = "hello again" -> 8
      [] place = "await second greeting" -> 7
      [] place = "agree" -> 6
      [] place = "await start" -> 5
      [] place = "chat" -> 4
      [] place = "await answer" -> 3
      [] place = "shutdown" -> 2
      [] place \in {"return", "throwing", "spinning"} -> 1
      [] OTHER -> 0

StepsLeft(c) == 2 * Len(responses[c]) + Rank(where[c])

\* Without its server every step of a client, its user's included, brings its end
\* nearer: no failed send, lost answer or retry leads back to an earlier place
\* without using up a response, and there come no more.
WindsDown ==
    [][\A c \in Clients :
          stream[c] # "open" /\ where[c] # "start" =>
              /\ stream'[c] = stream[c]
              /\ \/ where'[c] = where[c] /\ responses'[c] = responses[c]
                 \/ StepsLeft(c)' < StepsLeft(c)]_vars

=============================================================================
