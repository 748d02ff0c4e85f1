----------------------------- MODULE Client_proofs -----------------------------
(***************************************************************************)
(* Whatever a server answers, the client says a conversation, for every    *)
(* number of clients, nonces and texts: the types of its state, and        *)
(* ConversationInOrder; and without the server it winds down.              *)
(*                                                                         *)
(* Neither of the first two is inductive.  That a text follows the parameters is known from *)
(* where the program is only as long as the connection is open (LateInv);  *)
(* that no greeting follows them needs all it said until then to be        *)
(* greetings (EarlyInv); and the count of the answers is bounded by the    *)
(* texts they answer (CountInv).                                           *)
(***************************************************************************)
EXTENDS Client, TLAPS

Early == {"start", "hello", "await greeting", "register", "await approval", "hello again",
          "await second greeting", "agree"}

Late == {"await start", "chat", "await answer"}

\* ConversationInOrder of what one client said.
InOrder(said, keys) ==
    /\ \A i, j \in DOMAIN said : i < j => Phase(said[i]) <= Phase(said[j])
    /\ \A i, j \in DOMAIN said : Phase(said[i]) = 2 /\ Phase(said[j]) = 2 => i = j
    /\ \A i \in DOMAIN said : Phase(said[i]) = 3 =>
          /\ \E j \in DOMAIN said : j < i /\ Phase(said[j]) = 2
          /\ said[i].key.peer = keys

EarlyInv(c) == where[c] \in Early => \A i \in DOMAIN requests[c] : Phase(requests[c][i]) = 1

LateInv(c) == where[c] \in Late /\ stream[c] = "open" =>
                  \E i \in DOMAIN requests[c] : Phase(requests[c][i]) = 2

KeyInv(c) == session_keys_symetric[c] # NoKey => session_keys_symetric[c].peer = identity[c].keys

CountInv(c) == /\ acknowledged[c] <= texts[c]
               /\ where[c] = "await answer" => acknowledged[c] < texts[c]

ConvInv(c) == EarlyInv(c) /\ LateInv(c) /\ KeyInv(c) /\ CountInv(c)
              /\ InOrder(requests[c], identity[c].keys)

ClientInv == TypeOK /\ \A c \in Clients : ConvInv(c)

-----------------------------------------------------------------------------
\* Messages.

LEMMA Phases ==
    /\ \A m : Phase(m) \in {1, 2, 3}
    /\ \A m : Phase(m) = 2 <=> m.method = "AgreeParams"
    /\ \A m : Phase(m) = 3 <=> m.method = "simple_message"
BY DEF Phase

LEMMA Appended ==
    ASSUME NEW S, NEW said \in Seq(S), NEW m \in S
    PROVE  /\ Append(said, m) \in Seq(S)
           /\ DOMAIN said = 1..Len(said) /\ Len(said) \in Nat
           /\ DOMAIN Append(said, m) = 1..(Len(said) + 1)
           /\ \A i \in DOMAIN said : Append(said, m)[i] = said[i]
           /\ Append(said, m)[Len(said) + 1] = m
OBVIOUS

\* Saying one thing more.
LEMMA SaysMore ==
    ASSUME NEW S, NEW said \in Seq(S), NEW m \in S, NEW keys, InOrder(said, keys),
           \A i \in DOMAIN said : Phase(said[i]) <= Phase(m),
           Phase(m) = 2 => \A i \in DOMAIN said : Phase(said[i]) = 1,
           Phase(m) = 3 => /\ \E i \in DOMAIN said : Phase(said[i]) = 2
                           /\ m.key.peer = keys
    PROVE  InOrder(Append(said, m), keys)
<1> DEFINE more == Append(said, m)
           last == Len(said) + 1
<1>1. /\ DOMAIN said = 1..Len(said) /\ Len(said) \in Nat
      /\ DOMAIN more = 1..last
      /\ \A i \in DOMAIN said : more[i] = said[i]
      /\ more[last] = m
  BY Appended
<1> HIDE DEF more
<1>2. ASSUME NEW i \in DOMAIN more, NEW j \in DOMAIN more, i < j
      PROVE  Phase(more[i]) <= Phase(more[j])
  <2>1. i \in DOMAIN said /\ more[i] = said[i]
    BY <1>1, <1>2
  <2>2. j \in DOMAIN said \/ j = last
    BY <1>1
  <2>. QED BY <1>1, <1>2, <2>1, <2>2 DEF InOrder
<1>3. ASSUME NEW i \in DOMAIN more, NEW j \in DOMAIN more, Phase(more[i]) = 2, Phase(more[j]) = 2
      PROVE  i = j
  <2>1. (i \in DOMAIN said \/ i = last) /\ (j \in DOMAIN said \/ j = last)
    BY <1>1
  <2>. QED BY <1>1, <1>3, <2>1 DEF InOrder
<1>4. ASSUME NEW i \in DOMAIN more, Phase(more[i]) = 3
      PROVE  /\ \E j \in DOMAIN more : j < i /\ Phase(more[j]) = 2
             /\ more[i].key.peer = keys
  <2>1. CASE i \in DOMAIN said
    <3>1. PICK j \in DOMAIN said : j < i /\ Phase(said[j]) = 2
      BY <1>1, <1>4, <2>1 DEF InOrder
    <3>2. j \in DOMAIN more /\ more[j] = said[j]
      BY <1>1
    <3>3. more[i].key.peer = keys
      BY <1>1, <1>4, <2>1 DEF InOrder
    <3>. QED BY <3>1, <3>2, <3>3
  <2>2. CASE i = last
    <3>1. PICK j \in DOMAIN said : Phase(said[j]) = 2
      BY <1>1, <1>4, <2>2
    <3>2. j \in DOMAIN more /\ more[j] = said[j] /\ j < i
      BY <1>1, <2>2
    <3>. QED BY <1>1, <1>4, <2>2, <3>1, <3>2
  <2>. QED BY <1>1, <2>1, <2>2
<1>. QED BY <1>2, <1>3, <1>4 DEF InOrder, more

\* What may be received.
LEMMA ResponseFields ==
    ASSUME NEW r \in Responses
    PROVE  r.method = "WhatsUpFIUNAM" => r.own \in Nat
BY ClientAssumption

LEMMA Received ==
    ASSUME NEW s \in Seq(Responses), NEW n \in 1..Len(s)
    PROVE  Head(s) \in Responses /\ SubSeq(s, n + 1, Len(s)) \in Seq(Responses)
OBVIOUS

LEMMA Sent ==
    /\ \A i \in Identities, n \in Nonces, b \in BOOLEAN :
          [method |-> "HelloFIUNAM", from |-> i, nounce |-> n, auth_token |-> "", signed |-> b]
                \in Requests
    /\ \A i \in Identities :
          [method |-> "RequestRegistration", from |-> i, auth_token |-> "DEV_TOKEN_12345"]
                \in Requests
    /\ [method |-> "AgreeParams", algorithm |-> "ChaCha20"] \in Requests
    /\ \A k \in SessionKeys : [method |-> "simple_message", sha256 |-> TRUE, key |-> k] \in Requests
BY DEF Requests

-----------------------------------------------------------------------------
\* A step of one client leaves the others alone.

Stays(d) ==
    /\ identity'[d] = identity[d] /\ stream'[d] = stream[d] /\ requests'[d] = requests[d]
    /\ where'[d] = where[d] /\ session_keys_symetric'[d] = session_keys_symetric[d]
    /\ texts'[d] = texts[d] /\ acknowledged'[d] = acknowledged[d]

LEMMA StaysInv ==
    ASSUME NEW d \in Clients, ConvInv(d), Stays(d)
    PROVE  ConvInv(d)'
BY DEF Stays, ConvInv, EarlyInv, LateInv, KeyInv, CountInv

\* What a step of client c has to establish.
Keeps(c) == TypeOK' /\ ConvInv(c)' /\ \A d \in Clients \ {c} : Stays(d)

LEMMA KeepsInv ==
    ASSUME ClientInv, NEW c \in Clients, Keeps(c)
    PROVE  ClientInv'
<1>1. ASSUME NEW d \in Clients PROVE ConvInv(d)'
  <2>1. CASE d = c
    BY <2>1 DEF Keeps
  <2>2. CASE d # c
    BY <2>2, StaysInv DEF Keeps, ClientInv
  <2>. QED BY <2>1, <2>2
<1>. QED BY <1>1 DEF Keeps, ClientInv

LEMMA Updated ==
    ASSUME NEW S, NEW f \in [Clients -> S], NEW c \in Clients, NEW v \in S
    PROVE  /\ [f EXCEPT ![c] = v] \in [Clients -> S]
           /\ [f EXCEPT ![c] = v][c] = v
           /\ \A d \in Clients \ {c} : [f EXCEPT ![c] = v][d] = f[d]
OBVIOUS

\* The step sends at most one message.
Said(c, m) == IF stream[c] = "open" THEN Append(requests[c], m) ELSE requests[c]

LEMMA SendsKeeps ==
    ASSUME ClientInv, NEW c \in Clients, NEW m \in Requests, NEW to \in Locations,
           Sends(c, m, to), drawn' \in [Clients -> SUBSET Nonces],
           texts' \in [Clients -> 0..MaxTexts],
           \A d \in Clients \ {c} : texts'[d] = texts[d],
           CountInv(c)',
           InOrder(Said(c, m), identity[c].keys),
           to \in Early => \A i \in DOMAIN Said(c, m) : Phase(Said(c, m)[i]) = 1,
           to \in Late /\ stream[c] = "open" =>
              \E i \in DOMAIN Said(c, m) : Phase(Said(c, m)[i]) = 2
    PROVE  Keeps(c)
<1>1. /\ where' \in [Clients -> Locations] /\ where'[c] = to
      /\ \A d \in Clients \ {c} : where'[d] = where[d]
  BY Updated DEF Sends, Goes, ClientInv, TypeOK
<1>2. /\ requests' \in [Clients -> Seq(Requests)]
      /\ requests'[c] = Said(c, m)
      /\ \A d \in Clients \ {c} : requests'[d] = requests[d]
  BY DEF Sends, ClientInv, TypeOK, Said
<1>3. TypeOK'
  BY <1>1, <1>2 DEF Sends, ClientInv, TypeOK
<1>4. \A d \in Clients \ {c} : Stays(d)
  BY <1>1, <1>2 DEF Stays, Sends
<1>5. EarlyInv(c)' /\ KeyInv(c)'
  BY <1>1, <1>2 DEF EarlyInv, KeyInv, Sends, ClientInv, ConvInv
<1>6. LateInv(c)'
  BY <1>1, <1>2 DEF LateInv, Sends
<1>7. InOrder(requests[c], identity[c].keys)'
  BY <1>2 DEF Sends, ClientInv, ConvInv
<1>. QED BY <1>3, <1>4, <1>5, <1>6, <1>7 DEF Keeps, ConvInv

\* A greeting, or the parameters, after greetings only.
LEMMA EarlySaid ==
    ASSUME ClientInv, NEW c \in Clients, NEW m \in Requests, where[c] \in Early,
           Phase(m) \in {1, 2}
    PROVE  /\ InOrder(Said(c, m), identity[c].keys)
           /\ Phase(m) = 1 => \A i \in DOMAIN Said(c, m) : Phase(Said(c, m)[i]) = 1
           /\ Phase(m) = 2 /\ stream[c] = "open" =>
                 \E i \in DOMAIN Said(c, m) : Phase(Said(c, m)[i]) = 2
<1>1. /\ requests[c] \in Seq(Requests)
      /\ InOrder(requests[c], identity[c].keys)
      /\ \A i \in DOMAIN requests[c] : Phase(requests[c][i]) = 1
  BY DEF ClientInv, TypeOK, ConvInv, EarlyInv
<1>2. InOrder(Append(requests[c], m), identity[c].keys)
  BY <1>1, SaysMore
<1>3. /\ DOMAIN Append(requests[c], m) = 1..(Len(requests[c]) + 1)
      /\ DOMAIN requests[c] = 1..Len(requests[c]) /\ Len(requests[c]) \in Nat
      /\ \A i \in DOMAIN requests[c] : Append(requests[c], m)[i] = requests[c][i]
      /\ Append(requests[c], m)[Len(requests[c]) + 1] = m
  BY <1>1, Appended
<1>4. Phase(m) = 1 =>
         \A i \in DOMAIN Append(requests[c], m) : Phase(Append(requests[c], m)[i]) = 1
  BY <1>1, <1>3
<1>5. Phase(m) = 2 =>
         \E i \in DOMAIN Append(requests[c], m) : Phase(Append(requests[c], m)[i]) = 2
  <2>. Len(requests[c]) + 1 \in DOMAIN Append(requests[c], m)
    BY <1>3
  <2>. QED BY <1>3
<1>. QED BY <1>1, <1>2, <1>4, <1>5 DEF Said

LEMMA CountsStay ==
    ASSUME ClientInv, NEW c \in Clients, texts' = texts, acknowledged' = acknowledged,
           where'[c] # "await answer"
    PROVE  CountInv(c)'
BY DEF ClientInv, ConvInv, CountInv

LEMMA SayHelloKeeps ==
    ASSUME ClientInv, NEW c \in Clients, SayHello(c)
    PROVE  Keeps(c)
<1>1. PICK n \in Nonces :
        LET m == [method |-> "HelloFIUNAM", from |-> identity[c], nounce |-> n,
                  auth_token |-> "", signed |-> intact[c]]
        IN  /\ Sends(c, m, IF where[c] = "hello" THEN "await greeting"
                           ELSE "await second greeting")
            /\ drawn' = [drawn EXCEPT ![c] = @ \cup {n}]
  BY DEF SayHello
<1> DEFINE m == [method |-> "HelloFIUNAM", from |-> identity[c], nounce |-> n,
                 auth_token |-> "", signed |-> intact[c]]
           to == IF where[c] = "hello" THEN "await greeting" ELSE "await second greeting"
<1>2. m \in Requests /\ Phase(m) = 1
  <2>1. intact[c] \in BOOLEAN /\ identity[c] \in Identities
    BY DEF ClientInv, TypeOK
  <2>2. m \in Requests /\ m.method = "HelloFIUNAM"
    BY <2>1, Sent
  <2>. QED BY ONLY <2>2 DEF Phase
<1>3. /\ to \in Early /\ to \in Locations /\ to \notin Late /\ to # "await answer"
      /\ where[c] \in Early
  BY DEF SayHello, Early, Late, Locations, Awaiting, Greeting
<1>4. Sends(c, m, to) /\ drawn' \in [Clients -> SUBSET Nonces]
  BY <1>1 DEF ClientInv, TypeOK
<1> HIDE DEF m, to
<1>5. where'[c] = to
  BY <1>4 DEF Sends, Goes, ClientInv, TypeOK
<1>6. CountInv(c)'
  BY <1>3, <1>4, <1>5, CountsStay DEF SayHello, Sends
<1>7. texts' \in [Clients -> 0..MaxTexts] /\ \A d \in Clients \ {c} : texts'[d] = texts[d]
  BY DEF SayHello, ClientInv, TypeOK
<1>8. /\ InOrder(Said(c, m), identity[c].keys)
      /\ \A i \in DOMAIN Said(c, m) : Phase(Said(c, m)[i]) = 1
  BY <1>2, <1>3, EarlySaid
<1>. QED BY <1>2, <1>3, <1>4, <1>6, <1>7, <1>8, SendsKeeps

LEMMA RequestRegistrationKeeps ==
    ASSUME ClientInv, NEW c \in Clients, RequestRegistration(c)
    PROVE  Keeps(c)
<1> DEFINE m == [method |-> "RequestRegistration", from |-> identity[c],
                 auth_token |-> "DEV_TOKEN_12345"]
<1>1. m \in Requests /\ Phase(m) = 1
  <2>0. identity[c] \in Identities
    BY DEF ClientInv, TypeOK
  <2>1. m \in Requests /\ m.method = "RequestRegistration"
    BY <2>0, Sent
  <2>. QED BY ONLY <2>1 DEF Phase
<1>2. Sends(c, m, "await approval") /\ where[c] \in Early
  BY DEF RequestRegistration, Early
<1> HIDE DEF m
<1>3. /\ "await approval" \in Early /\ "await approval" \in Locations
      /\ "await approval" \notin Late
  BY DEF Early, Late, Locations, Awaiting, Greeting
<1>4. where'[c] = "await approval"
  BY <1>2 DEF Sends, Goes, ClientInv, TypeOK
<1>5. CountInv(c)'
  BY <1>2, <1>4, CountsStay DEF RequestRegistration, Sends
<1>6. /\ texts' \in [Clients -> 0..MaxTexts] /\ \A d \in Clients \ {c} : texts'[d] = texts[d]
      /\ drawn' \in [Clients -> SUBSET Nonces]
  BY DEF RequestRegistration, ClientInv, TypeOK
<1>7. /\ InOrder(Said(c, m), identity[c].keys)
      /\ \A i \in DOMAIN Said(c, m) : Phase(Said(c, m)[i]) = 1
  BY <1>1, <1>2, EarlySaid
<1>. QED BY <1>1, <1>2, <1>3, <1>5, <1>6, <1>7, SendsKeeps

LEMMA AgreeParamsKeeps ==
    ASSUME ClientInv, NEW c \in Clients, AgreeParams(c)
    PROVE  Keeps(c)
<1> DEFINE m == [method |-> "AgreeParams", algorithm |-> "ChaCha20"]
<1>1. m \in Requests /\ Phase(m) = 2
  BY Sent, Phases
<1>2. Sends(c, m, "await start") /\ where[c] \in Early
  BY DEF AgreeParams, Early
<1> HIDE DEF m
<1>3. "await start" \notin Early /\ "await start" \in Locations
  BY DEF Early, Locations, Awaiting, Greeting
<1>4. where'[c] = "await start"
  BY <1>2 DEF Sends, Goes, ClientInv, TypeOK
<1>5. CountInv(c)'
  BY <1>2, <1>4, CountsStay DEF AgreeParams, Sends
<1>6. /\ texts' \in [Clients -> 0..MaxTexts] /\ \A d \in Clients \ {c} : texts'[d] = texts[d]
      /\ drawn' \in [Clients -> SUBSET Nonces]
  BY DEF AgreeParams, ClientInv, TypeOK
<1>7. /\ InOrder(Said(c, m), identity[c].keys)
      /\ stream[c] = "open" => \E i \in DOMAIN Said(c, m) : Phase(Said(c, m)[i]) = 2
  BY <1>1, <1>2, EarlySaid
<1>. QED BY <1>1, <1>2, <1>3, <1>5, <1>6, <1>7, SendsKeeps

LEMMA TypeTextKeeps ==
    ASSUME ClientInv, NEW c \in Clients, TypeText(c)
    PROVE  Keeps(c)
<1> DEFINE m == [method |-> "simple_message", sha256 |-> TRUE, key |-> session_keys_symetric[c]]
<1>1. /\ session_keys_symetric[c] \in SessionKeys
      /\ m.key.peer = identity[c].keys
  BY DEF TypeText, ClientInv, ConvInv, KeyInv, TypeOK
<1>2. m \in Requests /\ Phase(m) = 3
  BY <1>1, Sent, Phases
<1>3. Sends(c, m, "await answer") /\ where[c] \in Late
  BY DEF TypeText, Late
<1> HIDE DEF m
<1>4. "await answer" \notin Early /\ "await answer" \in Locations /\ "await answer" \in Late
  BY DEF Early, Late, Locations, Awaiting, Greeting
<1>5. /\ texts' \in [Clients -> 0..MaxTexts] /\ texts'[c] = texts[c] + 1
      /\ \A d \in Clients \ {c} : texts'[d] = texts[d]
  <2>1. /\ texts \in [Clients -> 0..MaxTexts] /\ MaxTexts \in Nat /\ texts[c] < MaxTexts
        /\ texts' = [texts EXCEPT ![c] = texts[c] + 1]
    BY ClientAssumption DEF TypeText, ClientInv, TypeOK
  <2>. QED BY ONLY <2>1
<1>d. drawn' \in [Clients -> SUBSET Nonces]
  BY DEF TypeText, ClientInv, TypeOK
<1>6. CountInv(c)'
  <2>1. acknowledged' = acknowledged
    BY <1>3 DEF Sends
  <2>2. acknowledged[c] <= texts[c]
    BY DEF CountInv, ClientInv, ConvInv
  <2>3. acknowledged[c] \in Nat /\ texts[c] \in Nat
    BY ClientAssumption DEF ClientInv, TypeOK
  <2>4. acknowledged'[c] <= texts'[c] /\ acknowledged'[c] < texts'[c]
    BY ONLY <2>1, <2>2, <2>3, <1>5
  <2>. QED BY ONLY <2>4 DEF CountInv
<1>7. requests[c] \in Seq(Requests) /\ InOrder(requests[c], identity[c].keys)
  BY DEF ClientInv, ConvInv, TypeOK
<1>8. /\ InOrder(Said(c, m), identity[c].keys)
      /\ stream[c] = "open" => \E i \in DOMAIN Said(c, m) : Phase(Said(c, m)[i]) = 2
  <2>1. CASE stream[c] # "open"
    BY <1>7, <2>1 DEF Said
  <2>2. CASE stream[c] = "open"
    <3>1. PICK i \in DOMAIN requests[c] : Phase(requests[c][i]) = 2
      BY <1>3, <2>2 DEF ClientInv, ConvInv, LateInv
    <3>2. \A j \in DOMAIN requests[c] : Phase(requests[c][j]) <= 3
      BY Phases
    <3>3. InOrder(Append(requests[c], m), identity[c].keys)
      BY <1>1, <1>2, <1>7, <3>1, <3>2, SaysMore DEF m
    <3>4. i \in DOMAIN Append(requests[c], m) /\ Append(requests[c], m)[i] = requests[c][i]
      BY <1>2, <1>7, Appended
    <3>. QED BY <2>2, <3>1, <3>3, <3>4 DEF Said
  <2>. QED BY <2>1, <2>2
<1>. QED BY <1>2, <1>3, <1>4, <1>5, <1>d, <1>6, <1>8, SendsKeeps

-----------------------------------------------------------------------------
\* Steps that send nothing.

LEMMA SilentKeeps ==
    ASSUME ClientInv, NEW c \in Clients, TypeOK', NEW to \in Locations, Goes(c, to),
           identity' = identity, requests' = requests, texts' = texts,
           \A d \in Clients \ {c} :
              /\ stream'[d] = stream[d] /\ session_keys_symetric'[d] = session_keys_symetric[d]
              /\ acknowledged'[d] = acknowledged[d],
           to \in Early => where[c] \in Early,
           to \in Late /\ stream'[c] = "open" => where[c] \in Late /\ stream[c] = "open",
           KeyInv(c)', CountInv(c)'
    PROVE  Keeps(c)
<1>1. /\ where'[c] = to
      /\ \A d \in Clients \ {c} : where'[d] = where[d]
  BY DEF Goes, ClientInv, TypeOK
<1>2. \A d \in Clients \ {c} : Stays(d)
  BY <1>1 DEF Stays
<1>3. EarlyInv(c)' /\ LateInv(c)' /\ InOrder(requests[c], identity[c].keys)'
  BY <1>1 DEF EarlyInv, LateInv, ClientInv, ConvInv
<1>. QED BY <1>2, <1>3 DEF Keeps, ConvInv

\* Nothing changes but where the program is.
LEMMA MovesKeeps ==
    ASSUME ClientInv, NEW c \in Clients, NEW to \in Locations \ (Early \cup Late), Goes(c, to),
           UNCHANGED <<identity, intact, requests, responses, session_keys_symetric, drawn,
                       texts, acknowledged>>,
           stream' = stream,
           io_thread' \in [Clients -> {"none", "joinable", "joined"}]
    PROVE  Keeps(c)
<1>1. where' \in [Clients -> Locations] /\ where'[c] = to
  BY DEF Goes, ClientInv, TypeOK
<1>2. TypeOK'
  BY <1>1 DEF ClientInv, TypeOK
<1>3. to # "await answer"
  BY DEF Late
<1>4. KeyInv(c)' /\ CountInv(c)'
  BY <1>1, <1>3 DEF KeyInv, CountInv, ClientInv, ConvInv
<1>. QED BY <1>2, <1>4, SilentKeeps

LEMMA ConstructsKeeps ==
    ASSUME ClientInv, NEW c \in Clients, Connect(c) \/ ConnectFails(c)
    PROVE  Keeps(c)
<1>1. /\ where[c] = "start" /\ Goes(c, "hello")
      /\ io_thread' = [io_thread EXCEPT ![c] = "joinable"]
      /\ UNCHANGED <<identity, intact, requests, responses, session_keys_symetric, drawn, texts,
                     acknowledged>>
      /\ stream' = [stream EXCEPT ![c] = "open"] \/ stream' = stream
  BY DEF Connect, ConnectFails, Constructs
<1>2. /\ "start" \in Early /\ "hello" \in Early /\ "hello" \in Locations /\ "hello" \notin Late
      /\ "hello" # "await answer"
  BY DEF Early, Late, Locations
<1>3. where' \in [Clients -> Locations] /\ where'[c] = "hello"
  BY <1>1, <1>2 DEF Goes, ClientInv, TypeOK
<1>4. /\ stream' \in [Clients -> {"none", "open", "closed"}]
      /\ \A d \in Clients \ {c} : stream'[d] = stream[d]
  BY <1>1 DEF ClientInv, TypeOK
<1>5. io_thread' \in [Clients -> {"none", "joinable", "joined"}]
  BY <1>1 DEF ClientInv, TypeOK
<1>6. TypeOK'
  BY <1>1, <1>3, <1>4, <1>5 DEF ClientInv, TypeOK
<1>7. KeyInv(c)' /\ CountInv(c)'
  BY <1>1, <1>2, <1>3 DEF KeyInv, CountInv, ClientInv, ConvInv
<1>. QED BY <1>1, <1>2, <1>4, <1>6, <1>7, SilentKeeps

\* receive_message takes responses off the front.
LEMMA ReceivesTypes ==
    ASSUME ClientInv, NEW c \in Clients, NEW n \in 1..Len(responses[c]), Receives(c, n)
    PROVE  /\ responses' \in [Clients -> Seq(Responses)]
           /\ Head(responses[c]) \in Responses
BY Received DEF Receives, ClientInv, TypeOK

\* A response is judged: the client goes on, or it returns, or throws.
LEMMA JudgedFacts ==
    ASSUME ClientInv, NEW c \in Clients, NEW n \in 1..Len(responses[c]), Receives(c, n),
           NEW valid \in Locations, NEW invalid \in Locations,
           is_valid_response_from_server(c, valid, invalid)
    PROVE  \E to \in {valid, invalid, "throwing"} :
              /\ Goes(c, to)
              /\ session_keys_symetric' \in [Clients -> SessionKeys \cup {NoKey}]
              /\ \A d \in Clients \ {c} : session_keys_symetric'[d] = session_keys_symetric[d]
              /\ KeyInv(c)'
<1> DEFINE r == Head(responses[c])
           to == IF Throws(c, r) THEN "throwing" ELSE IF Valid(c, r) THEN valid ELSE invalid
<1>1. r \in Responses
  BY ReceivesTypes
<1>2. to \in {valid, invalid, "throwing"} /\ Goes(c, to)
  BY DEF is_valid_response_from_server
<1>3. CASE r.method = "WhatsUpFIUNAM" /\ r.signed
  <2>1. session_keys_symetric' = [session_keys_symetric EXCEPT ![c] = Derived(c, r.own)]
    BY <1>3 DEF is_valid_response_from_server
  <2>2. r.own \in Nat /\ identity[c].keys \in Keys
    BY <1>1, <1>3, ResponseFields, ClientAssumption DEF ClientInv, TypeOK
  <2>3. Derived(c, r.own) \in SessionKeys /\ Derived(c, r.own).peer = identity[c].keys
    BY <2>2 DEF Derived, SessionKeys
  <2>4. /\ session_keys_symetric' \in [Clients -> SessionKeys \cup {NoKey}]
        /\ \A d \in Clients \ {c} : session_keys_symetric'[d] = session_keys_symetric[d]
        /\ session_keys_symetric'[c] = Derived(c, r.own)
    BY <2>1, <2>3 DEF ClientInv, TypeOK
  <2>5. KeyInv(c)'
    BY <2>3, <2>4 DEF KeyInv, Receives
  <2>. QED BY <1>2, <2>4, <2>5
<1>4. CASE ~(r.method = "WhatsUpFIUNAM" /\ r.signed)
  <2>1. session_keys_symetric' = session_keys_symetric
    BY <1>4 DEF is_valid_response_from_server
  <2>2. KeyInv(c)'
    BY <2>1 DEF KeyInv, Receives, ClientInv, ConvInv
  <2>. QED BY <1>2, <2>1, <2>2 DEF ClientInv, TypeOK
<1>. QED BY <1>3, <1>4

LEMMA JudgedKeeps ==
    ASSUME ClientInv, NEW c \in Clients, NEW n \in 1..Len(responses[c]), Receives(c, n),
           NEW valid \in Locations, NEW invalid \in Locations,
           is_valid_response_from_server(c, valid, invalid),
           acknowledged' \in [Clients -> 0..MaxTexts],
           \A d \in Clients \ {c} : acknowledged'[d] = acknowledged[d],
           valid \in Early => where[c] \in Early,
           valid \in Late => where[c] \in Late,
           invalid \notin Early \cup Late,
           CountInv(c)'
    PROVE  Keeps(c)
<1>1. PICK to \in {valid, invalid, "throwing"} :
        /\ Goes(c, to)
        /\ session_keys_symetric' \in [Clients -> SessionKeys \cup {NoKey}]
        /\ \A d \in Clients \ {c} : session_keys_symetric'[d] = session_keys_symetric[d]
        /\ KeyInv(c)'
  BY JudgedFacts
<1>2. "throwing" \in Locations /\ "throwing" \notin Early \cup Late
  BY DEF Locations, Early, Late
<1>3. /\ to \in Locations
      /\ to \in Early => where[c] \in Early
      /\ to \in Late => where[c] \in Late
  BY <1>1, <1>2
<1>4. where' \in [Clients -> Locations]
  BY <1>1, <1>3 DEF Goes, ClientInv, TypeOK
<1>5. responses' \in [Clients -> Seq(Responses)]
  BY ReceivesTypes
<1>6. TypeOK'
  BY <1>1, <1>4, <1>5 DEF Receives, ClientInv, TypeOK
<1>. QED BY <1>1, <1>3, <1>6, SilentKeeps DEF Receives

LEMMA HearsRefusalKeeps ==
    ASSUME ClientInv, NEW c \in Clients, HearsRefusal(c)
    PROVE  Keeps(c)
<1>1. PICK n \in 1..Len(responses[c]) : Receives(c, n)
  BY DEF HearsRefusal
<1>2. /\ where[c] \in Early /\ Goes(c, "register")
      /\ session_keys_symetric' = session_keys_symetric /\ acknowledged' = acknowledged
  BY DEF HearsRefusal, Early
<1>3. /\ "register" \in Locations /\ "register" \in Early /\ "register" \notin Late
      /\ "register" # "await answer"
  BY DEF Locations, Early, Late
<1>4. responses' \in [Clients -> Seq(Responses)]
  BY <1>1, ReceivesTypes
<1>5. where' \in [Clients -> Locations] /\ where'[c] = "register"
  BY <1>2, <1>3 DEF Goes, ClientInv, TypeOK
<1>6. TypeOK'
  BY <1>1, <1>2, <1>4, <1>5 DEF Receives, ClientInv, TypeOK
<1>7. KeyInv(c)' /\ CountInv(c)'
  BY <1>1, <1>2, <1>3, <1>5 DEF Receives, KeyInv, CountInv, ClientInv, ConvInv
<1>. QED BY <1>1, <1>2, <1>3, <1>6, <1>7, SilentKeeps DEF Receives

LEMMA HearsApprovalKeeps ==
    ASSUME ClientInv, NEW c \in Clients, HearsApproval(c)
    PROVE  Keeps(c)
<1>1. PICK n \in 1..Len(responses[c]), to \in {"hello again", "return"} :
        Receives(c, n) /\ Goes(c, to)
  BY DEF HearsApproval
<1>2. /\ where[c] \in Early
      /\ session_keys_symetric' = session_keys_symetric /\ acknowledged' = acknowledged
  BY DEF HearsApproval, Early
<1>3. to \in Locations /\ to \notin Late /\ to # "await answer"
  BY <1>1 DEF Locations, Late
<1>4. responses' \in [Clients -> Seq(Responses)]
  BY <1>1, ReceivesTypes
<1>5. where' \in [Clients -> Locations] /\ where'[c] = to
  BY <1>1, <1>3 DEF Goes, ClientInv, TypeOK
<1>6. TypeOK'
  BY <1>1, <1>2, <1>4, <1>5 DEF Receives, ClientInv, TypeOK
<1>7. KeyInv(c)' /\ CountInv(c)'
  BY <1>1, <1>2, <1>3, <1>5 DEF Receives, KeyInv, CountInv, ClientInv, ConvInv
<1>. QED BY <1>1, <1>2, <1>3, <1>6, <1>7, SilentKeeps DEF Receives

\* Where a judged response may lead.
LEMMA Judgements ==
    /\ {"agree", "chat", "return", "shutdown", "throwing"} \subseteq Locations
    /\ "agree" \in Early /\ "agree" \notin Late /\ "chat" \in Late /\ "chat" \notin Early
    /\ {"return", "shutdown", "throwing"} \cap (Early \cup Late) = {}
    /\ Greeting \subseteq Early /\ "await start" \in Late /\ "await answer" \in Late
BY DEF Locations, Early, Late, Greeting

LEMMA HearsGreetingKeeps ==
    ASSUME ClientInv, NEW c \in Clients, HearsGreeting(c)
    PROVE  Keeps(c)
<1>1. PICK n \in 1..Len(responses[c]) : Receives(c, n)
  BY DEF HearsGreeting
<1>2. /\ where[c] \in Early /\ acknowledged' = acknowledged
      /\ is_valid_response_from_server(c, "agree", "return")
  BY Judgements DEF HearsGreeting
<1>3. where'[c] \in {"agree", "return", "throwing"}
  BY <1>2 DEF is_valid_response_from_server, Goes, ClientInv, TypeOK
<1>4. CountInv(c)'
  BY <1>1, <1>2, <1>3, CountsStay DEF Receives
<1>5. /\ acknowledged' \in [Clients -> 0..MaxTexts]
      /\ \A d \in Clients \ {c} : acknowledged'[d] = acknowledged[d]
  BY <1>2 DEF ClientInv, TypeOK
<1>6. "agree" \in Locations /\ "return" \in Locations /\ "agree" \notin Late
      /\ "return" \notin Early \cup Late
  BY Judgements
<1>. QED BY <1>1, <1>2, <1>4, <1>5, <1>6, JudgedKeeps

LEMMA HearsStartKeeps ==
    ASSUME ClientInv, NEW c \in Clients, HearsStart(c)
    PROVE  Keeps(c)
<1>1. PICK n \in 1..Len(responses[c]) : Receives(c, n)
  BY DEF HearsStart
<1>2. /\ where[c] \in Late /\ acknowledged' = acknowledged
      /\ is_valid_response_from_server(c, "chat", "return")
  BY Judgements DEF HearsStart
<1>3. where'[c] \in {"chat", "return", "throwing"}
  BY <1>2 DEF is_valid_response_from_server, Goes, ClientInv, TypeOK
<1>4. CountInv(c)'
  BY <1>1, <1>2, <1>3, CountsStay DEF Receives
<1>5. /\ acknowledged' \in [Clients -> 0..MaxTexts]
      /\ \A d \in Clients \ {c} : acknowledged'[d] = acknowledged[d]
  BY <1>2 DEF ClientInv, TypeOK
<1>6. "chat" \in Locations /\ "return" \in Locations /\ "chat" \notin Early
      /\ "return" \notin Early \cup Late
  BY Judgements
<1>. QED BY <1>1, <1>2, <1>4, <1>5, <1>6, JudgedKeeps

LEMMA HearsAnswerKeeps ==
    ASSUME ClientInv, NEW c \in Clients, HearsAnswer(c)
    PROVE  Keeps(c)
<1>1. PICK n \in 1..Len(responses[c]) : Receives(c, n)
  BY DEF HearsAnswer
<1>2. /\ where[c] = "await answer" /\ where[c] \in Late
      /\ is_valid_response_from_server(c, "chat", "shutdown")
      /\ acknowledged' = IF where'[c] = "chat" THEN [acknowledged EXCEPT ![c] = @ + 1]
                         ELSE acknowledged
  BY Judgements DEF HearsAnswer
<1>3. where'[c] \in {"chat", "shutdown", "throwing"} /\ where'[c] # "await answer"
  BY <1>2 DEF is_valid_response_from_server, Goes, ClientInv, TypeOK
<1>4. /\ acknowledged[c] \in Nat /\ texts[c] \in Nat /\ texts[c] <= MaxTexts /\ MaxTexts \in Nat
      /\ acknowledged[c] < texts[c]
  <2>1. MaxTexts \in Nat /\ acknowledged[c] \in 0..MaxTexts /\ texts[c] \in 0..MaxTexts
    BY ClientAssumption DEF ClientInv, TypeOK
  <2>2. acknowledged[c] < texts[c]
    BY <1>2 DEF ClientInv, ConvInv, CountInv
  <2>. QED BY ONLY <2>1, <2>2
<1>5. acknowledged[c] + 1 \in 0..MaxTexts /\ acknowledged[c] + 1 <= texts[c]
  BY ONLY <1>4
<1>6. /\ acknowledged' \in [Clients -> 0..MaxTexts]
      /\ \A d \in Clients \ {c} : acknowledged'[d] = acknowledged[d]
      /\ acknowledged'[c] \in {acknowledged[c], acknowledged[c] + 1}
  <2>1. acknowledged \in [Clients -> 0..MaxTexts]
    BY DEF ClientInv, TypeOK
  <2>. QED BY ONLY <1>2, <1>5, <2>1, c \in Clients
<1>7. texts' = texts
  BY <1>1 DEF Receives
<1>8. acknowledged'[c] <= texts'[c]
  BY ONLY <1>4, <1>5, <1>6, <1>7
<1>9. CountInv(c)'
  BY ONLY <1>3, <1>8 DEF CountInv
<1>10. "chat" \in Locations /\ "shutdown" \in Locations /\ "chat" \notin Early
       /\ "shutdown" \notin Early \cup Late
  BY Judgements
<1>. QED BY <1>1, <1>2, <1>6, <1>9, <1>10, JudgedKeeps

\* The steps that only lead somewhere else.
LEMMA LeavesKeeps ==
    ASSUME ClientInv, NEW c \in Clients,
           Thinks(c) \/ Inputs(c) \/ Ends(c) \/ Killed(c)
    PROVE  Keeps(c)
<1> DEFINE Far == {"throwing", "spinning", "return", "returned", "terminated", "killed"}
<1>1. /\ Far \subseteq Locations
      /\ \A to \in Far : to \notin Early \cup Late
  BY DEF Locations, Early, Late, Ended
<1>2. PICK to \in Far :
        /\ Goes(c, to)
        /\ UNCHANGED <<identity, intact, requests, responses, session_keys_symetric, drawn,
                       texts, acknowledged>>
        /\ stream' = stream
        /\ io_thread' = io_thread \/ io_thread' = [io_thread EXCEPT ![c] = "joined"]
  <2>1. CASE Thinks(c)
    BY <2>1 DEF Thinks, ReceiveFails, StopSocket, Moves, netVars
  <2>2. CASE Inputs(c)
    BY <2>2 DEF Inputs, EndOfInput, TextWithoutKey, Moves, netVars
  <2>3. CASE Ends(c)
    BY <2>3 DEF Ends, Abort, Destroy, Moves, netVars
  <2>4. CASE Killed(c)
    BY <2>4 DEF Killed, Moves, netVars
  <2>. QED BY <2>1, <2>2, <2>3, <2>4
<1>3. io_thread' \in [Clients -> {"none", "joinable", "joined"}]
  BY <1>2 DEF ClientInv, TypeOK
<1>. QED BY <1>1, <1>2, <1>3, MovesKeeps

\* The server changes nothing the client remembers.
LEMMA ServerKeeps ==
    ASSUME ClientInv, NEW c \in Clients, Respond(c) \/ Close(c)
    PROVE  ClientInv'
<1>1. /\ UNCHANGED <<identity, intact, requests, clientVars>>
      /\ responses' \in [Clients -> Seq(Responses)]
      /\ stream' \in [Clients -> {"none", "open", "closed"}]
      /\ \A d \in Clients : stream'[d] = "open" => stream[d] = "open"
  <2>1. CASE Respond(c)
    <3>1. PICK r \in Responses : responses' = [responses EXCEPT ![c] = Append(@, r)]
      BY <2>1 DEF Respond
    <3>2. Append(responses[c], r) \in Seq(Responses)
      BY DEF ClientInv, TypeOK
    <3>. QED BY <2>1, <3>1, <3>2 DEF Respond, ClientInv, TypeOK
  <2>2. CASE Close(c)
    BY <2>2 DEF Close, ClientInv, TypeOK
  <2>. QED BY <2>1, <2>2
<1>2. TypeOK'
  BY <1>1 DEF ClientInv, TypeOK, clientVars
<1>3. ASSUME NEW d \in Clients PROVE ConvInv(d)'
  BY <1>1 DEF ClientInv, ConvInv, EarlyInv, LateInv, KeyInv, CountInv, clientVars
<1>. QED BY <1>2, <1>3 DEF ClientInv

LEMMA ClientInvInit == Init => ClientInv
<1> SUFFICES ASSUME Init PROVE ClientInv
  OBVIOUS
<1>1. TypeOK
  BY ClientAssumption DEF Init, TypeOK, Locations
<1>2. ASSUME NEW c \in Clients PROVE ConvInv(c)
  BY <1>1 DEF Init, ConvInv, EarlyInv, LateInv, KeyInv, CountInv, Late, InOrder
<1>. QED BY <1>1, <1>2 DEF ClientInv

LEMMA ClientInvNext == ClientInv /\ [Next]_vars => ClientInv'
<1> SUFFICES ASSUME ClientInv, [Next]_vars PROVE ClientInv'
  OBVIOUS
<1>1. CASE UNCHANGED vars
  BY <1>1 DEF vars, netVars, clientVars, ClientInv, TypeOK, ConvInv, EarlyInv, LateInv, KeyInv,
              CountInv
<1>2. ASSUME NEW c \in Clients,
             \/ Connect(c) \/ ConnectFails(c) \/ TypeText(c) \/ Inputs(c) \/ Killed(c)
             \/ Proceeds(c) \/ Respond(c) \/ Close(c)
      PROVE  ClientInv'
  <2>1. CASE Respond(c) \/ Close(c)
    BY <2>1, ServerKeeps
  <2>2. CASE ~(Respond(c) \/ Close(c))
    <3>1. CASE Connect(c) \/ ConnectFails(c)
      BY <3>1, ConstructsKeeps, KeepsInv
    <3>2. CASE TypeText(c)
      BY <3>2, TypeTextKeeps, KeepsInv
    <3>3. CASE Speaks(c)
      BY <3>3, SayHelloKeeps, RequestRegistrationKeeps, AgreeParamsKeeps, KeepsInv DEF Speaks
    <3>4. CASE Hears(c)
      BY <3>4, HearsRefusalKeeps, HearsApprovalKeeps, HearsGreetingKeeps, HearsStartKeeps,
         HearsAnswerKeeps, KeepsInv DEF Hears
    <3>5. CASE Thinks(c) \/ Inputs(c) \/ Ends(c) \/ Killed(c)
      BY <3>5, LeavesKeeps, KeepsInv
    <3>. QED BY <1>2, <2>2, <3>1, <3>2, <3>3, <3>4, <3>5 DEF Proceeds
  <2>. QED BY <2>1, <2>2
<1>. QED BY <1>1, <1>2 DEF Next

-----------------------------------------------------------------------------
\* The program is always at one of its places, and its counters never pass the
\* lines typed, whatever is answered.
THEOREM ClientTypeCorrect == Spec => []TypeOK
<1>1. ClientInv => TypeOK
  BY DEF ClientInv
<1>. QED BY <1>1, ClientInvInit, ClientInvNext, PTL DEF Spec

\* No answer of a server, in whatever order answers come, makes the client say
\* something that is not a conversation, or use another device's session key.
THEOREM ConversationInOrderHolds == Spec => []ConversationInOrder
<1>1. ClientInv => ConversationInOrder
  BY DEF ClientInv, ConvInv, InOrder, ConversationInOrder
<1>. QED BY <1>1, ClientInvInit, ClientInvNext, PTL DEF Spec

-----------------------------------------------------------------------------
\* The end of a client without its server.

LEMMA RankType == \A place : Rank(place) \in Nat
BY DEF Rank

\* The places by how far they are from the end.
LEMMA Ranks ==
    /\ Rank("hello") = 12 /\ Rank("await greeting") = 11 /\ Rank("register") = 10
    /\ Rank("await approval") = 9 /\ Rank("hello again") = 8
    /\ Rank("await second greeting") = 7 /\ Rank("agree") = 6 /\ Rank("await start") = 5
    /\ Rank("chat") = 4 /\ Rank("await answer") = 3 /\ Rank("shutdown") = 2
    /\ Rank("return") = 1 /\ Rank("throwing") = 1 /\ Rank("spinning") = 1
    /\ \A place \in Ended : Rank(place) = 0
BY DEF Rank, Ended

LEMMA NotAtTheEnd ==
    ASSUME NEW place \in Locations, place \notin {"start"} \cup Ended
    PROVE  Rank("killed") < Rank(place) /\ (place \in Awaiting => Rank("throwing") < Rank(place))
<1>1. Rank("killed") = 0 /\ Rank("throwing") = 1
  BY Ranks, Zenon DEF Ended
<1>2. Rank(place) \in {12, 11, 10, 9, 8, 7, 6, 5, 4, 3, 2, 1}
  BY Ranks, Zenon DEF Locations, Awaiting, Greeting, Ended
<1>3. place \in Awaiting => Rank(place) \in {11, 9, 7, 5, 3}
  BY Ranks, Zenon DEF Awaiting, Greeting
<1>. QED BY ONLY <1>1, <1>2, <1>3

\* Every step on the way leads to a lower place,
LEMMA RankOrder ==
    /\ Rank("await greeting") < Rank("hello")
    /\ Rank("await second greeting") < Rank("hello again")
    /\ Rank("await approval") < Rank("register")
    /\ Rank("await start") < Rank("agree")
    /\ Rank("await answer") < Rank("chat")
    /\ Rank("spinning") < Rank("chat") /\ Rank("throwing") < Rank("chat")
    /\ Rank("return") < Rank("shutdown")
    /\ \A place \in Ended : Rank(place) < Rank("return") /\ Rank(place) < Rank("throwing")
BY DEF Rank, Ended

\* but for the answer to a text.
LEMMA HearingOrder ==
    /\ Rank("register") <= Rank("await greeting") + 1
    /\ Rank("hello again") <= Rank("await approval") + 1
    /\ Rank("return") <= Rank("await approval") + 1
    /\ \A place \in Greeting, to \in {"throwing", "agree", "return"} : Rank(to) <= Rank(place) + 1
    /\ \A to \in {"throwing", "chat", "return"} : Rank(to) <= Rank("await start") + 1
    /\ \A to \in {"throwing", "chat", "shutdown"} : Rank(to) <= Rank("await answer") + 1
BY DEF Rank, Greeting

\* A step of c to another place with no more responses than before, or with fewer.
Nearer(c) ==
    /\ stream'[c] = stream[c]
    /\ StepsLeft(c)' < StepsLeft(c)

LEMMA GoingOn ==
    ASSUME TypeOK, NEW c \in Clients, NEW to, UNCHANGED <<stream, responses>>, Goes(c, to),
           Rank(to) < Rank(where[c])
    PROVE  Nearer(c)
<1>1. where'[c] = to
  BY DEF Goes, TypeOK
<1>2. Len(responses[c]) \in Nat /\ Rank(to) \in Nat /\ Rank(where[c]) \in Nat
  <2>1. responses[c] \in Seq(Responses)
    BY DEF TypeOK
  <2>2. Len(responses[c]) \in Nat
    BY ONLY <2>1
  <2>. QED BY <2>2, RankType, Zenon
<1>. QED BY <1>1, <1>2 DEF Nearer, StepsLeft

\* What is received is used up, which pays for one place back.
LEMMA HearingOn ==
    ASSUME TypeOK, NEW c \in Clients, NEW to, NEW n \in 1..Len(responses[c]), Receives(c, n),
           Goes(c, to), Rank(to) <= Rank(where[c]) + 1
    PROVE  Nearer(c)
<1>1. where'[c] = to /\ stream'[c] = stream[c]
  BY DEF Goes, Receives, TypeOK
<1>2. /\ responses[c] \in Seq(Responses)
      /\ responses'[c] = SubSeq(responses[c], n + 1, Len(responses[c]))
  BY DEF Receives, TypeOK
<1>3. Len(responses'[c]) \in Nat /\ Len(responses'[c]) <= Len(responses[c]) - 1
  BY ONLY <1>2, n \in 1..Len(responses[c])
<1>4. Len(responses[c]) \in Nat /\ Rank(to) \in Nat /\ Rank(where[c]) \in Nat
  <2>1. Len(responses[c]) \in Nat
    BY ONLY <1>2
  <2>. QED BY <2>1, RankType, Zenon
<1>. QED BY <1>1, <1>3, <1>4 DEF Nearer, StepsLeft

LEMMA SpeakingOn ==
    ASSUME TypeOK, NEW c \in Clients, Speaks(c) \/ TypeText(c)
    PROVE  Nearer(c)
<1>1. ASSUME NEW m, NEW to, Sends(c, m, to), Rank(to) < Rank(where[c])
      PROVE  Nearer(c)
  BY <1>1, GoingOn, Zenon DEF Sends
<1>2. CASE SayHello(c)
  <2>1. PICK m : Sends(c, m, IF where[c] = "hello" THEN "await greeting"
                             ELSE "await second greeting")
    BY <1>2, Zenon DEF SayHello
  <2>2. CASE where[c] = "hello"
    BY <1>1, <2>1, <2>2, RankOrder, Zenon
  <2>3. CASE where[c] = "hello again"
    <3>1. Sends(c, m, "await second greeting")
      BY <2>1, <2>3, Zenon
    <3>. QED BY <1>1, <2>3, <3>1, RankOrder, Zenon
  <2>. QED BY <1>2, <2>2, <2>3, Zenon DEF SayHello
<1>3. CASE RequestRegistration(c)
  BY <1>1, <1>3, RankOrder, Zenon DEF RequestRegistration
<1>4. CASE AgreeParams(c)
  BY <1>1, <1>4, RankOrder, Zenon DEF AgreeParams
<1>5. CASE TypeText(c)
  BY <1>1, <1>5, RankOrder, Zenon DEF TypeText
<1>. QED BY <1>2, <1>3, <1>4, <1>5, Zenon DEF Speaks

LEMMA HearsOn ==
    ASSUME TypeOK, NEW c \in Clients, Hears(c)
    PROVE  Nearer(c)
<1>1. CASE HearsRefusal(c)
  <2>1. PICK n \in 1..Len(responses[c]) : Receives(c, n)
    BY <1>1, Zenon DEF HearsRefusal
  <2>2. where[c] = "await greeting" /\ Goes(c, "register")
    BY <1>1, Zenon DEF HearsRefusal
  <2>. QED BY <2>1, <2>2, HearingOrder, HearingOn, Zenon
<1>2. CASE HearsApproval(c)
  <2>1. PICK n \in 1..Len(responses[c]) :
            /\ Receives(c, n)
            /\ Goes(c, IF Mentions(c, n, "RegistrationApproved") THEN "hello again" ELSE "return")
    BY <1>2, Zenon DEF HearsApproval
  <2>2. Goes(c, "hello again") \/ Goes(c, "return")
    BY <2>1, Zenon
  <2>3. where[c] = "await approval"
    BY <1>2 DEF HearsApproval
  <2>. QED BY <2>1, <2>2, <2>3, HearingOrder, HearingOn, Zenon
<1>3. ASSUME NEW valid, NEW invalid, is_valid_response_from_server(c, valid, invalid)
      PROVE  \E to \in {"throwing", valid, invalid} : Goes(c, to)
  BY <1>3, Zenon DEF is_valid_response_from_server
<1>4. CASE HearsGreeting(c)
  <2>1. PICK n \in 1..Len(responses[c]) : Receives(c, n)
    BY <1>4, Zenon DEF HearsGreeting
  <2>2. PICK to \in {"throwing", "agree", "return"} : Goes(c, to)
    BY <1>3, <1>4, Zenon DEF HearsGreeting
  <2>3. Rank(to) <= Rank(where[c]) + 1
    BY <1>4, HearingOrder, Zenon DEF HearsGreeting
  <2>. QED BY <2>1, <2>2, <2>3, HearingOn, Zenon
<1>5. CASE HearsStart(c)
  <2>1. PICK n \in 1..Len(responses[c]) : Receives(c, n)
    BY <1>5, Zenon DEF HearsStart
  <2>2. PICK to \in {"throwing", "chat", "return"} : Goes(c, to)
    BY <1>3, <1>5, Zenon DEF HearsStart
  <2>3. Rank(to) <= Rank(where[c]) + 1
    BY <1>5, HearingOrder, Zenon DEF HearsStart
  <2>. QED BY <2>1, <2>2, <2>3, HearingOn, Zenon
<1>6. CASE HearsAnswer(c)
  <2>1. PICK n \in 1..Len(responses[c]) : Receives(c, n)
    BY <1>6, Zenon DEF HearsAnswer
  <2>2. PICK to \in {"throwing", "chat", "shutdown"} : Goes(c, to)
    BY <1>3, <1>6, Zenon DEF HearsAnswer
  <2>3. Rank(to) <= Rank(where[c]) + 1
    BY <1>6, HearingOrder, Zenon DEF HearsAnswer
  <2>. QED BY <2>1, <2>2, <2>3, HearingOn, Zenon
<1>. QED BY <1>1, <1>2, <1>4, <1>5, <1>6, Zenon DEF Hears

LEMMA LeavesOn ==
    ASSUME TypeOK, NEW c \in Clients, where[c] # "start",
           Thinks(c) \/ Inputs(c) \/ Ends(c) \/ Killed(c)
    PROVE  Nearer(c)
<1>1. ASSUME NEW to, Moves(c, to), Rank(to) < Rank(where[c]) PROVE Nearer(c)
  BY <1>1, GoingOn DEF Moves, netVars
<1>2. CASE ReceiveFails(c)
  <2>1. where[c] \in Locations /\ where[c] \notin {"start"} \cup Ended /\ where[c] \in Awaiting
    BY <1>2, Zenon DEF ReceiveFails, TypeOK, Awaiting, Greeting, Ended
  <2>. QED BY <1>1, <1>2, <2>1, NotAtTheEnd, Zenon DEF ReceiveFails
<1>3. CASE StopSocket(c)
  <2>1. where[c] = "shutdown" /\ Goes(c, "return") /\ UNCHANGED <<stream, responses>>
    BY <1>3 DEF StopSocket, netVars
  <2>. QED BY <2>1, RankOrder, GoingOn, Zenon
<1>4. CASE Inputs(c)
  BY <1>1, <1>4, RankOrder, Zenon DEF Inputs, EndOfInput, TextWithoutKey
<1>5. CASE Abort(c)
  <2>1. "terminated" \in Ended
    BY DEF Ended
  <2>. QED BY <1>1, <1>5, <2>1, RankOrder, Zenon DEF Abort
<1>6. CASE Destroy(c)
  <2>1. "terminated" \in Ended /\ "returned" \in Ended
    BY DEF Ended
  <2>2. /\ where[c] = "return" /\ UNCHANGED <<stream, responses>>
        /\ Goes(c, "terminated") \/ Goes(c, "returned")
    BY <1>6, Zenon DEF Destroy, netVars
  <2>. QED BY <2>1, <2>2, RankOrder, GoingOn, Zenon
<1>7. CASE Killed(c)
  <2>1. where[c] \in Locations /\ where[c] \notin {"start"} \cup Ended
    BY <1>7, Zenon DEF Killed, TypeOK
  <2>. QED BY <1>1, <1>7, <2>1, NotAtTheEnd, Zenon DEF Killed
<1>. QED BY <1>2, <1>3, <1>4, <1>5, <1>6, <1>7, Zenon DEF Thinks, Ends

\* Every step of a client without its server brings its end nearer: it ends after
\* at most 12 steps and two more for each response that had arrived.
THEOREM WindsDownHolds == Spec => WindsDown
<1>1. ClientInv /\ [Next]_vars =>
        [\A c \in Clients :
            stream[c] # "open" /\ where[c] # "start" =>
                /\ stream'[c] = stream[c]
                /\ \/ where'[c] = where[c] /\ responses'[c] = responses[c]
                   \/ StepsLeft(c)' < StepsLeft(c)]_vars
  <2>. SUFFICES ASSUME ClientInv, [Next]_vars, NEW c \in Clients, stream[c] # "open",
                       where[c] # "start"
                PROVE  \/ Nearer(c)
                       \/ UNCHANGED <<stream[c], where[c], responses[c]>>
    BY DEF Nearer
  <2>. TypeOK
    BY DEF ClientInv
  <2>1. CASE UNCHANGED vars
    BY <2>1 DEF vars, netVars, clientVars
  <2>2. SUFFICES ASSUME NEW d \in Clients,
                        \/ Connect(d) \/ ConnectFails(d) \/ TypeText(d) \/ Inputs(d) \/ Killed(d)
                        \/ Proceeds(d) \/ Respond(d) \/ Close(d)
                 PROVE  Nearer(c) \/ UNCHANGED <<stream[c], where[c], responses[c]>>
    BY <2>1, Zenon DEF Next
  <2>3. CASE d = c
    <3>1. ~(Connect(c) \/ ConnectFails(c) \/ Respond(c) \/ Close(c))
      BY DEF Connect, ConnectFails, Constructs, Respond, Close
    <3>2. \/ Speaks(c) \/ TypeText(c) \/ Hears(c)
          \/ Thinks(c) \/ Inputs(c) \/ Ends(c) \/ Killed(c)
      BY <2>2, <2>3, <3>1 DEF Proceeds
    <3>. QED BY <3>2, SpeakingOn, HearsOn, LeavesOn
  <2>4. CASE d # c
    <3>1. CASE Respond(d) \/ Close(d)
      BY <2>4, <3>1 DEF Respond, Close, clientVars, TypeOK
    <3>2. CASE Connect(d) \/ ConnectFails(d) \/ TypeText(d) \/ Speaks(d)
      BY <2>4, <3>2
      DEF Connect, ConnectFails, Constructs, Goes, TypeText, Speaks, SayHello,
          RequestRegistration, AgreeParams, Sends, TypeOK
    <3>3. CASE Hears(d)
      BY <2>4, <3>3
      DEF Hears, HearsRefusal, HearsApproval, HearsGreeting, HearsStart, HearsAnswer, Receives,
          is_valid_response_from_server, Goes, TypeOK
    <3>4. CASE Thinks(d) \/ Inputs(d) \/ Ends(d) \/ Killed(d)
      BY <2>4, <3>4
      DEF Thinks, ReceiveFails, StopSocket, Inputs, EndOfInput, TextWithoutKey, Ends, Abort,
          Destroy, Killed, Moves, Goes, netVars, TypeOK
    <3>. QED BY <2>2, <3>1, <3>2, <3>3, <3>4 DEF Proceeds
  <2>. QED BY <2>3, <2>4
<1>. QED BY <1>1, ClientInvInit, ClientInvNext, PTL DEF Spec, WindsDown

=============================================================================
