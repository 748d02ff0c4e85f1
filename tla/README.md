# A verification of SecureCommIoT

SecureCommIoT is a C++ (asio, libsodium) server and client for IoT devices. A
client loads or makes its device keys, says Hello to the server, receives a
server key pair made for its connection, agrees on an algorithm and then
exchanges encrypted messages with the server. The server keeps a file of the
devices it trusts and enters new ones in it by itself.

This directory holds TLA+ models of the program, the TLC configurations that
check them on small instances, and theorems about them that TLAPS proves for
every value of the constants. `PROJECT.json` maps each definition to the lines
it models; paths there, and here, are relative to the directory above this one.

## Inventory

| Component | State | Operations | Interacts with |
|---|---|---|---|
| Server, connections and handlers (`src/src/appserver/server.cc`, `server.h`) | socket map, two session-key maps, connection counter; one pending operation per connection | accept, read completion with six message branches, write completion, errors, signal, constructor | peers by TCP, the list of devices by static calls, the nonce cache |
| Server, nonce cache (`server.cc` 137-165) | used nonces and time of the last nonce, per connection | `is_nonce_valid`, `cleanup_old_nonces` | called by the Hello branch |
| List of trusted devices (`src/src/encryption/data_encryp.cc` 100-268) | `config/trusted_clients.txt` | create, look up by keys, look up by id, register, authenticate, default clients | called by the constructor and by the Hello and registration branches |
| Key files (`data_encryp.cc` 16-86) | `keys/*.bin` | load, generate, save | constructors of server and client programs |
| Client (`src/src/client/`) | socket, two key objects, io thread and main thread | connect, Hello, retry by registration, AgreeParams, chat, stop | the server by TCP |
| Cryptography, conversions (`data_encryp.h`, `src/src/utils/`) | none | derive, encrypt, sign, digest, hex | both programs |
| Logger, start scripts | none that matters | output, installation and compilation | everything |

What is hard in it:

- **Ordering.** One io thread runs all handlers of all connections, in an order
  the network decides. Each handler decides whether another operation is
  started on its connection; three ways out of the big handler start none.
- **Partial failure.** Every exception of a handler leaves `io.run()` and ends
  the program for every client. The device is registered before its signature
  is checked. The file is written without looking at the stream afterwards.
- **Crashes.** Keys are loaded, generated and saved by several system calls, none
  of which is looked at for how much it did; a program can be stopped between any
  two, and another of its id can run there.
- **Persistence.** Sessions and nonces are lost with the process, the list of
  devices is not, and it is a text file that is only ever appended to, so an
  interrupted write stays in it for ever and is glued to what follows.
- **Time.** The nonces of one connection are cleaned when another's is accepted.
- **Blocking.** The answer to a registration is written synchronously by the
  one io thread. The client waits without a time limit for every answer.
- **Messages without numbers.** Both ends read what has arrived, parse the first
  message of it and drop the rest; a response is judged by its method and not by
  what was asked. Each text is matched with its answer only by their order.

What makes the components correct:

- *List of devices*: one id, one key pair; a key pair listed once; trust only
  grows; a finished line is never lost; who was told "registered" is found.
- *Nonce cache*: no recent nonce is forgotten; nothing escapes the cleanup; a
  connection that fell silent is forgotten; old nonces are cleaned.
- *Server*: the two session maps agree; the key a peer was told is the one its
  session uses, and so are the keys the peer presented; sessions only for trusted
  keys; an entry goes when its socket does; a connection is attended to until it is
  closed; messages and hang-ups are noticed.
- *Key files*: a program works with one generation of keys; keys that were
  reported as saved are in the file, and are those of every later program of that
  id; a device the server has accepted is not locked out, and is known under its own
  id.

Not all of these hold, and some hold under restrictions only: see the checks below.

- *Client*: it speaks in order, under its own keys, whatever it is answered; it
  ends when the server is gone.
- *Both programs together*: one key at both ends before the first text, each text
  heard once and acknowledged before the next; no more than one message in
  flight; no client stops the server; no client waits for ever, or for a server that
  waits for something else; nobody is turned away but for its keys.

## Modules

| Module | What it is |
|---|---|
| `TrustFile` | The operations on the list of devices, as operators from a file to the set of its possible successors |
| `TrustRegistry` | Those operations over starts, stops and failures of the file system; their properties |
| `TrustBinding` | Abstract: a one-to-one binding of ids to key pairs that only grows |
| `NonceCache` | `is_nonce_valid` and the cleanup, with the clock; their properties |
| `Server` | The server program: handlers, peers, process life. Extends `TrustFile` and `NonceCache`, whose operators its Hello and registration actions call |
| `ServerProperties` | The properties of `Server` and its two refinements |
| `TrustedSessions` | Abstract: sessions are made once, of a fresh key pair and trusted keys, and never changed |
| `KeyStore` | The constructor of a device's keys over its key file, system call by system call; the properties of the keys |
| `Devices` | `KeyStore` and `TrustFile` together: programs present their keys and the server accepts or refuses them |
| `Client` | The client program, with a server that may send anything; its properties |
| `SecureComm` | The two programs: extends `ServerProperties`, and its clients' steps are those of `Client`, by INSTANCE |
| `SecureChannel` | Abstract: what the two programs promise their users |
| `TrustFile_proofs`, `TrustRegistry_proofs`, `NonceCache_proofs`, `Server_proofs`, `KeyStore_proofs`, `Devices_proofs`, `Client_proofs`, `SecureComm_proofs` | Lemmas and theorems |
| `MCTrustRegistry`, `MCNonceCache`, `MCServer`, `MCDevices`, `MCClient`, `MCSecureComm` | Instances for TLC |

Definitions headed "Variant" are what a plausible slip in the definition below
them would look like. No specification uses them: they are put in its place to
see that each property notices.

### How the models correspond to the code

**`TrustFile`.** A line is what its readers recover from it: id (before the
first `|`), key pair, number of separators, newline or not. Both scans skip the
same lines and split the rest alike, so one `Readable` serves both. The fields of
a registration are written verbatim and unchecked, so the text that is written is
not always the line that was meant: `WrittenLines` gives, for an id and a key pair,
the lines that the text is read back as. An id with a `|` is read back as its first
part without a key pair, one with a leading `#` as a comment, one with a line end as
two lines or more, which may bind other ids and list other keys. Properties that need
it say so: `PlainTexts` has every text read back as it was meant, `OneLineTexts`
as one line that binds at most its own id to its own keys.

`Faults` turns on four failures: `open` (the append or the creation cannot be
opened, which the code reports), `read` (an existing file cannot be opened for
reading: a look-up then answers FALSE, and the append goes on all the same,
`Answers`), `lost` (nothing is written, not noticed), `short` (the flush stops
anywhere in the text, not noticed; `Cut` and `Glue` describe what is left and what
the next text makes of it). A cut id and the text behind it may add up to another
id; `JoinedIds` are the ids for which that can happen. Keys are hex texts of one
length, so that neither a cut nor a joined text is a key. Every operator returns the
set of the outcomes that are possible. The operations are atomic because only the io
thread of one process uses the file.

**`NonceCache`.** The two maps are functions on connections; `{}` and `Never`
stand for a missing entry. `now` is `steady_clock`, in any unit; `Window` is
the five minutes. `acceptedAt` is a history variable.

**`Server`.** One action per way through a handler. `pending[c]` is the one
asynchronous operation a connection can have; the completion of a read is one
of the message actions, `ReadError`; that of a write `WriteDone`, `WriteError`.
`Consumes` takes one message or several from `inbox`, and possibly a part of the
next, whose rest is then read as `Garbage` (`Remainders`): the `getline` of the code
answers the first and its buffer drops what is behind it. `Replies` is `async_write` on
a string that is gone when the handler returns: if the send buffer has no room
at once, what is sent later may be anything, so the announced key may be lost.
`RegistrationAnswered` writes synchronously: with no room it sets `blocked`,
and until the peer reads or leaves no handler runs, the signal's included.
`Halts` is an exception out of `io.run()` (or a fault): `remote_endpoint` of a
peer that is gone, a synchronous write to one, a decryption that fails before
the `try` block, a symmetric key that does not exist, a JSON field that is not
there. `Start` is `main` again: everything is fresh but the file.

A peer may send any message at any time, in particular what the client program sends.
Each message carries the id and the keys it is sent under (`from`, read by `Sender`),
so one connection may speak for several devices, and several connections may claim
one id. Two things are left out: the branch of `start_accept` that logs a failed
accept and accepts again (336-339), and a read that ends within an end mark. A server
key pair is a number in the order of generation; a symmetric key is the two pairs it
is derived from; a ciphertext is the key it opens under. A message without end mark
or not JSON, which the code drops without reading on, is `unknown`; a message that
lacks a field its branch reads is `malformed`.

**`KeyStore`.** The five fields of the keys object are five places of a
sequence, each the number of the generation it comes from; an uninitialized
member holds a value of `Junk`. A save opens the file, which truncates it, and
writes once, at the close, because 224 bytes fit the stream's buffer (`Truncates`,
`Saves`); a load is one read (`Loads`), and `Read` leaves the members a short file
does not reach as they were in memory. `Exit` may come between any two of these
steps, and any number of programs of one id may be in their constructors at once.
`StoreFaults` turns on four failures: `read` (an existing file cannot be
opened and is taken to be missing), `create` (it cannot be created; the caller
ignores that), `short` (the disk is full), `crash` (the program is stopped in its
constructor). An id is given on the command line or made of the time, modulo 10000 in
the code and `IdModulus` here. Two history variables: `keeper`, the keys last
reported as saved under an id, and `contended`, the ids under which a program was
started while another was constructing the first keys. For such an id the code does
not keep what it says, and two properties except it.

**`Devices`.** `Presented` is what a Hello carries of the keys and
`ValidSignature` when their signature fits. `Present` is the server's side: the
look-up or the registration, by the operators of `TrustFile`, then the
signature, in the order of the handler. `accepted` is a history variable.

**`Client`.** `where[c]` is the place of the main thread between two calls that can
wait, or how the program ended. `Sends` is `send_message`, which swallows its errors.
`Receives(c, n)` takes whatever has arrived, one message or several;
`is_valid_response_from_server` parses the first, and only two texts are searched for
in all of it (`Mentions`). That a receive takes part of a response is left out: the
server sends a client one at a time (`OneMessageInFlight`). `ReceiveFails` is
`read_until` at the end of the stream: it throws, and nothing catches it. After
`StopSocket` the destructor joins the io thread again (`Destroy`) and the program
ends by `std::terminate`. `EndOfInput` is the end of standard input, where the loop
spins. The other thread has no work and is modelled by `io_thread` alone.

**`SecureComm`.** Each step is a step of `Server` and one of `Client`, or one of
them when the connection does not change: what the client sends is what
`PeerSend` puts in `inbox`, what the server writes, decided by `outcome`, is
`Response`. A client sees its stream closed when the socket is, or when the
server has ended (`Stream`). A program that ends leaves the connection by a reset
if it has unread data and by an end of stream otherwise (`Leaves`). `ServerStarts`
begins with fresh clients. `heard` counts the texts the server decrypted and
verified. The client's way through a registration is never taken there, because the
server never answers a Hello with a refusal: `comm_refused` shows what happens
instead, and `client` checks that way with another server.

## Checks

Runs that must find no error:

| Run | Shows |
|---|---|
| `registry_faults` | Odd ids without a line end, `open`, `lost` and `short`, and restarts: `TypeOK`, `OneKeyPerDevice`, `KeysListedOnce`, `FinishedLinesStay` |
| `registry_open_fails` | With plain ids and failing opens: `ApprovedStaysTrusted`, `TrustNeverRevoked`, and the file implements `TrustBinding` |
| `nonce_cache` | `NonceTypeOK`, `RecentNoncesRefused`, `NoOrphanedNonces`, `SilentAreForgotten` |
| `server_handlers` | Two connections on which two devices of different ids speak: `TypeOK`, `SessionMapsAgree`, `AnnouncedKeyIsSessionKey`, `ClosedIsForgotten`, `NoOtherStall`, `OperationsOnOpenSockets`; under fairness `HangUpIsNoticed`, `MessagesAreTaken`, and the measure behind the first, `HangUpsAreWorkedOff` |
| `server_sessions` | Two connections, two devices that claim one id, every kind of refusal, and a restart, with plain ids: `SessionImpliesTrusted`; refines `TrustedSessions` |
| `devices` | Two programs, at once or not, with failing creations, crashes and a list that may fail to open: `KeyTypeOK`, `NeverMixed`, `KeysOutliveTheProgram`, `AcceptedIsNotLockedOut`, `AcceptedUnderOwnId` |
| `client` | Any responses in any order, closed at any time: `TypeOK`, `ConversationInOrder`; under fairness `EndsWithoutServer`, and the measure behind it, `WindsDown` |
| `comm` | Two clients, of two devices that claim one id, and the server: `OneMessageInFlight`, `OnlySignalsStopServer`, `TurnedAwayForItsKeys`; refines `SecureChannel`; under fairness `ClientsAreAnswered`, and what it rests on, `NobodyWaitsInVain` and `AnswersComeNearer` |

Runs that must find a violation; each states what a text of the repository says
and the code does not do:

| Run | What the text says, and what happens |
|---|---|
| `registry_first_run` | "First run detected, creating default client keys": never, because the constructor creates the file first |
| `server_registration` | "Registration completed, awaiting HelloFIUNAM": no read is started, nothing is awaited |
| `server_tampering` | "ANTI-TAMPERING - Closing connection": the same decryption is made before the `try` block and ends the server |
| `comm_refused` | "Device not trusted, requesting registration...": a server that refuses a device that is not on its list closes the connection without a word, and the client ends by an uncaught exception before it can ask |

More disagreements between the code and its texts can be seen in the models; they
have no run of their own:

- `data_encryp.cc` 151-154: "registered successfully" is said, and TRUE returned,
  whether or not anything was written: the stream is not looked at (`lost`).
- `data_encryp.cc` 151-154: the same is said of a device whose id has a `|` or a
  leading `#`, which no look-up finds afterwards (`ApprovedStaysTrusted` is for plain
  ids only).
- `data_encryp.cc` 210, "que no sea un dispositivo duplicado con el mismo device_id
  pero claves diferentes": an id with a line end makes one registration several lines,
  which may bind another id to a second key pair (`WrittenLines`); and a list that
  cannot be opened for reading is taken to be empty, so that an id on it is bound
  again (`read`). `OneKeyPerDevice` is stated without either.
- `data_encryp.cc` 24: "Keys loaded from" is said of a file that a crash left
  empty; the program works with what its memory held (`Read`).
- `data_encryp.cc` 20, 50: "Keys file not found" is said of a file that cannot be
  opened for reading, and saved keys may be replaced by others (`read`).
- `data_encryp.cc` 19, 84: "Keys saved to" is said by two programs of one id that make
  its first keys at once; the earlier works on with keys that the later overwrote, and
  a device that was accepted with them is locked out later (`contended`).
- `server.cc` 127: a second Hello on a connection that presents other keys logs "Unique
  session keys generated"; the maps' `insert` keeps the keys of the first, and the two
  ends of the connection derive different ones (`insertSession`).
- `server.cc` 149: the nonces "de más de 5 minutos" are cleaned, but not those of
  a connection that stays active (`AcceptNonce`).
- `client.cc` 160: an automatic id is called unique and is the time in seconds modulo
  10000 (`ChosenIds`).
- `client.cc` 227, `client.h` 26-28: the orderly end joins the io thread twice and
  is a `std::terminate` (`StopSocket`, `Destroy`).

### Bounds

| Bound | Value | Why it is enough |
|---|---|---|
| `MaxLines` | 3 or 4 lines | the invariants relate two lines, and a third can be glued to either |
| ids, keys | 3 plain and 2 odd ids (a `\|`, a leading `#`), 3 key pairs | two devices that dispute an id, and one that does not; the default clients need three |
| `Conns` | 1 or 2 (1 in `client` and `server_registration`) | handlers of different connections share only the file, the nonce cleanup, the counter and the thread: two connections meet in each of them |
| `MaxSends` | 2 or 3 messages in all | Hello, a second message, and one that finds what they left |
| `SendRoom` | 1 reply | the second unread reply finds the buffer full |
| `MaxStarts` | 1 or 2 | one restart; nothing but the file is carried over |
| `Window`, `MaxTime` | 2 and 6 in `nonce_cache`, 1 and 1 in `server_sessions` and `comm` | ages below, at and above the window; three windows in `nonce_cache` |
| `Programs` | 2 | keys concern one program and what others of its id left or do meanwhile; two meet in every system call |
| `Names`, `IdModulus` | 1 name, modulus 1 | one id that is given and one that every clock reading makes again |
| `MaxSeconds`, `MaxKeys` | 1, 3 generations | a clock that has moved; keys saved, keys replacing them, and keys of the other id |
| `Junk` | 1 value | what memory holds is only compared with generations |
| `MaxPending` | 2 responses | a receive that takes two, of which the second is lost |
| `MaxTexts` | 2 texts | a text after an acknowledged one |
| `MaxSends` in `comm` | 8 messages in all | the whole conversations of two clients: Hello, parameters, two texts each |

`MaxLines`, `MaxSends`, `MaxStarts`, `MaxTime`, `MaxSeconds`, `MaxKeys`,
`MaxPending` and `MaxTexts` are guards of the actions. The
proofs hold for all values of them. Deadlock is not checked where a bound or
the end of the process stops the model.

### Fairness

`FairSpec` has weak fairness of `Io(c)` for each connection: the epoll reactor
of asio queues every operation that becomes ready and the io thread runs the
queue in order, so an operation that stays possible is eventually completed.
Nothing is assumed of peers (they may never read, send or leave), of the clock,
of signals, or of a restart. Hence the exceptions named in the properties: a
stalled connection, a thread that has ended (`server # "running"`) or waits in
a synchronous write (`blocked`), a reply for which the peer makes no room.

In `Client`, `FairSpec` is fair to `Proceeds(c)`: a main thread that is not
waiting for its user or for the server runs. In `SecureComm`, `FairCommSpec` is
fair to that and to `ServerStep(c)`, per connection. Neither is fair to users, who
may stop typing, to kills, signals, the clock or starts. So
`EndsWithoutServer` excepts a program that waits for a line to be typed, or spins
at the end of its input.

## Proofs

`TrustRegistry_proofs`, for all ids, keys and fault sets, files of any length
and any number of restarts:

- `TypeCorrect` and `FinishedLinesStayHolds`: whatever fails, and whatever an id
  contains. The second needs of the invariant the type of the file only; it is what is
  left of trust when a write is cut short.
- `OneKeyPerDeviceHolds`, `KeysListedOnceHolds`: if `OneLineTexts` (no line end in an
  id), `JoinedIds = {}` and `"read" \notin Faults`, for all other failures. Each is
  needed: without the first, a text of two lines binds another id too; without the
  second, a cut id and the text behind it; without the third, nothing is looked up.
  The invariant is `TypeOK` and `Sound`, the two properties together: an append adds
  at most the pair it was asked to add (`Adds`), also where it completes a fragment,
  and the two look-ups made before it are what keeps that pair from clashing with the
  others.
- `TrustNeverRevokedHolds`: if `"short" \notin Faults`, whatever an id contains. The
  invariant is that all lines are complete (`Clean`).
- `ImplementsBindingHolds`: if `OneLineTexts` and `Faults` has neither `short` nor
  `read`.
- `ApprovedStaysTrustedHolds`: if `PlainTexts` and `Faults` has neither `lost` nor
  `short`. Both are needed: with a lost write approval is reported for a
  line that is not there, and an odd id is looked up under another name.

`TrustFile_proofs` has the lemmas, one group per operation of the list; they are
about the operators, so `Server` uses the same ones.

`NonceCache_proofs`: `NonceTypeCorrect`, `RecentNoncesRefusedHolds`,
`NoOrphanedNoncesHolds` and `SilentAreForgottenHolds`. The invariant adds that a
nonce was accepted no later than its connection's last nonce, and that no nonce lies
in the future: the cleanup decides by the last one, and this is why that never takes
away a recent one. It is also why an old nonce of an active connection stays.

`Server_proofs`, for any number of connections, devices, messages and restarts:

- `ServerTypeCorrect`, `SessionMapsAgreeHolds`, `AnnouncedKeyIsSessionKeyHolds`,
  `ClosedIsForgottenHolds`, `NoOtherStallHolds`, `OperationsOnOpenSocketsHolds` and
  `ServerRefusesRecentNonces`. The invariant, `ServerInv`, is these together with
  `Unaccepted` (a connection in the backlog is in no map), `AcceptedInOrder` (the
  counter has passed exactly the connections that were accepted), `NonceInv` and the
  types; it needs nothing of the faults or of what ids contain. They lean on each
  other: that a second Hello announces the pair of the session needs the maps to
  agree, and that an accepted connection starts with nothing announced needs
  `Unaccepted`. `StepKinds` sorts the steps by what they do to connections; each part
  of the invariant has a lemma with a step per kind.
- `HangUpsAreWorkedOffHolds`: with `ServerInv`, by the kinds of `WorksOn`. A read takes
  at least one message from the connection, a reply is finished before the next read,
  and no other connection's handler, no peer and no clock tick adds to what is left.
- `SessionImpliesTrustedHolds`, `ImplementsTrustedSessionsHolds`, if `PlainTexts` and
  `Faults` has neither `lost` nor `short`: otherwise a device has a session and is not
  in the list. `SessionStep` says what a step can do to the sessions; both follow
  from it.

`KeyStore_proofs`, for any number of programs, ids and generations:

- `KeyTypeCorrect`, whatever fails.
- `NeverMixedHolds`, if `"short" \notin StoreFaults`: even with crashes, unreadable
  files and programs of one id at once. The invariant adds that every file is
  missing, empty or one generation whole (`FilesWhole`).
- `KeysOutliveTheProgramHolds`, if `StoreFaults \subseteq {"create", "crash"}`, of
  every id but the contended ones. The invariant, `OutliveInv`, says that at most one
  program constructs the first keys of such an id (`OneConstructs`; when there are keys
  any number may, and all load them), what the file holds at each stage of that
  (`ReplacesNothing`, `FilesOfOthers`), and that saved keys stay in the file
  (`KeptWhole`).

`Devices_proofs`: `AcceptedIsNotLockedOutHolds`, with the same `StoreFaults` and the
same exception, with `Faults \subseteq {"open"}` and `PlainTexts`. `DevicesInv` takes
`OutliveInv` and adds that a key file with anything in it, and a program that works
with keys of a file, have a keeper (`FileKept`, `HeldKept`), and that an accepted id
is bound to its keeper's keys in the list (`AcceptedListed`).
`AcceptedUnderOwnIdHolds` needs the last two assumptions and `JoinedIds = {}`, and
holds for any `StoreFaults` and for contended ids too. Its invariant, `OwnInv`, is
that the generations of keys can be given owners (`Owned`): an id for each, such that
every part of it, in whatever key file, memory of a program or line of the list, is
at that id.

`Client_proofs`, for every server: `ClientTypeCorrect` and
`ConversationInOrderHolds`. `requests` only grows in `Client`, and the invariant
says, for each place of the program, what has been said by then: nothing but
greetings and registrations before the parameters (`EarlyInv`), the parameters
before any text (`LateInv`), a session key only of the own device (`KeyInv`), and
no more answers than texts (`CountInv`). `WindsDownHolds` follows from the types and
from how the places of the program are ordered, with a lemma for each kind of step.

`SecureComm_proofs`, for any number of connections, devices, texts and restarts,
under `CommAssumption` (the send buffer has room for one reply):

- `CommImplementsServer`: every step of the composition is a step of `Server` or
  leaves it unchanged, so that what `Server_proofs` shows holds here too.
- `OneMessageInFlightHolds`, `OnlySignalsStopServerHolds`. The invariant,
  `CommInv`, is `ServerInv` and, for each connection, four parts: where its one
  message is (`Flow`), what holds of the keys at each place of the client
  (`Standing`), how the three counts of texts relate (`Counts`), and how the ends
  see the connection (`Connection`). It needs all four at once: that a text finds
  a session rests on `Standing`, this on the order of messages in `Flow`, and that
  no reply is lost to a full buffer on there being one message only.
- `ImplementsSecureChannelHolds`: step by step, from the same invariant.
- `NobodyWaitsInVainHolds`. `AnswerInv` is added to `CommInv`: for each connection, that
  its one greeting finds no nonce (`Greets`), that no handler has left it without
  attention, and that while its client waits something is under way (`Attended`). That
  the backlog moves rests on `AcceptedInOrder`: the connection to be accepted next is
  always the oldest of those that are waited for.
- `AnswersComeNearerHolds`: from the two invariants, by where the message is.
- `TurnedAwayForItsKeysHolds`, if `"read" \notin Faults`: of all ways to be turned
  away `AnswerInv` leaves one, the refusal of a Hello, and of a good signature the
  list alone refuses it (`RefusedByList` in `TrustFile_proofs`).

Only model-checked: everything with fairness (TLAPS has no proof rules for `ENABLED`
here), that is `HangUpIsNoticed`, `MessagesAreTaken`, `EndsWithoutServer` and
`ClientsAreAnswered`. For all but the second the part that does not need fairness is
a property of its own, and proved: a measure that the fair steps lower and no other
step raises. It is `HangUpsAreWorkedOff` for the first, `WindsDown` for the third and
`AnswersComeNearer` for the last, where `NobodyWaitsInVain` also shows that until the
answer is there a step that lowers the measure can be taken, or the accepting of an
older connection, of which there are finitely many. What is left to TLC is that a
fair step is taken in the end. The named assumptions on the constants
(`FileAssumption`, `TextAssumption`, `NonceAssumption`, `ServerAssumption`,
`StoreAssumption`, `DeviceAssumption`, `ClientAssumption`, `CommAssumption`) say that
special values are distinct from the others, that bounds are numbers, that
connections are numbered from 1 on without gaps, as `++connection_counter_` does, and
what the sets of messages and faults are made of.

## Not modelled

- The wrap of the connection counter after 2^31 connections.
- An accept that fails (`server.cc` 336-339: it is logged, and the next is started),
  and a read that ends within an end mark.
- Cryptography, digests, hex conversion: pure functions, abstracted where they
  are used (a ciphertext opens under the key it was made with, a signature or a
  digest fits or not). Logging and the start scripts: no state depends on them.
- Failures of `create_directories` and `sodium_init`, at the very start of a
  program, which end it or leave it without keys.
- Peers other than the client program in `SecureComm`: `Server` has them.

## Plan

All parts that were planned are modelled, checked and, where the prover can, proved:
the list of devices, the nonce cache, the server and its abstract sessions, the
client, the key files, the devices, the two programs together and the abstract
channel. What is left could extend them:

1. Three connections in `comm`, and restarts between which clients live on.
2. One model of `Devices` and `SecureComm` in which the client's keys, the list and
   the session are all detailed at once.
