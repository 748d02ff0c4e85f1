------------------------------ MODULE TrustFile ------------------------------
(***************************************************************************)
(* The operations of SessionKeysAsymetric on config/trusted_clients.txt,   *)
(* the server's list of trusted devices, as operators on the contents of   *)
(* the file.  The server reads and appends to the file only from its one   *)
(* io thread, so each operation is a function of the file.                 *)
(*                                                                         *)
(* A line is kept as what its readers can recover from it: the text before *)
(* its first '|', the key pair after it, and how many '|' it has (2 stands *)
(* for two or more).  `ended' is FALSE while the line lacks its newline.   *)
(* The fields of a registration are written verbatim, whatever is in them: *)
(* one with a '|', a leading '#' or a line end is read back as other lines *)
(* than was meant.  WrittenLines says as which.                            *)
(*                                                                         *)
(* Every operation that may fail half-way yields the SET of its outcomes,  *)
(* and Faults says which failures of the file system are considered.       *)
(***************************************************************************)
EXTENDS Naturals, Sequences

CONSTANTS
    DeviceIds,   \* values of the device_ID field
    WrittenLines,\* the lines that the text of a registration is read back as
    JoinedIds,   \* ids that a cut id and the text behind it may add up to
    Keys,        \* pairs (public_key_hex, long_term_public_key_hex)
    NoId,        \* a text before the first '|' that is no device's id
    CommentId,   \* ... that starts with '#'
    NoKeys,      \* a text after the first '|' that is no device's key pair
    DefaultIds,  \* client1, client2, client3
    DefaultKeys, \* the key pairs generated for them
    Faults       \* subset of FaultKinds

\* Opening to write fails, opening to read fails, a write is lost, or cut short.
FaultKinds == {"open", "read", "lost", "short"}

\* A text without '|' is not known to be anybody's id.
Line == { l \in [id : DeviceIds \cup {NoId, CommentId}, keys : Keys \cup {NoKeys},
                 pipes : 0..2, ended : BOOLEAN] : l.pipes = 0 => l.id \notin DeviceIds }
File == { f \in [exists : BOOLEAN, lines : Seq(Line)] : ~f.exists => f.lines = <<>> }
NoFile == [exists |-> FALSE, lines |-> <<>>]

\* What "id|public_key_hex|long_term_public_key_hex" and a newline should be.
PlainLine(id, k) == [id |-> id, keys |-> k, pipes |-> 2, ended |-> TRUE]

ASSUME FileAssumption ==
    /\ NoId \notin DeviceIds /\ CommentId \notin DeviceIds /\ NoId # CommentId
    /\ NoKeys \notin Keys
    /\ DefaultIds \in [1..3 -> DeviceIds]
    /\ DefaultKeys \in [1..3 -> Keys]
    /\ \A i, j \in 1..3 : i # j => /\ DefaultIds[i] # DefaultIds[j]
                                   /\ DefaultKeys[i] # DefaultKeys[j]
    /\ Faults \subseteq FaultKinds

\* Every text ends with its newline; the default ids are plain.
ASSUME TextAssumption ==
    /\ WrittenLines \in [DeviceIds \X Keys -> Seq(Line)]
    /\ \A p \in DeviceIds \X Keys : /\ WrittenLines[p] # <<>>
                                    /\ \A i \in DOMAIN WrittenLines[p] : WrittenLines[p][i].ended
    /\ \A i \in 1..3 : WrittenLines[<<DefaultIds[i], DefaultKeys[i]>>]
                            = <<PlainLine(DefaultIds[i], DefaultKeys[i])>>
    /\ JoinedIds \subseteq DeviceIds
    /\ "short" \notin Faults => JoinedIds = {}

-----------------------------------------------------------------------------
\* Reading: both scans skip the same lines and split the others alike.

Readable(l) == l.pipes = 2 /\ l.id # CommentId

\* Variant: the scan ends at the first line.
first_line_registered(f, k) ==
    f.lines # <<>> /\ Readable(f.lines[1]) /\ f.lines[1].keys = k

is_client_registered(f, k) ==
    \E i \in DOMAIN f.lines : Readable(f.lines[i]) /\ f.lines[i].keys = k

\* Variant: the lookup by id is left out.
id_never_registered(f, id, k) == FALSE

is_device_id_registered_with_different_keys(f, id, k) ==
    \E i \in DOMAIN f.lines : /\ Readable(f.lines[i])
                              /\ f.lines[i].id = id
                              /\ f.lines[i].keys # k

-----------------------------------------------------------------------------
\* What makes the list a sound one: no id is bound to two key pairs, and no key
\* pair is listed twice.

Bound(l) == Readable(l) /\ l.keys \in Keys

OneOwner(ls) ==
    \A i, j \in DOMAIN ls :
        Bound(ls[i]) /\ Bound(ls[j]) /\ ls[i].id = ls[j].id /\ ls[i].id \in DeviceIds
            => ls[i].keys = ls[j].keys

ListedOnce(ls) ==
    \A i, j \in DOMAIN ls : Bound(ls[i]) /\ Bound(ls[j]) /\ ls[i].keys = ls[j].keys => i = j

-----------------------------------------------------------------------------
\* Writing.

\* Variant: the keys are left out.
IdAlone(id, k) == <<[id |-> id, keys |-> NoKeys, pipes |-> 0, ended |-> TRUE]>>

Written(id, k) == WrittenLines[<<id, k>>]

\* Restrictions on the fields that some properties need: every registration is
\* read back as it was meant; or at least as one line, which binds no other id
\* and no other keys.
PlainTexts == \A id \in DeviceIds, k \in Keys : Written(id, k) = <<PlainLine(id, k)>>

OneLineTexts ==
    \A id \in DeviceIds, k \in Keys :
        \E l \in Line : /\ Written(id, k) = <<l>>
                        /\ l.keys \in {k, NoKeys}
                        /\ l.pipes = 2 /\ l.keys = k => l.id \in {id, CommentId}

\* What a flush that stops part of the way leaves of a line: all of it but
\* the newline, or a text cut in the second key, in the first, or in the id.
\* Keys are texts of one length, so neither a cut nor a joined text is a key.
CutLine(l) ==
    { [l EXCEPT !.ended = FALSE] } \cup
    { [l EXCEPT !.keys = NoKeys, !.pipes = p, !.ended = FALSE] : p \in 1..l.pipes } \cup
    { [l EXCEPT !.id = IF @ = CommentId THEN CommentId ELSE NoId,
                !.keys = NoKeys, !.pipes = 0, !.ended = FALSE] }

\* ... and of a text: its first lines, and possibly a part of the next.
Cut(t) ==
    { SubSeq(t, 1, n) : n \in 1..(Len(t) - 1) } \cup
    UNION { { Append(SubSeq(t, 1, n - 1), l) : l \in CutLine(t[n]) } : n \in 1..Len(t) }

\* The text of l written straight behind the unfinished line f: behind a part of
\* an id, the two add up to no id or to one of JoinedIds.
Glue(f, l) ==
    { [id |-> id, keys |-> IF f.pipes = 0 THEN l.keys ELSE NoKeys,
       pipes |-> IF f.pipes + l.pipes > 2 THEN 2 ELSE f.pipes + l.pipes,
       ended |-> l.ended] :
        id \in {f.id} \cup (IF f.pipes = 0 /\ l.pipes > 0 /\ f.id = NoId THEN JoinedIds ELSE {}) }

\* Variant: the file is opened without std::ios::app.
OverwriteText(ls, t) == {t}

AppendText(ls, t) ==
    IF ls # <<>> /\ ~ls[Len(ls)].ended
    THEN { [ls EXCEPT ![Len(ls)] = l] \o Tail(t) : l \in Glue(ls[Len(ls)], Head(t)) }
    ELSE { ls \o t }

\* The state of the stream is not looked at after <<, so the three look alike
\* to the caller.
Appended(ls, t) ==
    AppendText(ls, t) \cup
    (IF "lost" \in Faults THEN {ls} ELSE {}) \cup
    (IF "short" \in Faults THEN UNION { AppendText(ls, s) : s \in Cut(t) } ELSE {})

\* The two header lines start with '#': they matter only if they are cut.
Header == [id |-> CommentId, keys |-> NoKeys, pipes |-> 0, ended |-> FALSE]

initialize_trusted_clients_if_needed(f) ==
    IF f.exists THEN {f}
    ELSE { [exists |-> TRUE, lines |-> <<>>] } \cup
         (IF "open" \in Faults THEN {f} ELSE {}) \cup
         (IF "short" \in Faults THEN { [exists |-> TRUE, lines |-> <<Header>>] } ELSE {})

\* What a look-up returns: FALSE also when the file cannot be opened.
Answers(found) == {found} \cup (IF "read" \in Faults THEN {FALSE} ELSE {})

\* The possible results: the file, and what the function returns.
RegisterIn(g, id, k) ==
    UNION { IF listed THEN { [file |-> g, ok |-> TRUE] }
            ELSE { [file |-> [exists |-> TRUE, lines |-> ls], ok |-> TRUE] :
                        ls \in Appended(g.lines, Written(id, k)) } \cup
                 (IF "open" \in Faults THEN { [file |-> g, ok |-> FALSE] } ELSE {}) :
            listed \in Answers(is_client_registered(g, k)) }

register_client_public_key(f, id, k) ==
    UNION { RegisterIn(g, id, k) : g \in initialize_trusted_clients_if_needed(f) }

\* One turn of the loop over the default clients, from each file in F.
RegisterDefault(F, i) ==
    UNION { { o.file : o \in register_client_public_key(f, DefaultIds[i], DefaultKeys[i]) } :
            f \in F }

auto_register_first_client(f) ==
    IF f.exists THEN {f}
    ELSE RegisterDefault(RegisterDefault(RegisterDefault({f}, 1), 2), 3)

\* The body of the Server constructor.
Startup(f) ==
    UNION { auto_register_first_client(g) : g \in initialize_trusted_clients_if_needed(f) }

-----------------------------------------------------------------------------
Tokens == {"", "DEV_TOKEN_12345", "MANUFACTURER_CERT_ABC", "IOT_DEVICE_APPROVED", "other"}

is_valid_auth_token(token) ==
    token \in {"DEV_TOKEN_12345", "MANUFACTURER_CERT_ABC", "IOT_DEVICE_APPROVED"}

\* The part behind the first look-up.
AuthenticateUnlisted(f, id, k, token) ==
    IF token # "" /\ ~is_valid_auth_token(token) THEN { [file |-> f, ok |-> FALSE] }
    ELSE UNION { IF disputed THEN { [file |-> f, ok |-> FALSE] }
                 ELSE register_client_public_key(f, id, k) :
                 disputed \in Answers(is_device_id_registered_with_different_keys(f, id, k)) }

\* Variant: an authorized device is approved and not written down.
approve_only(f, id, k, token) ==
    { [file |-> f, ok |-> token = "" \/ is_valid_auth_token(token)] }

authenticate_and_register_device(f, id, k, token) ==
    UNION { IF listed THEN { [file |-> f, ok |-> TRUE] }
            ELSE AuthenticateUnlisted(f, id, k, token) :
            listed \in Answers(is_client_registered(f, k)) }

=============================================================================
