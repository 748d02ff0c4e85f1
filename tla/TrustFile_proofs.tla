--------------------------- MODULE TrustFile_proofs ---------------------------
(***************************************************************************)
(* What appending to the list of trusted devices can and cannot change:    *)
(* first whatever is written (types, finished lines), then for texts of    *)
(* one line (what is bound), then while no write is cut short (growth).    *)
(***************************************************************************)
EXTENDS TrustFile, SequenceTheorems, TLAPS

USE FileAssumption

-----------------------------------------------------------------------------
\* Whatever is written, and however much of it.

\* The lines that have their newline are in ls2 as they are in ls.
KeepsEnded(ls, ls2) ==
    \A i \in DOMAIN ls : ls[i].ended => i \in DOMAIN ls2 /\ ls2[i] = ls[i]

LEMMA WrittenType ==
    ASSUME NEW id \in DeviceIds, NEW k \in Keys
    PROVE  /\ Written(id, k) \in Seq(Line) /\ Written(id, k) # <<>>
           /\ \A i \in DOMAIN Written(id, k) : Written(id, k)[i].ended
<1>1. <<id, k>> \in DeviceIds \X Keys
  OBVIOUS
<1>. QED BY <1>1, TextAssumption DEF Written

LEMMA CutLineType ==
    ASSUME NEW l \in Line, NEW c \in CutLine(l)
    PROVE  c \in Line
<1>1. l.id \in DeviceIds \cup {NoId, CommentId} /\ l.keys \in Keys \cup {NoKeys} /\ l.pipes \in 0..2
  BY DEF Line
<1>2. CASE c = [l EXCEPT !.ended = FALSE]
  BY <1>2 DEF Line
<1>3. CASE \E p \in 1..l.pipes : c = [l EXCEPT !.keys = NoKeys, !.pipes = p, !.ended = FALSE]
  <2>1. PICK p \in 1..l.pipes : c = [l EXCEPT !.keys = NoKeys, !.pipes = p, !.ended = FALSE]
    BY <1>3
  <2>2. c = [id |-> l.id, keys |-> NoKeys, pipes |-> p, ended |-> FALSE]
    BY <2>1 DEF Line
  <2>3. p \in 0..2 /\ p # 0
    BY <1>1
  <2>. QED BY <1>1, <2>2, <2>3 DEF Line
<1>4. CASE c = [l EXCEPT !.id = IF @ = CommentId THEN CommentId ELSE NoId,
                         !.keys = NoKeys, !.pipes = 0, !.ended = FALSE]
  <2>1. PICK t \in {NoId, CommentId} :
            c = [l EXCEPT !.id = t, !.keys = NoKeys, !.pipes = 0, !.ended = FALSE]
    BY <1>4
  <2>2. c = [id |-> t, keys |-> NoKeys, pipes |-> 0, ended |-> FALSE]
    BY <2>1 DEF Line
  <2>. QED BY <2>2 DEF Line
<1>. QED BY <1>2, <1>3, <1>4 DEF CutLine

LEMMA CutType ==
    ASSUME NEW t \in Seq(Line), t # <<>>, NEW s \in Cut(t)
    PROVE  s \in Seq(Line) /\ s # <<>>
<1>1. Len(t) \in Nat /\ DOMAIN t = 1..Len(t)
  BY LenProperties
<1>2. ASSUME NEW n \in 1..(Len(t) - 1), s = SubSeq(t, 1, n)
      PROVE  s \in Seq(Line) /\ s # <<>>
  <2>1. /\ SubSeq(t, 1, n) \in Seq(Line)
        /\ Len(SubSeq(t, 1, n)) = n
    BY <1>1, SubSeqProperties
  <2>2. Len(<<>>) = 0
    OBVIOUS
  <2>. QED BY <1>2, <2>1, <2>2
<1>3. ASSUME NEW n \in 1..Len(t), NEW c \in CutLine(t[n]), s = Append(SubSeq(t, 1, n - 1), c)
      PROVE  s \in Seq(Line) /\ s # <<>>
  <2>1. c \in Line
    BY <1>1, CutLineType, ElementOfSeq
  <2>2. SubSeq(t, 1, n - 1) \in Seq(Line)
    BY <1>1, SubSeqProperties
  <2>. QED BY <1>3, <2>1, <2>2, AppendProperties
<1>. QED BY <1>2, <1>3 DEF Cut

LEMMA JoinedType == JoinedIds \subseteq DeviceIds
BY TextAssumption

LEMMA GlueType ==
    ASSUME NEW f \in Line, NEW l \in Line, NEW g \in Glue(f, l)
    PROVE  g \in Line
<1>1. PICK id \in {f.id} \cup (IF f.pipes = 0 /\ l.pipes > 0 /\ f.id = NoId THEN JoinedIds
                             ELSE {}) :
          g = [id |-> id, keys |-> IF f.pipes = 0 THEN l.keys ELSE NoKeys,
               pipes |-> IF f.pipes + l.pipes > 2 THEN 2 ELSE f.pipes + l.pipes,
               ended |-> l.ended]
  BY DEF Glue
<1>2. /\ id \in DeviceIds \cup {NoId, CommentId}
      /\ f.pipes + l.pipes = 0 => id = f.id
  BY <1>1, JoinedType DEF Line
<1>. QED BY <1>1, <1>2 DEF Line

LEMMA AppendTextType ==
    ASSUME NEW ls \in Seq(Line), NEW t \in Seq(Line), t # <<>>, NEW ls2 \in AppendText(ls, t)
    PROVE  ls2 \in Seq(Line) /\ KeepsEnded(ls, ls2)
<1>1. CASE ls # <<>> /\ ~ls[Len(ls)].ended
  <2>1. PICK g \in Glue(ls[Len(ls)], Head(t)) : ls2 = [ls EXCEPT ![Len(ls)] = g] \o Tail(t)
    BY <1>1 DEF AppendText
  <2>2. Len(ls) \in 1..Len(ls) /\ ls[Len(ls)] \in Line
    BY <1>1, EmptySeq, LenProperties, ElementOfSeq
  <2>3. Head(t) \in Line /\ Tail(t) \in Seq(Line)
    BY HeadTailProperties
  <2>4. g \in Line
    BY <2>2, <2>3, GlueType
  <2> DEFINE rest == [ls EXCEPT ![Len(ls)] = g]
  <2>5. /\ rest \in Seq(Line)
        /\ Len(rest) = Len(ls)
        /\ \A j \in 1..Len(ls) : j # Len(ls) => rest[j] = ls[j]
    BY <2>2, <2>4, ExceptSeq
  <2> HIDE DEF rest
  <2>6. /\ rest \o Tail(t) \in Seq(Line)
        /\ Len(rest \o Tail(t)) = Len(rest) + Len(Tail(t))
        /\ \A i \in 1..Len(rest) : (rest \o Tail(t))[i] = rest[i]
    <3>1. Len(rest) \in Nat /\ Len(Tail(t)) \in Nat
      BY <2>3, <2>5, LenProperties
    <3>2. \A i \in 1..Len(rest) : i \in 1..(Len(rest) + Len(Tail(t))) /\ i <= Len(rest)
      BY <3>1
    <3>. QED BY <2>3, <2>5, <3>2, ConcatProperties
  <2>7. Len(Tail(t)) \in Nat /\ Len(ls) \in Nat /\ DOMAIN ls = 1..Len(ls)
        /\ DOMAIN (rest \o Tail(t)) = 1..Len(rest \o Tail(t))
    BY <2>3, <2>6, LenProperties
  <2>9. \A i \in DOMAIN ls : ls[i].ended => i # Len(ls)
    BY <1>1
  <2>8. KeepsEnded(ls, rest \o Tail(t))
    BY <2>5, <2>6, <2>7, <2>9 DEF KeepsEnded
  <2>. QED BY <2>1, <2>6, <2>8 DEF rest
<1>2. CASE ~(ls # <<>> /\ ~ls[Len(ls)].ended)
  <2>1. ls2 = ls \o t
    BY <1>2 DEF AppendText
  <2>2. /\ ls \o t \in Seq(Line)
        /\ Len(ls \o t) = Len(ls) + Len(t)
        /\ \A i \in 1..Len(ls) : (ls \o t)[i] = ls[i]
    BY ConcatProperties, LenProperties
  <2>3. KeepsEnded(ls, ls \o t)
    BY <2>2, LenProperties DEF KeepsEnded
  <2>. QED BY <2>1, <2>2, <2>3
<1>. QED BY <1>1, <1>2

LEMMA AppendedType ==
    ASSUME NEW ls \in Seq(Line), NEW t \in Seq(Line), t # <<>>, NEW ls2 \in Appended(ls, t)
    PROVE  ls2 \in Seq(Line) /\ KeepsEnded(ls, ls2)
<1>1. CASE ls2 = ls
  BY <1>1 DEF KeepsEnded
<1>2. CASE ls2 \in AppendText(ls, t)
  BY <1>2, AppendTextType
<1>3. ASSUME NEW s \in Cut(t), ls2 \in AppendText(ls, s)
      PROVE  ls2 \in Seq(Line) /\ KeepsEnded(ls, ls2)
  BY <1>3, CutType, AppendTextType
<1>. QED BY <1>1, <1>2, <1>3 DEF Appended

\* Creating the file binds nothing.
LEMMA InitializeLines ==
    ASSUME NEW f \in File, NEW g \in initialize_trusted_clients_if_needed(f)
    PROVE  /\ g \in File /\ g.lines \in Seq(Line)
           /\ KeepsEnded(f.lines, g.lines)
           /\ \A i \in DOMAIN g.lines :
                  Bound(g.lines[i]) => i \in DOMAIN f.lines /\ g.lines[i] = f.lines[i]
<1>1. CASE g = f
  BY <1>1 DEF File, KeepsEnded
<1>2. CASE ~f.exists /\ g = [exists |-> TRUE, lines |-> <<>>]
  BY <1>2 DEF File, KeepsEnded
<1>3. CASE ~f.exists /\ g = [exists |-> TRUE, lines |-> <<Header>>]
  <2>1. Header \in Line /\ ~Bound(Header)
    BY DEF Header, Line, Bound, Readable
  <2>2. <<Header>> \in Seq(Line) /\ DOMAIN <<Header>> = {1} /\ <<Header>>[1] = Header
    BY <2>1
  <2>. QED BY <1>3, <2>1, <2>2 DEF File, KeepsEnded
<1>. QED BY <1>1, <1>2, <1>3 DEF initialize_trusted_clients_if_needed

\* What registering may do: nothing, on the file as found or created, or append.
RegisterOutcome(g, id, k, o) ==
    \/ /\ is_client_registered(g, k)
       /\ o = [file |-> g, ok |-> TRUE]
    \/ /\ ~is_client_registered(g, k) \/ "read" \in Faults
       /\ \E ls \in Appended(g.lines, Written(id, k)) :
              o = [file |-> [exists |-> TRUE, lines |-> ls], ok |-> TRUE]
    \/ /\ "open" \in Faults
       /\ o = [file |-> g, ok |-> FALSE]

LEMMA AnswersCases ==
    ASSUME NEW found \in BOOLEAN, NEW a \in Answers(found)
    PROVE  (a = TRUE /\ found) \/ (a = FALSE /\ (~found \/ "read" \in Faults))
BY Zenon DEF Answers

LEMMA RegisterCases ==
    ASSUME NEW f, NEW id, NEW k, NEW o \in register_client_public_key(f, id, k)
    PROVE  \E g \in initialize_trusted_clients_if_needed(f) : RegisterOutcome(g, id, k, o)
<1>1. PICK g \in initialize_trusted_clients_if_needed(f) : o \in RegisterIn(g, id, k)
  BY Zenon DEF register_client_public_key
<1>2. PICK listed \in Answers(is_client_registered(g, k)) :
          o \in IF listed THEN { [file |-> g, ok |-> TRUE] }
               ELSE { [file |-> [exists |-> TRUE, lines |-> ls], ok |-> TRUE] :
                        ls \in Appended(g.lines, Written(id, k)) } \cup
                    (IF "open" \in Faults THEN { [file |-> g, ok |-> FALSE] } ELSE {})
  BY <1>1, Zenon DEF RegisterIn
<1>3. is_client_registered(g, k) \in BOOLEAN
  BY DEF is_client_registered
<1>4. CASE listed = TRUE /\ is_client_registered(g, k)
  BY <1>2, <1>4, Zenon DEF RegisterOutcome
<1>5. CASE listed = FALSE /\ (~is_client_registered(g, k) \/ "read" \in Faults)
  <2>1. CASE o \in { [file |-> [exists |-> TRUE, lines |-> ls], ok |-> TRUE] :
                        ls \in Appended(g.lines, Written(id, k)) }
    BY <1>5, <2>1, Zenon DEF RegisterOutcome
  <2>2. CASE "open" \in Faults /\ o = [file |-> g, ok |-> FALSE]
    BY <1>5, <2>2, Zenon DEF RegisterOutcome
  <2>3. \/ o \in { [file |-> [exists |-> TRUE, lines |-> ls], ok |-> TRUE] :
                        ls \in Appended(g.lines, Written(id, k)) }
        \/ "open" \in Faults /\ o \in { [file |-> g, ok |-> FALSE] }
    BY <1>2, <1>5, Zenon
  <2>. QED BY <2>1, <2>2, <2>3
<1>. QED BY <1>2, <1>3, <1>4, <1>5, AnswersCases, Zenon

\* What asking for it with a token may do.
LEMMA AuthenticateCases ==
    ASSUME NEW f, NEW id, NEW k, NEW token,
           NEW o \in authenticate_and_register_device(f, id, k, token)
    PROVE  \/ is_client_registered(f, k) /\ o = [file |-> f, ok |-> TRUE]
           \/ /\ ~is_client_registered(f, k) \/ "read" \in Faults
              /\ \/ token # "" /\ ~is_valid_auth_token(token)
                 \/ is_device_id_registered_with_different_keys(f, id, k)
              /\ o = [file |-> f, ok |-> FALSE]
           \/ /\ ~is_client_registered(f, k) \/ "read" \in Faults
              /\ ~is_device_id_registered_with_different_keys(f, id, k) \/ "read" \in Faults
              /\ o \in register_client_public_key(f, id, k)
<1> DEFINE known == is_client_registered(f, k)
           other == is_device_id_registered_with_different_keys(f, id, k)
<1>1. known \in BOOLEAN /\ other \in BOOLEAN
  BY DEF is_client_registered, is_device_id_registered_with_different_keys
<1>2. PICK listed \in Answers(known) :
          o \in IF listed THEN { [file |-> f, ok |-> TRUE] } ELSE AuthenticateUnlisted(f, id, k, token)
  BY Zenon DEF authenticate_and_register_device
<1>3. CASE listed = TRUE /\ known
  BY <1>2, <1>3, Zenon
<1>4. CASE listed = FALSE /\ (~known \/ "read" \in Faults)
  <2>1. o \in AuthenticateUnlisted(f, id, k, token)
    BY <1>2, <1>4, Zenon
  <2>2. CASE token # "" /\ ~is_valid_auth_token(token)
    BY <1>4, <2>1, <2>2, Zenon DEF AuthenticateUnlisted
  <2>3. CASE ~(token # "" /\ ~is_valid_auth_token(token))
    <3>1. PICK disputed \in Answers(other) :
              o \in IF disputed THEN { [file |-> f, ok |-> FALSE] }
                   ELSE register_client_public_key(f, id, k)
      BY <2>1, <2>3, Zenon DEF AuthenticateUnlisted
    <3>2. CASE disputed = TRUE /\ other
      BY <1>4, <3>1, <3>2, Zenon
    <3>3. CASE disputed = FALSE /\ (~other \/ "read" \in Faults)
      BY <1>4, <3>1, <3>3, Zenon
    <3>. QED BY <1>1, <3>1, <3>2, <3>3, AnswersCases, Zenon
  <2>. QED BY <2>2, <2>3
<1>. QED BY <1>1, <1>2, <1>3, <1>4, AnswersCases, Zenon

\* A device that brings no token is refused for what the list says of it, or
\* because the list could not be written.
LEMMA RefusedByList ==
    ASSUME "read" \notin Faults,
           NEW f, NEW id, NEW k, NEW o \in authenticate_and_register_device(f, id, k, ""), ~o.ok
    PROVE  /\ ~is_client_registered(f, k)
           /\ is_device_id_registered_with_different_keys(f, id, k) \/ "open" \in Faults
<1>1. \A g : o # [file |-> g, ok |-> TRUE]
  <2>1. ASSUME NEW g, o = [file |-> g, ok |-> TRUE] PROVE FALSE
    BY ONLY <2>1, ~o.ok
  <2>. QED BY <2>1, Zenon
<1>2. ~is_client_registered(f, k)
  BY <1>1, AuthenticateCases, Zenon
<1>3. ASSUME ~is_device_id_registered_with_different_keys(f, id, k) PROVE "open" \in Faults
  <2>1. o \in register_client_public_key(f, id, k)
    BY <1>1, <1>3, AuthenticateCases, Zenon
  <2>2. PICK g \in initialize_trusted_clients_if_needed(f) : RegisterOutcome(g, id, k, o)
    BY <2>1, RegisterCases, Zenon
  <2>. QED BY <1>1, <2>2, Zenon DEF RegisterOutcome
<1>. QED BY <1>2, <1>3, Zenon

\* Registering keeps the type of the file and its finished lines,
LEMMA RegisterType ==
    ASSUME NEW f \in File, NEW id \in DeviceIds, NEW k \in Keys,
           NEW o \in register_client_public_key(f, id, k)
    PROVE  o.file \in File /\ KeepsEnded(f.lines, o.file.lines)
<1>1. PICK g \in initialize_trusted_clients_if_needed(f) : RegisterOutcome(g, id, k, o)
  BY RegisterCases, Zenon
<1>2. /\ g \in File /\ g.lines \in Seq(Line) /\ KeepsEnded(f.lines, g.lines)
  BY InitializeLines
<1>3. CASE o.file = g
  BY <1>2, <1>3
<1>4. ASSUME NEW ls \in Appended(g.lines, Written(id, k)),
             o = [file |-> [exists |-> TRUE, lines |-> ls], ok |-> TRUE]
      PROVE  o.file \in File /\ KeepsEnded(f.lines, o.file.lines)
  <2>1. ls \in Seq(Line) /\ KeepsEnded(g.lines, ls)
    BY <1>2, WrittenType, AppendedType
  <2>2. o.file = [exists |-> TRUE, lines |-> ls]
    BY <1>4
  <2>3. KeepsEnded(f.lines, ls)
    BY <1>2, <2>1 DEF KeepsEnded
  <2>. QED BY <2>1, <2>2, <2>3 DEF File
<1>5. \/ o.file = g
      \/ \E ls \in Appended(g.lines, Written(id, k)) :
              o = [file |-> [exists |-> TRUE, lines |-> ls], ok |-> TRUE]
  <2>1. o = [file |-> g, ok |-> TRUE] \/ o = [file |-> g, ok |-> FALSE] => o.file = g
    OBVIOUS
  <2>. QED BY <1>1, <2>1, Zenon DEF RegisterOutcome
<1>. QED BY <1>3, <1>4, <1>5

\* with a token or without,
LEMMA AuthenticateType ==
    ASSUME NEW f \in File, NEW id \in DeviceIds, NEW k \in Keys, NEW token,
           NEW o \in authenticate_and_register_device(f, id, k, token)
    PROVE  o.file \in File /\ KeepsEnded(f.lines, o.file.lines)
<1>1. CASE o \in { [file |-> f, ok |-> TRUE], [file |-> f, ok |-> FALSE] }
  BY <1>1 DEF KeepsEnded
<1>2. CASE o \in register_client_public_key(f, id, k)
  BY <1>2, RegisterType
<1>. QED BY <1>1, <1>2, AuthenticateCases

\* and at the start.
LEMMA StartupType ==
    ASSUME NEW f \in File, NEW f2 \in Startup(f)
    PROVE  f2 \in File /\ KeepsEnded(f.lines, f2.lines)
<1>1. PICK g \in initialize_trusted_clients_if_needed(f) : f2 \in auto_register_first_client(g)
  BY DEF Startup
<1>2. g \in File /\ KeepsEnded(f.lines, g.lines)
  BY InitializeLines
<1> DEFINE Good(h) == h \in File /\ KeepsEnded(f.lines, h.lines)
<1>3. ASSUME NEW F, NEW i \in 1..3, \A h \in F : Good(h), NEW h2 \in RegisterDefault(F, i)
      PROVE  Good(h2)
  <2>1. PICK h \in F : \E o \in register_client_public_key(h, DefaultIds[i], DefaultKeys[i]) :
                h2 = o.file
    BY <1>3 DEF RegisterDefault
  <2>2. Good(h) /\ h2 \in File /\ KeepsEnded(h.lines, h2.lines)
    BY <1>3, <2>1, RegisterType
  <2>. QED BY <2>2 DEF KeepsEnded
<1>4. CASE f2 = g
  BY <1>2, <1>4
<1>5. CASE f2 \in RegisterDefault(RegisterDefault(RegisterDefault({g}, 1), 2), 3)
  <2>1. \A h \in RegisterDefault({g}, 1) : Good(h)
    <3>1. \A h \in {g} : Good(h)
      BY <1>2
    <3>. QED BY <1>3, <3>1
  <2>2. \A h \in RegisterDefault(RegisterDefault({g}, 1), 2) : Good(h)
    BY <1>3, <2>1
  <2>3. \A h \in RegisterDefault(RegisterDefault(RegisterDefault({g}, 1), 2), 3) : Good(h)
    BY <1>3, <2>2
  <2>. QED BY <1>5, <2>3
<1>. QED BY <1>1, <1>4, <1>5 DEF auto_register_first_client

-----------------------------------------------------------------------------
\* Texts of one line, in a list that can be read.

Restricted == OneLineTexts /\ JoinedIds = {} /\ "read" \notin Faults

\* The lines as every operation finds and leaves them.
Sound(ls) == ls \in Seq(Line) /\ OneOwner(ls) /\ ListedOnce(ls)

\* id's only bound line, if any, carries k (the check made before registering).
FreeFor(ls, id, k) ==
    \A i \in DOMAIN ls : Bound(ls[i]) /\ ls[i].id = id => ls[i].keys = k

\* The line carries no keys but k, and binds them to no device but id.
OneLineOf(l, id, k) ==
    /\ l.keys \in {k, NoKeys}
    /\ Bound(l) => l.id = id \/ l.id \notin DeviceIds

\* Every line bound in ls2 was bound in ls, but the last, which binds k to id or
\* to a text that is no device's id.
Adds(ls, ls2, id, k) ==
    \A i \in DOMAIN ls2 :
        Bound(ls2[i]) =>
            \/ i \in DOMAIN ls /\ ls2[i] = ls[i]
            \/ /\ i = Len(ls2)
               /\ ls2[i].keys = k
               /\ ls2[i].id = id \/ ls2[i].id \notin DeviceIds

LEMMA PlainIsOneLine == PlainTexts => OneLineTexts
<1> SUFFICES ASSUME PlainTexts, NEW id \in DeviceIds, NEW k \in Keys
             PROVE  \E l \in Line : /\ Written(id, k) = <<l>>
                                    /\ l.keys \in {k, NoKeys}
                                    /\ l.pipes = 2 /\ l.keys = k => l.id \in {id, CommentId}
  BY DEF OneLineTexts
<1>1. PlainLine(id, k) \in Line /\ PlainLine(id, k).keys = k /\ PlainLine(id, k).id = id
  BY DEF PlainLine, Line
<1>2. Written(id, k) = <<PlainLine(id, k)>>
  BY DEF PlainTexts
<1>. QED BY <1>1, <1>2, Zenon

LEMMA WrittenCarries ==
    ASSUME OneLineTexts, NEW id \in DeviceIds, NEW k \in Keys
    PROVE  \E l \in Line : /\ Written(id, k) = <<l>> /\ OneLineOf(l, id, k)
                           /\ Bound(l) => l.id = id
<1>1. PICK l \in Line : /\ Written(id, k) = <<l>>
                        /\ l.keys \in {k, NoKeys}
                        /\ l.pipes = 2 /\ l.keys = k => l.id \in {id, CommentId}
  BY DEF OneLineTexts
<1>2. OneLineOf(l, id, k) /\ (Bound(l) => l.id = id)
  BY <1>1 DEF OneLineOf, Bound, Readable
<1>. QED BY <1>1, <1>2, Zenon

\* What a cut leaves of such a line carries no more.
LEMMA CutCarries ==
    ASSUME NEW l \in Line, NEW id \in DeviceIds, NEW k \in Keys, OneLineOf(l, id, k),
           NEW s \in Cut(<<l>>)
    PROVE  \E c \in Line : s = <<c>> /\ OneLineOf(c, id, k)
<1>1. Len(<<l>>) = 1 /\ <<l>>[1] = l
  OBVIOUS
<1>2. PICK n \in 1..1 : \E c \in CutLine(<<l>>[n]) : s = Append(SubSeq(<<l>>, 1, n - 1), c)
  BY <1>1 DEF Cut
<1>3. PICK c \in CutLine(l) : s = Append(SubSeq(<<l>>, 1, 0), c)
  BY <1>1, <1>2
<1>4. c \in Line
  BY <1>3, CutLineType
<1>5. s = <<c>>
  <2>2. SubSeq(<<l>>, 1, 0) = <<>>
    BY SubSeqEmpty
  <2>3. Append(<<>>, c) = <<c>>
    OBVIOUS
  <2>. QED BY ONLY <1>3, <2>2, <2>3
<1>6. c.keys \in {l.keys, NoKeys} /\ (c.keys = l.keys /\ c.keys # NoKeys /\ c.pipes = 2 => c.id = l.id)
  <2>1. l = [id |-> l.id, keys |-> l.keys, pipes |-> l.pipes, ended |-> l.ended]
    BY DEF Line
  <2>2. CASE c = [l EXCEPT !.ended = FALSE]
    BY <2>1, <2>2
  <2>3. CASE \E p \in 1..l.pipes : c = [l EXCEPT !.keys = NoKeys, !.pipes = p, !.ended = FALSE]
    BY <2>1, <2>3
  <2>4. CASE c = [l EXCEPT !.id = IF @ = CommentId THEN CommentId ELSE NoId,
                           !.keys = NoKeys, !.pipes = 0, !.ended = FALSE]
    BY <2>1, <2>4
  <2>. QED BY <1>3, <2>2, <2>3, <2>4 DEF CutLine
<1>7. Bound(c) => Bound(l) /\ c.id = l.id
  <2>1. SUFFICES ASSUME Bound(c) PROVE Bound(l) /\ c.id = l.id
    OBVIOUS
  <2>2. c.keys \in Keys /\ c.pipes = 2 /\ c.id # CommentId
    BY <2>1 DEF Bound, Readable
  <2>3. c.id = l.id /\ c.keys = l.keys
    BY <1>6, <2>2
  <2>4. l.pipes = 2
    <3>1. l = [id |-> l.id, keys |-> l.keys, pipes |-> l.pipes, ended |-> l.ended] /\ l.pipes \in 0..2
      BY DEF Line
    <3>2. CASE c = [l EXCEPT !.ended = FALSE]
      BY <2>2, <3>1, <3>2
    <3>3. CASE \E p \in 1..l.pipes : c = [l EXCEPT !.keys = NoKeys, !.pipes = p, !.ended = FALSE]
      BY <2>2, <3>1, <3>3
    <3>4. CASE c = [l EXCEPT !.id = IF @ = CommentId THEN CommentId ELSE NoId,
                             !.keys = NoKeys, !.pipes = 0, !.ended = FALSE]
      BY <2>2, <3>1, <3>4
    <3>. QED BY <1>3, <3>2, <3>3, <3>4 DEF CutLine
  <2>. QED BY <2>2, <2>3, <2>4 DEF Bound, Readable
<1>. QED BY <1>4, <1>5, <1>6, <1>7 DEF OneLineOf

\* Gluing such a text behind an unfinished line binds k to no device, or nothing.
LEMMA GlueCarries ==
    ASSUME NEW f \in Line, NEW l \in Line, NEW k \in Keys, l.keys \in {k, NoKeys},
           JoinedIds = {}, NEW g \in Glue(f, l)
    PROVE  Bound(g) => g.keys = k /\ g.id \notin DeviceIds
<1>1. g = [id |-> f.id, keys |-> IF f.pipes = 0 THEN l.keys ELSE NoKeys,
           pipes |-> IF f.pipes + l.pipes > 2 THEN 2 ELSE f.pipes + l.pipes,
           ended |-> l.ended]
  BY DEF Glue
<1>. QED BY <1>1 DEF Line, Bound, Readable

\* Appending such a text adds at most its own binding.
LEMMA AppendTextAdds ==
    ASSUME NEW ls \in Seq(Line), NEW l \in Line, NEW id \in DeviceIds, NEW k \in Keys,
           JoinedIds = {}, OneLineOf(l, id, k), NEW ls2 \in AppendText(ls, <<l>>)
    PROVE  Adds(ls, ls2, id, k)
<1>1. CASE ls # <<>> /\ ~ls[Len(ls)].ended
  <2>1. Len(ls) \in 1..Len(ls) /\ ls[Len(ls)] \in Line
    BY <1>1, EmptySeq, LenProperties, ElementOfSeq
  <2>2. PICK g \in Glue(ls[Len(ls)], l) : ls2 = [ls EXCEPT ![Len(ls)] = g] \o <<>>
    BY <1>1 DEF AppendText
  <2>3. g \in Line /\ (Bound(g) => g.keys = k /\ g.id \notin DeviceIds)
    BY <2>1, GlueType, GlueCarries DEF OneLineOf
  <2>4. /\ [ls EXCEPT ![Len(ls)] = g] \in Seq(Line)
        /\ Len([ls EXCEPT ![Len(ls)] = g]) = Len(ls)
        /\ \A j \in 1..Len(ls) : [ls EXCEPT ![Len(ls)] = g][j] = IF j = Len(ls) THEN g ELSE ls[j]
    BY <2>1, <2>3, ExceptSeq
  <2>5. ls2 = [ls EXCEPT ![Len(ls)] = g]
    BY <2>2, <2>4, ConcatEmptySeq
  <2>. QED BY <2>3, <2>4, <2>5, LenProperties DEF Adds
<1>2. CASE ~(ls # <<>> /\ ~ls[Len(ls)].ended)
  <2>1. ls2 = ls \o <<l>>
    BY <1>2 DEF AppendText
  <2>2. ls \o <<l>> = Append(ls, l)
    BY AppendIsConcat
  <2>3. /\ Append(ls, l) \in Seq(Line)
        /\ Len(Append(ls, l)) = Len(ls) + 1
        /\ \A i \in 1..Len(ls) : Append(ls, l)[i] = ls[i]
        /\ Append(ls, l)[Len(ls) + 1] = l
    BY AppendProperties
  <2>4. Bound(l) => l.keys = k /\ (l.id = id \/ l.id \notin DeviceIds)
    BY DEF Bound, OneLineOf
  <2>. QED BY <2>1, <2>2, <2>3, <2>4, LenProperties DEF Adds
<1>. QED BY <1>1, <1>2

\* Whatever becomes of the write, at most the binding of k to id is added.
LEMMA AppendedAdds ==
    ASSUME Restricted, NEW ls \in Seq(Line), NEW id \in DeviceIds, NEW k \in Keys,
           NEW ls2 \in Appended(ls, Written(id, k))
    PROVE  ls2 \in Seq(Line) /\ Adds(ls, ls2, id, k)
<1>1. PICK l \in Line : /\ Written(id, k) = <<l>> /\ OneLineOf(l, id, k)
                        /\ Bound(l) => l.id = id
  <2>1. OneLineTexts
    BY DEF Restricted
  <2>. QED BY <2>1, WrittenCarries, Zenon
<1>2. ls2 \in Seq(Line)
  BY WrittenType, AppendedType
<1>3. CASE ls2 = ls
  BY <1>2, <1>3 DEF Adds
<1>4. CASE ls2 \in AppendText(ls, <<l>>)
  BY <1>1, <1>2, <1>4, AppendTextAdds DEF Restricted
<1>5. ASSUME NEW s \in Cut(<<l>>), ls2 \in AppendText(ls, s)
      PROVE  Adds(ls, ls2, id, k)
  <2>1. PICK c \in Line : s = <<c>> /\ OneLineOf(c, id, k)
    BY <1>1, CutCarries
  <2>. QED BY <1>5, <2>1, AppendTextAdds DEF Restricted
<1>. QED BY <1>1, <1>2, <1>3, <1>4, <1>5 DEF Appended

\* Adding the binding of an unlisted key pair to an id that is free for it
\* keeps the list sound.
LEMMA AddsKeepsSound ==
    ASSUME NEW ls, NEW ls2 \in Seq(Line), NEW id \in DeviceIds, NEW k \in Keys,
           Sound(ls), Adds(ls, ls2, id, k), FreeFor(ls, id, k),
           \A i \in DOMAIN ls : Readable(ls[i]) => ls[i].keys # k
    PROVE  Sound(ls2)
<1>1. ASSUME NEW i \in DOMAIN ls2, NEW j \in DOMAIN ls2, Bound(ls2[i]), Bound(ls2[j]),
             ls2[i].id = ls2[j].id, ls2[i].id \in DeviceIds
      PROVE  ls2[i].keys = ls2[j].keys
  <2>1. /\ ((i \in DOMAIN ls /\ ls2[i] = ls[i]) \/ (ls2[i].keys = k /\ ls2[i].id = id))
        /\ ((j \in DOMAIN ls /\ ls2[j] = ls[j]) \/ (ls2[j].keys = k /\ ls2[j].id = id))
    BY <1>1 DEF Adds
  <2>. QED BY <1>1, <2>1 DEF Sound, OneOwner, FreeFor
<1>2. ListedOnce(ls2)
  BY DEF ListedOnce, Adds, Sound, Bound
<1>. QED BY <1>1, <1>2 DEF Sound, OneOwner

LEMMA InitializeSound ==
    ASSUME NEW f \in File, Sound(f.lines), NEW g \in initialize_trusted_clients_if_needed(f)
    PROVE  g \in File /\ Sound(g.lines)
<1>1. /\ g \in File /\ g.lines \in Seq(Line)
      /\ \A i \in DOMAIN g.lines : Bound(g.lines[i]) => i \in DOMAIN f.lines /\ g.lines[i] = f.lines[i]
  BY InitializeLines
<1>2. OneOwner(g.lines)
  BY <1>1 DEF Sound, OneOwner
<1>3. ListedOnce(g.lines)
  BY <1>1 DEF Sound, ListedOnce
<1>. QED BY <1>1, <1>2, <1>3 DEF Sound

\* Registering adds at most the binding it is asked for,
LEMMA RegisterAdds ==
    ASSUME Restricted, NEW f \in File, NEW id \in DeviceIds, NEW k \in Keys,
           NEW o \in register_client_public_key(f, id, k)
    PROVE  o.file \in File /\ Adds(f.lines, o.file.lines, id, k)
<1>1. PICK g \in initialize_trusted_clients_if_needed(f) : RegisterOutcome(g, id, k, o)
  BY RegisterCases, Zenon
<1>2. CASE o.file = g
  BY <1>2, InitializeLines DEF Adds
<1>3. ASSUME NEW ls \in Appended(g.lines, Written(id, k)),
             o = [file |-> [exists |-> TRUE, lines |-> ls], ok |-> TRUE]
      PROVE  o.file \in File /\ Adds(f.lines, o.file.lines, id, k)
  <2>1. ls \in Seq(Line) /\ Adds(g.lines, ls, id, k)
    BY InitializeLines, AppendedAdds
  <2>2. o.file = [exists |-> TRUE, lines |-> ls]
    BY <1>3
  <2>3. Adds(f.lines, ls, id, k)
    BY <2>1, InitializeLines DEF Adds
  <2>. QED BY <2>1, <2>2, <2>3 DEF File
<1>4. \/ o.file = g
      \/ \E ls \in Appended(g.lines, Written(id, k)) :
              o = [file |-> [exists |-> TRUE, lines |-> ls], ok |-> TRUE]
  <2>1. o = [file |-> g, ok |-> TRUE] \/ o = [file |-> g, ok |-> FALSE] => o.file = g
    OBVIOUS
  <2>. QED BY <1>1, <2>1, Zenon DEF RegisterOutcome
<1>. QED BY <1>2, <1>3, <1>4

\* with a token or without,
LEMMA AuthenticateAdds ==
    ASSUME Restricted, NEW f \in File, NEW id \in DeviceIds, NEW k \in Keys, NEW token,
           NEW o \in authenticate_and_register_device(f, id, k, token)
    PROVE  o.file \in File /\ Adds(f.lines, o.file.lines, id, k)
<1>1. CASE o \in { [file |-> f, ok |-> TRUE], [file |-> f, ok |-> FALSE] }
  BY <1>1 DEF Adds
<1>2. CASE o \in register_client_public_key(f, id, k)
  BY <1>2, RegisterAdds
<1>. QED BY <1>1, <1>2, AuthenticateCases

\* so that a new list binds the keys of the default clients alone.
LEMMA StartupLines ==
    ASSUME Restricted, NEW f2 \in Startup(NoFile)
    PROVE  /\ f2 \in File
           /\ \A i \in DOMAIN f2.lines : Bound(f2.lines[i]) =>
                 \E j \in 1..3 : f2.lines[i].keys = DefaultKeys[j]
<1> DEFINE Good(f) == /\ f \in File
                      /\ \A i \in DOMAIN f.lines : Bound(f.lines[i]) =>
                            \E j \in 1..3 : f.lines[i].keys = DefaultKeys[j]
<1>1. NoFile \in File /\ NoFile.lines = <<>>
  BY DEF NoFile, File
<1>2. PICK g \in initialize_trusted_clients_if_needed(NoFile) : f2 \in auto_register_first_client(g)
  BY DEF Startup
<1>3. Good(g)
  BY <1>1, InitializeLines
<1>4. ASSUME NEW F, NEW j \in 1..3, \A f \in F : Good(f), NEW h \in RegisterDefault(F, j)
      PROVE  Good(h)
  <2>1. PICK f \in F : \E o \in register_client_public_key(f, DefaultIds[j], DefaultKeys[j]) :
                h = o.file
    BY <1>4 DEF RegisterDefault
  <2>2. Good(f) /\ h \in File /\ Adds(f.lines, h.lines, DefaultIds[j], DefaultKeys[j])
    BY <1>4, <2>1, RegisterAdds
  <2>. QED BY <2>2 DEF Adds
<1>5. CASE f2 = g
  BY <1>3, <1>5
<1>6. CASE f2 \in RegisterDefault(RegisterDefault(RegisterDefault({g}, 1), 2), 3)
  <2>1. \A h \in RegisterDefault({g}, 1) : Good(h)
    <3>1. \A h \in {g} : Good(h)
      BY <1>3
    <3>. QED BY <1>4, <3>1
  <2>2. \A h \in RegisterDefault(RegisterDefault({g}, 1), 2) : Good(h)
    BY <1>4, <2>1
  <2>3. \A h \in RegisterDefault(RegisterDefault(RegisterDefault({g}, 1), 2), 3) : Good(h)
    BY <1>4, <2>2
  <2>. QED BY <1>6, <2>3
<1>. QED BY <1>2, <1>5, <1>6 DEF auto_register_first_client

\* Registering keeps the list sound when the id is free for the key pair, and
\* leaves every other id as free as it was.
LEMMA RegisterSound ==
    ASSUME Restricted, NEW f \in File, NEW id \in DeviceIds, NEW k \in Keys,
           Sound(f.lines), FreeFor(f.lines, id, k),
           NEW o \in register_client_public_key(f, id, k)
    PROVE  /\ o.file \in File /\ Sound(o.file.lines)
           /\ \A d \in DeviceIds \ {id}, k2 \in Keys :
                    FreeFor(f.lines, d, k2) => FreeFor(o.file.lines, d, k2)
<1>0. PICK g \in initialize_trusted_clients_if_needed(f) : RegisterOutcome(g, id, k, o)
  BY RegisterCases, Zenon
<1>1. \/ o.file = g
      \/ /\ ~is_client_registered(g, k)
         /\ \E ls \in Appended(g.lines, Written(id, k)) : o.file = [exists |-> TRUE, lines |-> ls]
  <2>1. CASE o = [file |-> g, ok |-> TRUE] \/ o = [file |-> g, ok |-> FALSE]
    BY <2>1
  <2>2. ASSUME ~is_client_registered(g, k), NEW ls \in Appended(g.lines, Written(id, k)),
               o = [file |-> [exists |-> TRUE, lines |-> ls], ok |-> TRUE]
        PROVE  /\ ~is_client_registered(g, k)
               /\ \E s \in Appended(g.lines, Written(id, k)) : o.file = [exists |-> TRUE, lines |-> s]
    <3>1. o.file = [exists |-> TRUE, lines |-> ls]
      BY <2>2
    <3>. QED BY <2>2, <3>1, Zenon
  <2>. QED BY <1>0, <2>1, <2>2, Zenon DEF RegisterOutcome, Restricted
<1>2. /\ g \in File /\ Sound(g.lines) /\ g.lines \in Seq(Line)
      /\ \A d \in DeviceIds, k2 \in Keys : FreeFor(f.lines, d, k2) => FreeFor(g.lines, d, k2)
  BY InitializeSound, InitializeLines DEF FreeFor, Sound
<1>3. CASE o.file = g
  BY <1>2, <1>3
<1>4. ASSUME ~is_client_registered(g, k), NEW ls \in Appended(g.lines, Written(id, k)),
             o.file = [exists |-> TRUE, lines |-> ls]
      PROVE  /\ o.file \in File /\ Sound(o.file.lines)
             /\ \A d \in DeviceIds \ {id}, k2 \in Keys :
                    FreeFor(f.lines, d, k2) => FreeFor(o.file.lines, d, k2)
  <2>1. ls \in Seq(Line) /\ Adds(g.lines, ls, id, k)
    BY <1>2, AppendedAdds
  <2>2. Sound(ls)
    BY <1>2, <1>4, <2>1, AddsKeepsSound DEF is_client_registered
  <2>3. \A d \in DeviceIds \ {id}, k2 \in Keys : FreeFor(g.lines, d, k2) => FreeFor(ls, d, k2)
    BY <2>1 DEF Adds, FreeFor
  <2>. QED BY <1>2, <1>4, <2>1, <2>2, <2>3 DEF File
<1>. QED BY <1>1, <1>3, <1>4

\* So does asking for it with a token: the id is looked up first.
LEMMA AuthenticateSound ==
    ASSUME Restricted, NEW f \in File, NEW id \in DeviceIds, NEW k \in Keys, NEW token, Sound(f.lines),
           NEW o \in authenticate_and_register_device(f, id, k, token)
    PROVE  o.file \in File /\ Sound(o.file.lines)
<1>1. CASE o.file = f
  BY <1>1
<1>2. CASE /\ ~is_device_id_registered_with_different_keys(f, id, k)
           /\ o \in register_client_public_key(f, id, k)
  <2>1. FreeFor(f.lines, id, k)
    BY <1>2 DEF is_device_id_registered_with_different_keys, FreeFor, Bound
  <2>. QED BY <1>2, <2>1, RegisterSound
<1>3. \/ o \in { [file |-> f, ok |-> TRUE], [file |-> f, ok |-> FALSE] }
      \/ /\ ~is_device_id_registered_with_different_keys(f, id, k)
         /\ o \in register_client_public_key(f, id, k)
  BY AuthenticateCases, Zenon DEF Restricted
<1>4. o \in { [file |-> f, ok |-> TRUE], [file |-> f, ok |-> FALSE] } => o.file = f
  OBVIOUS
<1>. QED BY <1>1, <1>2, <1>3, <1>4, Zenon

\* The constructor's registrations keep the list sound, though they skip that
\* lookup: the default ids differ and the list starts empty.
LEMMA StartupSound ==
    ASSUME Restricted, NEW f \in File, Sound(f.lines), NEW f2 \in Startup(f)
    PROVE  f2 \in File /\ Sound(f2.lines)
<1>1. PICK g \in initialize_trusted_clients_if_needed(f) : f2 \in auto_register_first_client(g)
  BY DEF Startup
<1>2. g \in File /\ Sound(g.lines)
  BY <1>1, InitializeSound
<1>3. CASE g.exists
  BY <1>1, <1>2, <1>3 DEF auto_register_first_client
<1>4. CASE ~g.exists
  <2>1. g.lines = <<>>
    BY <1>2, <1>4 DEF File
  <2>2. f2 \in RegisterDefault(RegisterDefault(RegisterDefault({g}, 1), 2), 3)
    BY <1>1, <1>4 DEF auto_register_first_client
  <2>3. PICK h2 \in RegisterDefault(RegisterDefault({g}, 1), 2) :
          \E o \in register_client_public_key(h2, DefaultIds[3], DefaultKeys[3]) : f2 = o.file
    BY <2>2 DEF RegisterDefault
  <2>4. PICK h1 \in RegisterDefault({g}, 1) :
          \E o \in register_client_public_key(h1, DefaultIds[2], DefaultKeys[2]) : h2 = o.file
    BY <2>3 DEF RegisterDefault
  <2>5. \E o \in register_client_public_key(g, DefaultIds[1], DefaultKeys[1]) : h1 = o.file
    BY <2>4 DEF RegisterDefault
  <2>6. \A i \in 1..3 : FreeFor(g.lines, DefaultIds[i], DefaultKeys[i])
    BY <2>1 DEF FreeFor
  <2>7. /\ h1 \in File /\ Sound(h1.lines)
        /\ FreeFor(h1.lines, DefaultIds[2], DefaultKeys[2])
        /\ FreeFor(h1.lines, DefaultIds[3], DefaultKeys[3])
    BY <1>2, <2>5, <2>6, RegisterSound
  <2>8. /\ h2 \in File /\ Sound(h2.lines)
        /\ FreeFor(h2.lines, DefaultIds[3], DefaultKeys[3])
    BY <2>4, <2>7, RegisterSound
  <2>. QED BY <2>3, <2>8, RegisterSound
<1>. QED BY <1>3, <1>4

-----------------------------------------------------------------------------
\* While no write is cut short, every line is finished and the list only grows.
Clean(ls) == \A i \in DOMAIN ls : ls[i].ended

Grows(ls, ls2) == \A i \in DOMAIN ls : i \in DOMAIN ls2 /\ ls2[i] = ls[i]

\* Every bound line is bound to a device's id.
Named(ls) == \A i \in DOMAIN ls : Bound(ls[i]) => ls[i].id \in DeviceIds

LEMMA ConcatCases ==
    ASSUME NEW ls \in Seq(Line), NEW t \in Seq(Line)
    PROVE  /\ ls \o t \in Seq(Line) /\ Grows(ls, ls \o t)
           /\ \A i \in DOMAIN (ls \o t) : \/ i \in DOMAIN ls /\ (ls \o t)[i] = ls[i]
                                          \/ \E j \in DOMAIN t : (ls \o t)[i] = t[j]
           /\ \A j \in DOMAIN t : \E i \in DOMAIN (ls \o t) : (ls \o t)[i] = t[j]
<1> DEFINE s == ls \o t
<1>1. /\ s \in Seq(Line) /\ Len(s) = Len(ls) + Len(t)
      /\ \A i \in 1..(Len(ls) + Len(t)) : s[i] = IF i <= Len(ls) THEN ls[i] ELSE t[i - Len(ls)]
  BY ConcatProperties
<1>2. /\ DOMAIN ls = 1..Len(ls) /\ DOMAIN t = 1..Len(t) /\ DOMAIN s = 1..(Len(ls) + Len(t))
      /\ Len(ls) \in Nat /\ Len(t) \in Nat
  BY <1>1, LenProperties
<1> HIDE DEF s
<1>3. Grows(ls, s)
  BY <1>1, <1>2 DEF Grows
<1>4. ASSUME NEW i \in DOMAIN s
      PROVE  (i \in DOMAIN ls /\ s[i] = ls[i]) \/ \E j \in DOMAIN t : s[i] = t[j]
  <2>1. CASE i <= Len(ls)
    BY <1>1, <1>2, <1>4, <2>1
  <2>2. CASE ~(i <= Len(ls))
    <3>1. i - Len(ls) \in DOMAIN t /\ s[i] = t[i - Len(ls)]
      BY <1>1, <1>2, <1>4, <2>2
    <3>. QED BY <3>1
  <2>. QED BY <2>1, <2>2
<1>5. ASSUME NEW j \in DOMAIN t PROVE \E i \in DOMAIN s : s[i] = t[j]
  <2> DEFINE m == Len(ls)
             n == Len(t)
  <2>0. m \in Nat /\ n \in Nat /\ j \in 1..n
    BY <1>2, <1>5
  <2> HIDE DEF m, n
  <2>9. m + j \in 1..(m + n) /\ ~(m + j <= m) /\ (m + j) - m = j
    BY ONLY <2>0
  <2>1. /\ Len(ls) + j \in DOMAIN s /\ ~(Len(ls) + j <= Len(ls)) /\ (Len(ls) + j) - Len(ls) = j
        /\ Len(ls) + j \in 1..(Len(ls) + Len(t))
    BY <1>2, <2>9 DEF m, n
  <2>2. s[Len(ls) + j] = t[j]
    BY <1>1, <2>1
  <2>. QED BY <2>1, <2>2
<1>. QED BY <1>1, <1>3, <1>4, <1>5 DEF s

\* A text is then added whole or not at all.
LEMMA AppendedClean ==
    ASSUME "short" \notin Faults,
           NEW ls \in Seq(Line), Clean(ls), NEW id \in DeviceIds, NEW k \in Keys,
           NEW ls2 \in Appended(ls, Written(id, k))
    PROVE  /\ ls2 \in Seq(Line) /\ Clean(ls2) /\ Grows(ls, ls2)
           /\ OneLineTexts /\ Named(ls) => Named(ls2)
           /\ "lost" \notin Faults /\ Written(id, k) = <<PlainLine(id, k)>> =>
                  \E i \in DOMAIN ls2 : ls2[i] = PlainLine(id, k)
<1> DEFINE t == Written(id, k)
<1>1. t \in Seq(Line) /\ (\A j \in DOMAIN t : t[j].ended)
  BY WrittenType
<1>2. AppendText(ls, t) = {ls \o t}
  <2>1. ls # <<>> => Len(ls) \in DOMAIN ls
    BY EmptySeq, LenProperties
  <2>. QED BY <2>1 DEF AppendText, Clean
<1>3. ls2 \in {ls, ls \o t} /\ ("lost" \notin Faults => ls2 = ls \o t)
  BY <1>2 DEF Appended
<1>4. OneLineTexts => \A j \in DOMAIN t : Bound(t[j]) => t[j].id \in DeviceIds
  <2>1. SUFFICES ASSUME OneLineTexts PROVE \A j \in DOMAIN t : Bound(t[j]) => t[j].id \in DeviceIds
    OBVIOUS
  <2>2. PICK l \in Line : /\ Written(id, k) = <<l>> /\ OneLineOf(l, id, k)
                          /\ Bound(l) => l.id = id
    BY <2>1, WrittenCarries, Zenon
  <2>3. DOMAIN <<l>> = {1} /\ <<l>>[1] = l
    OBVIOUS
  <2>. QED BY <2>2, <2>3
<1>5. t = <<PlainLine(id, k)>> => \E j \in DOMAIN t : t[j] = PlainLine(id, k)
  <2> DEFINE p == PlainLine(id, k)
  <2> HIDE DEF p
  <2>1. 1 \in DOMAIN <<p>> /\ <<p>>[1] = p
    OBVIOUS
  <2>2. ASSUME t = <<p>> PROVE \E j \in DOMAIN t : t[j] = p
    <3>1. 1 \in DOMAIN t /\ t[1] = p
      BY ONLY <2>1, <2>2
    <3>. QED BY <3>1, Zenon
  <2>. QED BY <2>2, Zenon DEF p
<1> HIDE DEF t
<1>8. t = <<PlainLine(id, k)>> => \E i \in DOMAIN (ls \o t) : (ls \o t)[i] = PlainLine(id, k)
  <2> DEFINE p == PlainLine(id, k)
             s == ls \o t
  <2>1. \A j \in DOMAIN t : \E i \in DOMAIN s : s[i] = t[j]
    BY <1>1, ConcatCases
  <2>2. t = <<p>> => \E j \in DOMAIN t : t[j] = p
    BY <1>5
  <2> HIDE DEF p, s
  <2>3. ASSUME t = <<p>> PROVE \E i \in DOMAIN s : s[i] = p
    <3>1. PICK j \in DOMAIN t : t[j] = p
      BY ONLY <2>2, <2>3
    <3>. QED BY <2>1, <3>1
  <2>. QED BY <2>3, Zenon DEF p, s
<1>6. CASE ls2 = ls
  <2>1. Grows(ls, ls)
    BY DEF Grows
  <2>2. "lost" \notin Faults => ls2 = ls \o t
    BY <1>3
  <2>3. t = <<PlainLine(id, k)>> => \E i \in DOMAIN (ls \o t) : (ls \o t)[i] = PlainLine(id, k)
    BY <1>8
  <2>4. ("lost" \notin Faults /\ t = <<PlainLine(id, k)>>) =>
              \E i \in DOMAIN ls2 : ls2[i] = PlainLine(id, k)
    BY <2>2, <2>3, Zenon
  <2>. QED BY <1>6, <2>1, <2>4, Zenon DEF t
<1>7. CASE ls2 = ls \o t
  <2>1. ls \o t \in Seq(Line) /\ Grows(ls, ls \o t)
    BY <1>1, ConcatCases
  <2>2. Clean(ls \o t)
    BY <1>1, ConcatCases DEF Clean
  <2>3. OneLineTexts /\ Named(ls) => Named(ls \o t)
    BY <1>1, <1>4, ConcatCases DEF Named
  <2>4. t = <<PlainLine(id, k)>> => \E i \in DOMAIN (ls \o t) : (ls \o t)[i] = PlainLine(id, k)
    BY <1>8
  <2>. QED BY <1>7, <2>1, <2>2, <2>3, <2>4, Zenon DEF t
<1>. QED BY <1>3, <1>6, <1>7

LEMMA InitializeClean ==
    ASSUME NEW f \in File, "short" \notin Faults,
           NEW g \in initialize_trusted_clients_if_needed(f)
    PROVE  g \in File /\ g.lines = f.lines
<1>1. CASE g = f
  BY <1>1
<1>2. CASE ~f.exists /\ g = [exists |-> TRUE, lines |-> <<>>]
  BY <1>2 DEF File
<1>. QED BY <1>1, <1>2 DEF initialize_trusted_clients_if_needed

\* Registering then appends the device's text or leaves the lines as they are;
\* if no write is lost either, TRUE means the keys are found from now on.
LEMMA RegisterClean ==
    ASSUME NEW f \in File, NEW id \in DeviceIds, NEW k \in Keys,
           Clean(f.lines), "short" \notin Faults,
           NEW o \in register_client_public_key(f, id, k)
    PROVE  /\ o.file \in File /\ Clean(o.file.lines) /\ Grows(f.lines, o.file.lines)
           /\ OneLineTexts /\ Named(f.lines) => Named(o.file.lines)
           /\ ("lost" \notin Faults /\ Written(id, k) = <<PlainLine(id, k)>> /\ o.ok = TRUE)
                    => is_client_registered(o.file, k)
<1>1. PICK g \in initialize_trusted_clients_if_needed(f) : RegisterOutcome(g, id, k, o)
  BY RegisterCases, Zenon
<1>2. g \in File /\ g.lines = f.lines /\ g.lines \in Seq(Line)
  <2>1. g \in File /\ g.lines = f.lines
    BY InitializeClean
  <2>. QED BY <2>1 DEF File
<1>3. CASE o = [file |-> g, ok |-> FALSE]
  BY <1>2, <1>3 DEF Grows
<1>4. CASE is_client_registered(g, k) /\ o = [file |-> g, ok |-> TRUE]
  <2>1. o.file = g
    BY <1>4
  <2>2. Grows(f.lines, g.lines) /\ Clean(g.lines)
    BY <1>2 DEF Grows
  <2>. QED BY <1>2, <1>4, <2>1, <2>2, Zenon
<1>5. ASSUME NEW ls \in Appended(g.lines, Written(id, k)),
             o = [file |-> [exists |-> TRUE, lines |-> ls], ok |-> TRUE]
      PROVE  /\ o.file \in File /\ Clean(o.file.lines) /\ Grows(f.lines, o.file.lines)
             /\ OneLineTexts /\ Named(f.lines) => Named(o.file.lines)
             /\ ("lost" \notin Faults /\ Written(id, k) = <<PlainLine(id, k)>>)
                    => is_client_registered(o.file, k)
  <2>1. /\ ls \in Seq(Line) /\ Clean(ls) /\ Grows(g.lines, ls)
        /\ OneLineTexts /\ Named(g.lines) => Named(ls)
        /\ "lost" \notin Faults /\ Written(id, k) = <<PlainLine(id, k)>> =>
              \E i \in DOMAIN ls : ls[i] = PlainLine(id, k)
    <3>1. Clean(g.lines)
      BY <1>2
    <3>. QED BY <1>2, <3>1, AppendedClean
  <2>2. o.file = [exists |-> TRUE, lines |-> ls] /\ o.file.lines = ls
    BY <1>5
  <2>3. o.file \in File
    BY <2>1, <2>2 DEF File
  <2>4. ASSUME NEW i \in DOMAIN ls, ls[i] = PlainLine(id, k)
        PROVE  is_client_registered(o.file, k)
    <3>1. Readable(PlainLine(id, k)) /\ PlainLine(id, k).keys = k
      BY DEF PlainLine, Readable
    <3>. QED BY <2>2, <2>4, <3>1 DEF is_client_registered
  <2>. QED BY <1>2, <2>1, <2>2, <2>3, <2>4, Zenon
<1>. QED BY <1>1, <1>3, <1>4, <1>5, Zenon DEF RegisterOutcome

LEMMA GrowsTransitive ==
    ASSUME NEW a, NEW b, NEW c, Grows(a, b), Grows(b, c)
    PROVE  Grows(a, c)
BY DEF Grows

LEMMA AuthenticateClean ==
    ASSUME NEW f \in File, NEW id \in DeviceIds, NEW k \in Keys, NEW token,
           Clean(f.lines), "short" \notin Faults,
           NEW o \in authenticate_and_register_device(f, id, k, token)
    PROVE  /\ o.file \in File /\ Clean(o.file.lines) /\ Grows(f.lines, o.file.lines)
           /\ OneLineTexts /\ Named(f.lines) => Named(o.file.lines)
           /\ ("lost" \notin Faults /\ Written(id, k) = <<PlainLine(id, k)>> /\ o.ok = TRUE)
                    => is_client_registered(o.file, k)
<1>1. CASE is_client_registered(f, k) /\ o = [file |-> f, ok |-> TRUE]
  <2>1. o.file = f
    BY <1>1
  <2>2. Grows(f.lines, f.lines)
    BY DEF Grows
  <2>. QED BY <1>1, <2>1, <2>2, Zenon
<1>2. CASE o = [file |-> f, ok |-> FALSE]
  BY <1>2 DEF Grows
<1>3. CASE o \in register_client_public_key(f, id, k)
  BY <1>3, RegisterClean, Zenon
<1>. QED BY <1>1, <1>2, <1>3, AuthenticateCases, Zenon

LEMMA StartupClean ==
    ASSUME NEW f \in File, Clean(f.lines), "short" \notin Faults, NEW f2 \in Startup(f)
    PROVE  /\ f2 \in File /\ Clean(f2.lines) /\ Grows(f.lines, f2.lines)
           /\ OneLineTexts /\ Named(f.lines) => Named(f2.lines)
<1> DEFINE Good(g, h) == /\ h \in File /\ Clean(h.lines) /\ Grows(g.lines, h.lines)
                         /\ OneLineTexts /\ Named(g.lines) => Named(h.lines)
<1>1. ASSUME NEW F, NEW i \in 1..3, NEW h \in RegisterDefault(F, i)
      PROVE  \E g \in F : \E o \in register_client_public_key(g, DefaultIds[i], DefaultKeys[i]) :
                h = o.file
  BY <1>1 DEF RegisterDefault
<1>2. ASSUME NEW F, NEW i \in 1..3, NEW h \in RegisterDefault(F, i), \A g \in F : Good(f, g)
      PROVE  Good(f, h)
  <2>1. PICK g \in F : \E o \in register_client_public_key(g, DefaultIds[i], DefaultKeys[i]) :
                h = o.file
    BY <1>1
  <2>2. PICK o \in register_client_public_key(g, DefaultIds[i], DefaultKeys[i]) : h = o.file
    BY <2>1
  <2>3. DefaultIds[i] \in DeviceIds /\ DefaultKeys[i] \in Keys
    OBVIOUS
  <2>4. Good(g, h)
    BY <1>2, <2>2, <2>3, RegisterClean, Zenon
  <2>. QED BY <1>2, <2>4, GrowsTransitive, Zenon
<1>3. PICK g \in initialize_trusted_clients_if_needed(f) : f2 \in auto_register_first_client(g)
  BY Zenon DEF Startup
<1>4. Good(f, g)
  <2>1. g \in File /\ g.lines = f.lines
    BY InitializeClean
  <2>. QED BY <2>1 DEF Grows
<1>5. CASE f2 = g
  BY <1>4, <1>5
<1>6. CASE f2 \in RegisterDefault(RegisterDefault(RegisterDefault({g}, 1), 2), 3)
  <2>1. \A h \in RegisterDefault({g}, 1) : Good(f, h)
    <3>1. \A h \in {g} : Good(f, h)
      BY <1>4
    <3>. QED BY <1>2, <3>1
  <2>2. \A h \in RegisterDefault(RegisterDefault({g}, 1), 2) : Good(f, h)
    BY <1>2, <2>1
  <2>3. \A h \in RegisterDefault(RegisterDefault(RegisterDefault({g}, 1), 2), 3) : Good(f, h)
    BY <1>2, <2>2
  <2>. QED BY <1>6, <2>3
<1>. QED BY <1>3, <1>5, <1>6 DEF auto_register_first_client

=============================================================================
