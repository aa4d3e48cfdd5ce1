-------------------------- MODULE ConnectionProofs --------------------------
(***************************************************************************)
(* Proof that a connection loses no byte and uses none twice, for every    *)
(* stream of bytes a peer may send, well formed or not, and every way of   *)
(* reading it.                                                             *)
(***************************************************************************)
EXTENDS Connection, SequenceTheorems, TLAPS

Byte == P!Bytes

(* The parser's share: it stays inside its buffer.                         *)
HeadOK ==
  /\ buf \in Seq(Byte)
  /\ cursor \in Nat /\ pos \in Nat /\ count \in Nat /\ num_headers \in Nat
  /\ phase = P!DONE => bytes_consumed \in 0..Len(buf)
  /\ at \notin {"head", "closed"} => phase = P!DONE

(* The share of the semantics layer: a length it announces is a number.    *)
LengthsOK ==
  \A k \in 1..Len(message.headers) :
    LET f == message.headers[k] IN
    f.name = "content-length" /\ Len(f.value) = 1 /\ f.value # <<"bad">> => f.value[1] \in Numerals

LocalsOK ==
  \E s, c, l : /\ loc = [set |-> s, chunked_count |-> c, content_length |-> l]
               /\ "has_cl" \in s => l \in Numerals

FramedOK(o) ==
  \E b, l, a, p, e, t :
    /\ o = [body_mode |-> b, content_length |-> l, keep_alive |-> a, protocol_upgrade |-> p,
              expects_continue |-> e, has_trailer_fields |-> t]
    /\ s_pc = "done" /\ s_status = "IHTP_OK" /\ b = S!IHTP_BODY_FIXED => l \in Numerals

SemanticsOK ==
  /\ s_pc = "fields" => i \in Nat \ {0} /\ LengthsOK /\ LocalsOK
  /\ FramedOK(out)

(* Before a body has begun the decoder is new and nothing else is held.    *)
IdleOK ==
  at \in {"head", "semantics"} =>
    /\ state = D!CHUNK_SIZE /\ bytes_left_in_chunk = 0 /\ d_pc = "ready" /\ consumed = <<>>
    /\ tail = <<>> /\ body = <<>>

(* A call of the chunked decoder: it stays behind itself and inside the    *)
(* slice, and the bytes it has not read are the consumer's.                *)
CallOK ==
  /\ state # D!CHUNK_DONE /\ tail = <<>>
  /\ input \in Seq(Byte) /\ avail = Len(input) /\ avail <= MaxWire
  /\ src \in Nat /\ dst \in Nat /\ dst <= src /\ src <= avail
  /\ d_buf \in [1..avail -> Byte]
  /\ \A k \in src + 1..avail : d_buf[k] = input[k]

ChunkedOK ==
  at = "chunked" =>
    /\ bytes_left_in_chunk \in Nat /\ consumed \in Seq(Byte) /\ tail \in Seq(Byte)
    /\ d_pc \in {"ready", "decoding"}
    /\ d_pc = "decoding" => CallOK
    /\ d_pc = "ready" /\ state = D!CHUNK_DONE => Trailing \in Seq(Byte)

RestOK ==
  /\ at = "trailer" => consumed \in Seq(Byte) /\ tail \in Seq(Byte)
  /\ at = "fixed" => remaining \in Nat /\ body \in Seq(Byte) /\ tail \in Seq(Byte)
  /\ at = "eof" => body \in Seq(Byte) /\ tail = <<>>
  /\ at = "handed" => tail \in Seq(Byte)

CInv ==
  /\ unread \in Seq(Byte) /\ HeadOK /\ SemanticsOK /\ IdleOK /\ ChunkedOK /\ RestOK

-----------------------------------------------------------------------------
(* The parser's steps.                                                     *)

ParserKeeps ==
  /\ buf' = buf
  /\ cursor' \in Nat /\ pos' \in Nat /\ count' \in Nat /\ num_headers' \in Nat
  /\ phase' = P!DONE => bytes_consumed' \in 0..Len(buf)

LEMMA LineFeed ==
  ASSUME HeadOK, NEW p \in Nat, NEW lf \in P!FirstLF(p)
  PROVE  lf \in Nat /\ p <= lf /\ lf + 1 <= Len(buf)
  BY LenProperties DEF HeadOK, P!FirstLF, P!len

LEMMA FailKeeps ==
  ASSUME HeadOK, NEW st, P!Fail(st)
  PROVE  ParserKeeps
  BY DEF HeadOK, ParserKeeps, P!Fail, P!Return, P!caller, P!ERROR, P!DONE

LEMMA StartLineKeeps ==
  ASSUME HeadOK, P!StartLinePartial \/ P!StartLine
  PROVE  ParserKeeps
<1>1. ASSUME NEW st, P!Fail(st) PROVE ParserKeeps
  BY <1>1, FailKeeps
<1>2. CASE P!StartLinePartial
  BY <1>1, <1>2 DEF HeadOK, ParserKeeps, P!StartLinePartial, P!Return, P!caller, P!state
<1>3. ASSUME NEW lf \in P!FirstLF(cursor), NEW q, P!StartLineParsed(q, lf) PROVE ParserKeeps
  <2>1. lf \in Nat BY LineFeed DEF HeadOK
  <2> QED BY <2>1, <1>3 DEF HeadOK, ParserKeeps, P!StartLineParsed, P!caller, P!HEADERS, P!DONE
<1>4. CASE P!StartLine
  BY <1>1, <1>3, <1>4 DEF P!StartLine
<1> QED BY <1>2, <1>4

LEMMA NextLineKeeps ==
  ASSUME HeadOK, NEW lf \in P!FirstLF(P!line_start), P!NextLine(lf), count' \in Nat
  PROVE  ParserKeeps
<1>1. P!line_start \in Nat /\ cursor <= P!line_start /\ cursor \in Nat
  BY DEF HeadOK, P!line_start
<1>2. lf \in Nat /\ P!line_start <= lf
  BY <1>1, LineFeed
<1>3. pos' \in Nat
  BY <1>1, <1>2 DEF P!NextLine
<1> QED BY <1>3 DEF HeadOK, ParserKeeps, P!NextLine, P!caller, P!state, P!result

LEMMA HeaderLineKeeps ==
  ASSUME HeadOK, P!HeaderLine
  PROVE  ParserKeeps
<1>1. PICK lf \in P!FirstLF(P!line_start) :
        LET q == P!line_end(P!line_start, lf) IN
        P!HeadersDone(q, lf) \/ P!Continuation(q, lf) \/ P!HeaderField(q, lf)
  BY Zenon DEF P!HeaderLine
<1> DEFINE q == P!line_end(P!line_start, lf)
<1> HIDE DEF q
<1>0. count \in Nat /\ count + 1 \in Nat BY DEF HeadOK
<1>2. CASE P!HeadersDone(q, lf)
  <2>1. P!line_start \in Nat BY DEF HeadOK, P!line_start
  <2>2. lf \in Nat /\ lf + 1 <= Len(buf) BY <2>1, LineFeed
  <2>3. Len(buf) \in Nat BY LenProperties DEF HeadOK
  <2> QED BY <1>2, <2>2, <2>3 DEF HeadOK, ParserKeeps, P!HeadersDone, P!KeepParsed, P!Return, P!caller
<1>3. CASE P!Continuation(q, lf)
  <2>1. CASE P!Fail(P!IHTP_ERROR) BY <2>1, FailKeeps
  <2>2. CASE P!NextLine(lf) /\ count' = count BY <2>2, <1>0, NextLineKeeps
  <2> QED BY <1>3, <2>1, <2>2 DEF P!Continuation
<1>4. CASE P!HeaderField(q, lf)
  <2>1. ASSUME NEW st, P!Fail(st) PROVE ParserKeeps BY <2>1, FailKeeps
  <2>2. ASSUME P!NextLine(lf), count' = count + 1 PROVE ParserKeeps BY <2>2, <1>0, NextLineKeeps
  <2>3. ASSUME NEW c, NEW v, P!Field(q, lf, c, v) PROVE ParserKeeps
    BY <2>1, <2>2, <2>3, Zenon DEF P!Field
  <2> QED BY <1>4, <2>1, <2>3, Zenon DEF P!HeaderField
<1> QED BY <1>1, <1>2, <1>3, <1>4 DEF q

LEMMA ParserStepKeeps ==
  ASSUME HeadOK, P!Step
  PROVE  ParserKeeps
<1>1. CASE P!HeadersPartial
  BY <1>1 DEF HeadOK, ParserKeeps, P!HeadersPartial, P!KeepParsed, P!Return, P!caller, P!line_start
<1>2. CASE P!LineRefused
  <2>1. \E st : P!Fail(st) BY <1>2, Zenon DEF P!LineRefused
  <2> QED BY <2>1, FailKeeps
<1> QED BY <1>1, <1>2, StartLineKeeps, HeaderLineKeeps DEF P!Step

LEMMA ParseKeeps ==
  ASSUME HeadOK, phase \in {P!START_LINE, P!HEADERS}, NEW m, P!ParseStateful(m)
  PROVE  ParserKeeps
  BY DEF HeadOK, ParserKeeps, P!ParseStateful, P!Return, P!Enter, P!caller, P!state, P!outputs,
         P!START_LINE, P!HEADERS, P!DONE, P!ERROR

-----------------------------------------------------------------------------
(* The steps of the semantics layer.                                       *)

InFields == s_pc = "fields" /\ i \in Nat \ {0} /\ LengthsOK /\ LocalsOK /\ FramedOK(out)

LEMMA RefuseKeeps ==
  ASSUME SemanticsOK, S!Refuse
  PROVE  SemanticsOK'
<1>1. out' = out /\ s_pc' = "done" /\ s_status' = "IHTP_ERROR"
  BY DEF S!Refuse
<1> QED BY <1>1 DEF SemanticsOK, FramedOK

(* The locals a header leaves: the length is still a number.               *)
Plain(locals) ==
  \E s, c, l : /\ locals = [set |-> s, chunked_count |-> c, content_length |-> l]
               /\ "has_cl" \in s => l \in Numerals

LEMMA TakeKeeps ==
  ASSUME InFields, NEW locals, Plain(locals), S!Take(locals)
  PROVE  SemanticsOK'
<1>1. out' = out /\ s_pc' = "fields" /\ i' = i + 1 /\ message' = message /\ loc' = locals
  BY DEF S!Take, InFields
<1>2. LocalsOK'
  BY <1>1, Zenon DEF Plain, LocalsOK
<1>3. LengthsOK'
  BY <1>1, Zenon DEF InFields, LengthsOK
<1>4. i' \in Nat \ {0}
  BY <1>1 DEF InFields
<1>5. FramedOK(out)'
  BY <1>1 DEF InFields, FramedOK
<1> QED BY <1>2, <1>3, <1>4, <1>5 DEF SemanticsOK

LEMMA SetPlain ==
  ASSUME LocalsOK, NEW flags, "has_cl" \notin flags
  PROVE  Plain(S!Set(flags))
<1>1. PICK s, c, l : /\ loc = [set |-> s, chunked_count |-> c, content_length |-> l]
                     /\ "has_cl" \in s => l \in Numerals
  BY DEF LocalsOK
<1>2. S!Set(flags) = [set |-> s \cup flags, chunked_count |-> c, content_length |-> l]
  BY <1>1 DEF S!Set
<1>3. "has_cl" \in s \cup flags => l \in Numerals
  BY <1>1
<1> QED BY <1>2, <1>3 DEF Plain

LEMMA TransferEncodingKeeps ==
  ASSUME InFields, SemanticsOK, S!TransferEncoding
  PROVE  SemanticsOK'
<1>1. PICK s, c, l : /\ loc = [set |-> s, chunked_count |-> c, content_length |-> l]
                     /\ "has_cl" \in s => l \in Numerals
  BY DEF LocalsOK, InFields
<1> DEFINE s2 == (s \ {"chunked"}) \cup {"has_te"}
                   \cup (IF S!ends_with_chunked(S!field.value) THEN {"chunked"} ELSE {})
           c2 == c + S!chunked_count(S!field.value)
<1>2. S!TransferEncodingLocals = [set |-> s2, chunked_count |-> c2, content_length |-> l]
  BY <1>1 DEF S!TransferEncodingLocals
<1>3. "has_cl" \in s2 => l \in Numerals
  BY <1>1
<1> HIDE DEF s2, c2
<1>4. Plain(S!TransferEncodingLocals)
  BY <1>2, <1>3 DEF Plain
<1> QED BY <1>4, RefuseKeeps, TakeKeeps DEF S!TransferEncoding

LEMMA ContentLengthKeeps ==
  ASSUME InFields, SemanticsOK, S!ContentLength
  PROVE  SemanticsOK'
<1>1. PICK s, c, l : loc = [set |-> s, chunked_count |-> c, content_length |-> l]
  BY DEF LocalsOK, InFields
<1> DEFINE n == S!field.value[1]
           taken2 == [S!Set({"has_cl"}) EXCEPT !.content_length = n]
<1>2. taken2 = [set |-> s \cup {"has_cl"}, chunked_count |-> c, content_length |-> n]
  <2>1. S!Set({"has_cl"}) = [set |-> s \cup {"has_cl"}, chunked_count |-> c, content_length |-> l]
    BY <1>1 DEF S!Set
  <2> HIDE DEF n
  <2> QED BY <2>1
<1>3. ASSUME Len(S!field.value) = 1, S!field.value # <<"bad">> PROVE n \in Numerals
  <2>1. i \in 1..Len(message.headers) /\ message.headers[i].name = "content-length"
    <3>1. i <= Len(message.headers) /\ S!field.name = "content-length"
      BY DEF S!ContentLength, S!At
    <3> QED BY <3>1 DEF S!field, InFields
  <2> QED BY <1>3, <2>1 DEF S!field, InFields, LengthsOK
<1> HIDE DEF n
<1>4. ASSUME Len(S!field.value) = 1, S!field.value # <<"bad">> PROVE Plain(taken2)
  BY <1>2, <1>3, <1>4 DEF Plain
<1> QED BY <1>4, RefuseKeeps, TakeKeeps DEF S!ContentLength, n

LEMMA FlagKeeps ==
  ASSUME InFields, SemanticsOK, NEW flags, "has_cl" \notin flags, S!Take(S!Set(flags))
  PROVE  SemanticsOK'
  BY SetPlain, TakeKeeps DEF InFields

LEMMA FieldStepKeeps ==
  ASSUME InFields, SemanticsOK,
         S!Connection \/ S!Upgrade \/ S!Host \/ S!Trailer \/ S!OtherField
  PROVE  SemanticsOK'
<1>1. CASE S!Connection
  <2>1. "has_cl" \notin S!ConnectionFlags BY DEF S!ConnectionFlags
  <2> QED BY <1>1, <2>1, RefuseKeeps, FlagKeeps DEF S!Connection
<1>2. CASE S!Upgrade
  BY <1>2, RefuseKeeps, FlagKeeps, "has_cl" \notin {"has_upgrade"} DEF S!Upgrade
<1>3. CASE S!Host
  BY <1>3, RefuseKeeps, FlagKeeps, "has_cl" \notin {"has_host"} DEF S!Host
<1>4. CASE S!Trailer
  BY <1>4, RefuseKeeps, FlagKeeps, "has_cl" \notin {"has_trailer"} DEF S!Trailer
<1>5. CASE S!OtherField
  <2>1. Plain(loc) BY DEF InFields, LocalsOK, Plain
  <2> QED BY <1>5, <2>1, TakeKeeps DEF S!OtherField
<1> QED BY <1>1, <1>2, <1>3, <1>4, <1>5

LEMMA ExpectKeeps ==
  ASSUME InFields, SemanticsOK, S!Expect
  PROVE  SemanticsOK'
<1>1. CASE S!Refuse BY <1>1, RefuseKeeps
<1> DEFINE y == S!expects_continue(S!field.value)
<1> HIDE DEF y
<1>2. CASE /\ out' = [out EXCEPT !.expects_continue = y] /\ loc' = S!Set({"has_expect"})
           /\ i' = i + 1 /\ message' = message /\ s_pc' = s_pc
  <2>1. PICK b, l, a, p, e, t :
          out = [body_mode |-> b, content_length |-> l, keep_alive |-> a, protocol_upgrade |-> p,
                 expects_continue |-> e, has_trailer_fields |-> t]
    BY DEF InFields, FramedOK
  <2>2. out' = [body_mode |-> b, content_length |-> l, keep_alive |-> a, protocol_upgrade |-> p,
                expects_continue |-> y, has_trailer_fields |-> t]
    BY <1>2, <2>1
  <2>3. s_pc' = "fields" BY <1>2 DEF InFields
  <2>4. FramedOK(out)' BY <2>2, <2>3 DEF FramedOK
  <2>5. Plain(S!Set({"has_expect"}))
    BY SetPlain, "has_cl" \notin {"has_expect"} DEF InFields
  <2>6. LocalsOK' BY <1>2, <2>5, Zenon DEF Plain, LocalsOK
  <2>7. LengthsOK' BY <1>2, Zenon DEF InFields, LengthsOK
  <2>8. i' \in Nat \ {0} BY <1>2 DEF InFields
  <2> QED BY <2>4, <2>6, <2>7, <2>8 DEF SemanticsOK
<1> QED BY <1>1, <1>2 DEF S!Expect, y

(* The struct a message is concluded with.                                 *)
Concluded(o) ==
  \E b, l, a, p, e, t :
    /\ o = [body_mode |-> b, content_length |-> l, keep_alive |-> a, protocol_upgrade |-> p,
            expects_continue |-> e, has_trailer_fields |-> t]
    /\ b = S!IHTP_BODY_FIXED => l \in Numerals

LEMMA FixedHasLength ==
  S!body_mode = S!IHTP_BODY_FIXED => "has_cl" \in loc.set
<1>1. S!IHTP_BODY_FIXED \notin {S!IHTP_BODY_NONE, S!IHTP_BODY_CHUNKED, S!IHTP_BODY_EOF}
  BY DEF S!IHTP_BODY_FIXED, S!IHTP_BODY_NONE, S!IHTP_BODY_CHUNKED, S!IHTP_BODY_EOF
<1> QED BY <1>1 DEF S!body_mode, S!In

LEMMA FramedConcluded ==
  ASSUME InFields
  PROVE  Concluded(S!Framed)
<1>1. PICK b, l, a, p, e, t :
        out = [body_mode |-> b, content_length |-> l, keep_alive |-> a, protocol_upgrade |-> p,
               expects_continue |-> e, has_trailer_fields |-> t]
  BY DEF InFields, FramedOK
<1> DEFINE b2 == S!body_mode
           l2 == IF b2 = S!IHTP_BODY_FIXED THEN loc.content_length ELSE out.content_length
           a2 == IF S!has_connection THEN ~S!In("connection_close") ELSE out.keep_alive
<1>2. b2 = S!IHTP_BODY_FIXED => loc.content_length \in Numerals
  <2>1. PICK s, c, k : /\ loc = [set |-> s, chunked_count |-> c, content_length |-> k]
                       /\ "has_cl" \in s => k \in Numerals
    BY DEF InFields, LocalsOK
  <2>2. loc.set = s /\ loc.content_length = k BY <2>1
  <2> QED BY <2>1, <2>2, FixedHasLength
<1>3. S!Framed = [body_mode |-> b2, content_length |-> l2, keep_alive |-> a2, protocol_upgrade |-> p,
                  expects_continue |-> e, has_trailer_fields |-> t]
  <2>1. S!Framed = [out EXCEPT !.keep_alive = a2, !.body_mode = b2, !.content_length = l2]
    BY Zenon DEF S!Framed
  <2> HIDE DEF a2, b2, l2
  <2> QED BY <1>1, <2>1
<1>4. b2 = S!IHTP_BODY_FIXED => l2 \in Numerals
  BY <1>2
<1> HIDE DEF b2, l2, a2
<1> QED BY <1>3, <1>4 DEF Concluded

LEMMA BothConcluded ==
  ASSUME InFields
  PROVE  Concluded(S!RequestConcluded) /\ Concluded(S!ResponseConcluded)
<1>1. PICK b, l, a, p, e, t :
        /\ S!Framed = [body_mode |-> b, content_length |-> l, keep_alive |-> a,
                       protocol_upgrade |-> p, expects_continue |-> e, has_trailer_fields |-> t]
        /\ b = S!IHTP_BODY_FIXED => l \in Numerals
  BY FramedConcluded DEF Concluded
<1>2. Concluded(S!RequestConcluded)
  <2> DEFINE p2 == S!In("has_upgrade") /\ S!In("connection_upgrade")
             t2 == S!In("has_trailer")
             e2 == S!In("has_expect") /\ S!Framed.expects_continue
             a2 == IF S!has_connection THEN S!Framed.keep_alive ELSE message.version = "1.1"
  <2>1. S!RequestConcluded = [body_mode |-> b, content_length |-> l, keep_alive |-> a2,
                              protocol_upgrade |-> p2, expects_continue |-> e2,
                              has_trailer_fields |-> t2]
    <3>1. S!RequestConcluded = [S!Framed EXCEPT !.protocol_upgrade = p2, !.has_trailer_fields = t2,
                                  !.expects_continue = e2, !.keep_alive = a2]
      BY Zenon DEF S!RequestConcluded
    <3> HIDE DEF p2, t2, e2, a2
    <3> QED BY <1>1, <3>1
  <2> HIDE DEF p2, t2, e2, a2
  <2> QED BY <1>1, <2>1 DEF Concluded
<1>3. Concluded(S!ResponseConcluded)
  <2> DEFINE p2 == S!Switches
             t2 == S!In("has_trailer")
             a2 == /\ ~S!Switches
                   /\ \/ S!Framed.keep_alive
                      \/ ~S!has_connection /\ message.version = "1.1" /\ S!body_mode # S!IHTP_BODY_EOF
  <2>1. S!ResponseConcluded = [body_mode |-> b, content_length |-> l, keep_alive |-> a2,
                               protocol_upgrade |-> p2, expects_continue |-> e,
                               has_trailer_fields |-> t2]
    <3>1. S!ResponseConcluded = [S!Framed EXCEPT !.protocol_upgrade = p2, !.has_trailer_fields = t2,
                                   !.keep_alive = a2]
      BY Zenon DEF S!ResponseConcluded
    <3> HIDE DEF p2, t2, a2
    <3> QED BY <1>1, <3>1
  <2> HIDE DEF p2, t2, a2
  <2> QED BY <1>1, <2>1 DEF Concluded
<1> QED BY <1>2, <1>3

LEMMA ConcludeKeeps ==
  ASSUME InFields, SemanticsOK, S!Conclude
  PROVE  SemanticsOK'
<1>1. CASE S!Refuse BY <1>1, RefuseKeeps
<1>2. ASSUME NEW st, NEW o, Concluded(o), S!Returns(st, o) PROVE SemanticsOK'
  <2>1. s_pc' = "done" /\ out' = o BY <1>2 DEF S!Returns
  <2>2. PICK b, l, a, p, e, t :
          /\ o = [body_mode |-> b, content_length |-> l, keep_alive |-> a, protocol_upgrade |-> p,
                  expects_continue |-> e, has_trailer_fields |-> t]
          /\ b = S!IHTP_BODY_FIXED => l \in Numerals
    BY <1>2 DEF Concluded
  <2>3. FramedOK(out)' BY <2>1, <2>2 DEF FramedOK
  <2> QED BY <2>1, <2>3 DEF SemanticsOK
<1> QED BY <1>1, <1>2, FramedConcluded, BothConcluded DEF S!Conclude

LEMMA SemanticsStepKeeps ==
  ASSUME SemanticsOK, SemanticsStep
  PROVE  SemanticsOK'
<1>1. s_pc = "fields"
  BY DEF SemanticsStep, S!TransferEncoding, S!ContentLength, S!Connection, S!Upgrade, S!Host, S!Expect,
         S!Trailer, S!OtherField, S!Conclude, S!At
<1>2. InFields
  BY <1>1 DEF InFields, SemanticsOK
<1> QED BY <1>2, TransferEncodingKeeps, ContentLengthKeeps, FieldStepKeeps, ExpectKeeps, ConcludeKeeps
        DEF SemanticsStep

(* What the consumer takes from the parser's outputs.                      *)
LEMMA FieldLength ==
  ASSUME NEW h, Field(h).name = "content-length", Len(Field(h).value) = 1, Field(h).value # <<"bad">>
  PROVE  Field(h).value[1] \in Numerals
<1> DEFINE name == FieldName(Text(h.name))
           text == Text(h.value)
<1>1. Field(h) = [name |-> name, value |-> FieldValue(name, text)]
  BY DEF Field
<1> HIDE DEF name, text
<1>2. name = "content-length" /\ Field(h).value = FieldValue("content-length", text)
  BY <1>1
<1>3. FieldValue("content-length", text) # <<>>
  BY <1>2
<1>4. FieldValue("content-length", text) = text /\ text[1] \in Numerals
  BY <1>2, <1>3 DEF FieldValue
<1> QED BY <1>2, <1>4

LEMMA ApplyKeeps ==
  ASSUME HeadOK, SemanticsOK, S!Apply(Parsed)
  PROVE  SemanticsOK'
<1>1. message' = Parsed /\ s_pc' = "fields" /\ i' = 1 /\ loc' = S!NoLocals /\ out' = out
  BY DEF S!Apply
<1> DEFINE hs == [k \in 1..num_headers |-> Field(headers[k])]
<1>2. Parsed.headers = hs
  BY DEF Parsed, S!Message
<1>3. Len(hs) = num_headers /\ \A k \in 1..num_headers : hs[k] = Field(headers[k])
  BY DEF HeadOK
<1> HIDE DEF hs
<1>4. LengthsOK'
  BY <1>1, <1>2, <1>3, FieldLength DEF LengthsOK
<1>5. LocalsOK'
  BY <1>1 DEF LocalsOK, S!NoLocals
<1>6. FramedOK(out)'
  BY <1>1 DEF SemanticsOK, FramedOK
<1> QED BY <1>1, <1>4, <1>5, <1>6 DEF SemanticsOK

LEMMA ReuseKeeps ==
  ASSUME SemanticsOK, S!Reuse
  PROVE  SemanticsOK'
<1>1. s_pc' = "ready" /\ out' = IF clears THEN S!Fresh ELSE out
  BY DEF S!Reuse
<1>2. FramedOK(out)'
  <2>1. CASE out' = out BY <1>1, <2>1 DEF SemanticsOK, FramedOK
  <2>2. CASE out' = S!Fresh BY <1>1, <2>2 DEF FramedOK, S!Fresh
  <2> QED BY <1>1, <2>1, <2>2
<1> QED BY <1>1, <1>2 DEF SemanticsOK

-----------------------------------------------------------------------------
(* The steps of the chunked decoder.                                       *)

Decoding ==
  d_pc = "decoding" /\ CallOK /\ bytes_left_in_chunk \in Nat /\ consumed \in Seq(Byte)

(* What a step of a call may come to: it goes on, refuses, has the whole   *)
(* body after so many bytes of the slice, or has read all of it.           *)
GoesOn ==
  /\ d_pc' = "decoding" /\ consumed' = consumed /\ input' = input /\ avail' = avail
  /\ src' \in Nat /\ dst' \in Nat /\ dst' <= src' /\ src' <= avail
  /\ state' # D!CHUNK_DONE
  /\ d_buf' \in [1..avail -> Byte]
  /\ \A k \in src' + 1..avail : d_buf'[k] = input[k]

Rejects == d_pc' = "ready" /\ d_status' = D!IHTP_ERROR /\ state' = state /\ consumed' \in Seq(Byte)

Completes(read) ==
  /\ d_pc' = "ready" /\ state' = D!CHUNK_DONE /\ read \in 0..avail
  /\ consumed' = consumed \o SubSeq(input, 1, read)
  /\ Trailing' = SubSeq(input, read + 1, avail)

Exhausts == d_pc' = "ready" /\ state' = state /\ consumed' = consumed \o input

Outcome ==
  /\ bytes_left_in_chunk' \in Nat
  /\ GoesOn \/ Rejects \/ (\E read \in 1..avail : Completes(read)) \/ Exhausts

LEMMA ChunkStatesDiffer ==
  D!CHUNK_DONE \notin {D!CHUNK_SIZE, D!CHUNK_EXT, D!CHUNK_SIZE_LF, D!CHUNK_DATA, D!CHUNK_DATA_CR,
                       D!CHUNK_DATA_LF, D!CHUNK_TRAILER}
  BY DEF D!CHUNK_DONE, D!CHUNK_SIZE, D!CHUNK_EXT, D!CHUNK_SIZE_LF, D!CHUNK_DATA, D!CHUNK_DATA_CR,
         D!CHUNK_DATA_LF, D!CHUNK_TRAILER

(* One more byte is passed over, and the slice is as it was.               *)
LEMMA OneByteOn ==
  ASSUME Decoding, src < avail, bytes_left_in_chunk' \in Nat, state' # D!CHUNK_DONE,
         src' = src + 1, UNCHANGED <<d_pc, d_buf, avail, dst, input, consumed>>
  PROVE  Outcome
<1>1. avail \in Nat /\ src \in Nat /\ dst \in Nat /\ dst <= src
  BY LenProperties DEF Decoding, CallOK
<1>2. \A k \in src' + 1..avail : d_buf'[k] = input[k]
  BY <1>1 DEF Decoding, CallOK
<1>3. GoesOn
  BY <1>1, <1>2 DEF GoesOn, Decoding, CallOK
<1> QED BY <1>3 DEF Outcome

LEMMA FrameOn ==
  ASSUME Decoding, src < avail, NEW next, NEW n, next # D!CHUNK_DONE, D!Frame(next, n)
  PROVE  Outcome
<1>1. /\ src' = src + 1 /\ state' = next /\ bytes_left_in_chunk' = bytes_left_in_chunk
      /\ UNCHANGED <<d_pc, d_buf, avail, dst, input, consumed>>
  BY DEF D!Frame, D!history
<1>2. bytes_left_in_chunk' \in Nat BY <1>1 DEF Decoding
<1> QED BY <1>1, <1>2, OneByteOn

LEMMA RejectOutcome ==
  ASSUME Decoding, src < avail, D!Reject
  PROVE  Outcome
<1>1. /\ d_pc' = "ready" /\ d_status' = D!IHTP_ERROR /\ state' = state
      /\ bytes_left_in_chunk' = bytes_left_in_chunk
      /\ consumed' = consumed \o SubSeq(input, 1, src + 1)
  BY DEF D!Reject, D!decoder
<1>2. SubSeq(input, 1, src + 1) \in Seq(Byte)
  BY SubSeqProperties DEF Decoding, CallOK
<1>3. consumed' \in Seq(Byte)
  BY <1>1, <1>2, ConcatProperties DEF Decoding
<1> QED BY <1>1, <1>3 DEF Outcome, Rejects, Decoding

LEMMA StatusExact ==
  ASSUME NEW n \in 0..MaxWire
  PROVE  D!ToStatus(n) = n
<1>1. MaxWire \in Nat BY WireAssumption
<1>2. n % (2 * (MaxWire + 1)) = n BY <1>1
<1> QED BY <1>1, <1>2 DEF D!ToStatus

LEMMA CompleteOutcome ==
  ASSUME Decoding, src < avail, D!Complete(src + 1)
  PROVE  Outcome
<1> DEFINE read == src + 1
           n    == avail - read
<1>1. /\ avail \in Nat /\ avail <= MaxWire /\ src \in Nat /\ dst \in Nat /\ dst <= src
      /\ read \in 1..avail /\ n \in Nat /\ n \in 0..MaxWire /\ dst + n <= avail
  BY LenProperties, WireAssumption DEF Decoding, CallOK
<1>2. /\ d_pc' = "ready" /\ state' = D!CHUNK_DONE /\ bufsz' = dst /\ d_status' = n
      /\ consumed' = consumed \o SubSeq(input, 1, read)
      /\ bytes_left_in_chunk' = bytes_left_in_chunk
      /\ d_buf' = IF read < avail THEN D!memmove(dst, read, n) ELSE d_buf
  BY <1>1, StatusExact DEF D!Complete
<1> HIDE DEF read, n
<1>3. d_buf' \in [1..avail -> Byte] /\ \A k \in 1..n : d_buf'[dst + k] = input[read + k]
  <2>1. \A k \in read + 1..avail : d_buf[k] = input[k]
    BY <1>1 DEF Decoding, CallOK, read
  <2>2. CASE read < avail
    <3>1. d_buf' = [j \in 1..avail |-> IF j \in dst + 1..dst + n THEN d_buf[j - dst + read] ELSE d_buf[j]]
      BY <1>2, <2>2 DEF D!memmove
    <3>2. \A j \in dst + 1..dst + n : j - dst + read \in 1..avail
      BY <1>1 DEF n, read
    <3>3. d_buf \in [1..avail -> Byte] BY DEF Decoding, CallOK
    <3>4. d_buf' \in [1..avail -> Byte] BY <3>1, <3>2, <3>3
    <3>5. ASSUME NEW k \in 1..n PROVE d_buf'[dst + k] = input[read + k]
      <4> DEFINE j == dst + k
      <4>1. /\ j \in dst + 1..dst + n /\ j \in 1..avail /\ j - dst + read = read + k
            /\ read + k \in read + 1..avail
        BY <1>1 DEF n, read
      <4> HIDE DEF j
      <4>2. d_buf'[j] = d_buf[j - dst + read] BY <3>1, <4>1
      <4>3. d_buf'[j] = input[read + k] BY <4>1, <4>2, <2>1
      <4> QED BY <4>3 DEF j
    <3> QED BY <3>4, <3>5
  <2>3. CASE ~(read < avail)
    <3>1. n = 0 /\ d_buf' = d_buf BY <1>1, <1>2, <2>3 DEF n
    <3> QED BY <3>1 DEF Decoding, CallOK
  <2> QED BY <2>2, <2>3
<1>4. Trailing' = SubSeq(input, read + 1, avail)
  <2>0. input \in Seq(Byte) /\ avail = Len(input) BY DEF Decoding, CallOK
  <2>1. d_buf' \in Seq(Byte) /\ Len(d_buf') = avail BY <1>1, <1>3
  <2>2. Trailing' = SubSeq(d_buf', dst + 1, dst + n) BY <1>2 DEF Trailing
  <2>3. SubSeq(d_buf', dst + 1, dst + n) = [k \in 1..n |-> d_buf'[dst + k]]
    BY <1>1, <2>1
  <2>4. SubSeq(input, read + 1, avail) = [k \in 1..n |-> input[read + k]]
    BY <1>1, <2>0 DEF n
  <2> QED BY <1>3, <2>2, <2>3, <2>4
<1>5. Completes(read)
  BY <1>1, <1>2, <1>4 DEF Completes
<1> QED BY <1>1, <1>2, <1>5 DEF Outcome, Decoding

LEMMA ChunkSizeOutcome ==
  ASSUME Decoding, D!ChunkSize
  PROVE  Outcome
<1>0. src < avail /\ state = D!CHUNK_SIZE BY DEF D!ChunkSize, D!At
<1>1. CASE D!SizeDigit
  <2>1. /\ src' = src + 1 /\ state' = state
        /\ UNCHANGED <<d_pc, d_buf, avail, dst, input, consumed>>
        /\ D!byte \in Numerals
        /\ bytes_left_in_chunk' = (bytes_left_in_chunk * 16 + DigitValue[D!byte]) % Powers[4]
    BY <1>1 DEF D!SizeDigit
  <2>2. Powers[4] = 65536
    BY DEF Powers
  <2>3. DigitValue[D!byte] \in 0..9
    BY <2>1, WireAssumption
  <2>4. bytes_left_in_chunk' \in Nat
    <3> DEFINE x == bytes_left_in_chunk * 16 + DigitValue[D!byte]
    <3>1. x \in Nat BY <2>3 DEF Decoding
    <3>2. bytes_left_in_chunk' = x % 65536 BY <2>1, <2>2
    <3> HIDE DEF x
    <3> QED BY <3>1, <3>2
  <2> QED BY <1>0, <2>1, <2>4, ChunkStatesDiffer, OneByteOn
<1>2. CASE D!Frame(D!CHUNK_EXT, hex_count) \/ D!Frame(D!CHUNK_SIZE_LF, hex_count)
  BY <1>0, <1>2, ChunkStatesDiffer, FrameOn
<1>3. CASE D!Reject
  BY <1>0, <1>3, RejectOutcome
<1> QED BY <1>1, <1>2, <1>3 DEF D!ChunkSize

LEMMA ChunkExtOutcome ==
  ASSUME Decoding, D!ChunkExt
  PROVE  Outcome
<1>0. src < avail BY DEF D!ChunkExt, D!At
<1> QED BY <1>0, ChunkStatesDiffer, FrameOn, RejectOutcome DEF D!ChunkExt

LEMMA ChunkSizeLFOutcome ==
  ASSUME Decoding, D!ChunkSizeLF
  PROVE  Outcome
<1>0. src < avail BY DEF D!ChunkSizeLF, D!At
<1> QED BY <1>0, ChunkStatesDiffer, FrameOn, RejectOutcome, CompleteOutcome DEF D!ChunkSizeLF

LEMMA ChunkDataOutcome ==
  ASSUME Decoding, D!ChunkData
  PROVE  Outcome
<1> DEFINE n == D!to_copy
<1>0. src < avail BY DEF D!ChunkData, D!At
<1>1. /\ avail \in Nat /\ src \in Nat /\ dst \in Nat /\ dst <= src /\ bytes_left_in_chunk \in Nat
      /\ d_buf \in [1..avail -> Byte]
  BY LenProperties DEF Decoding, CallOK
<1>2. n \in Nat /\ src + n <= avail /\ n <= bytes_left_in_chunk
  BY <1>0, <1>1 DEF D!to_copy, D!Smaller
<1> HIDE DEF n
<1>3. /\ d_buf' = [j \in 1..avail |-> IF j \in dst + 1..dst + n THEN d_buf[j - dst + src] ELSE d_buf[j]]
      /\ dst' = dst + n /\ src' = src + n /\ bytes_left_in_chunk' = bytes_left_in_chunk - n
      /\ state' \in {D!CHUNK_DATA_CR, D!CHUNK_DATA}
      /\ UNCHANGED <<d_pc, avail, input, consumed>>
  BY DEF D!ChunkData, D!memmove, n
<1>4. \A j \in dst + 1..dst + n : j - dst + src \in 1..avail
  BY <1>1, <1>2
<1>5. d_buf' \in [1..avail -> Byte]
  BY <1>1, <1>3, <1>4
<1>6. \A k \in src' + 1..avail : d_buf'[k] = input[k]
  <2> SUFFICES ASSUME NEW k \in src' + 1..avail PROVE d_buf'[k] = input[k]
    OBVIOUS
  <2>1. k \in 1..avail /\ k \in src + 1..avail /\ k \notin dst + 1..dst + n
    BY <1>1, <1>2, <1>3
  <2>2. d_buf'[k] = d_buf[k] BY <1>3, <2>1
  <2> QED BY <2>1, <2>2 DEF Decoding, CallOK
<1>7. bytes_left_in_chunk' \in Nat BY <1>1, <1>2, <1>3
<1>8. src' \in Nat /\ dst' \in Nat /\ dst' <= src' /\ src' <= avail BY <1>1, <1>2, <1>3
<1>9. GoesOn
  BY <1>3, <1>5, <1>6, <1>8, ChunkStatesDiffer DEF GoesOn, Decoding
<1> QED BY <1>7, <1>9 DEF Outcome

LEMMA ChunkDataEndOutcome ==
  ASSUME Decoding, D!ChunkDataCR \/ D!ChunkDataLF
  PROVE  Outcome
<1>0. src < avail BY DEF D!ChunkDataCR, D!ChunkDataLF, D!At
<1>1. CASE D!NextChunk
  <2>1. /\ src' = src + 1 /\ state' = D!CHUNK_SIZE /\ bytes_left_in_chunk' \in Nat
        /\ UNCHANGED <<d_pc, d_buf, avail, dst, input, consumed>>
    BY <1>1 DEF D!NextChunk
  <2> QED BY <1>0, <2>1, ChunkStatesDiffer, OneByteOn
<1> QED BY <1>0, <1>1, ChunkStatesDiffer, FrameOn, RejectOutcome DEF D!ChunkDataCR, D!ChunkDataLF

LEMMA ChunkTrailerOutcome ==
  ASSUME Decoding, D!ChunkTrailer
  PROVE  Outcome
<1>0. src < avail BY DEF D!ChunkTrailer, D!At
<1>1. ASSUME NEW n, D!Frame(D!CHUNK_TRAILER, n) PROVE Outcome
  BY <1>0, <1>1, ChunkStatesDiffer, FrameOn
<1> QED BY <1>0, <1>1, RejectOutcome, CompleteOutcome
        DEF D!ChunkTrailer, D!TrailerLineStart, D!TrailerDoneLF, D!TrailerLine, D!TrailerLineLF

LEMMA DecoderOutcome ==
  ASSUME Decoding, D!Step
  PROVE  Outcome
<1>1. CASE D!ChunkDone
  BY <1>1 DEF D!ChunkDone, D!At, Decoding, CallOK
<1>2. CASE D!NeedMore
  BY <1>2 DEF D!NeedMore, D!decoder, Outcome, Exhausts, Decoding
<1> QED BY <1>1, <1>2, ChunkSizeOutcome, ChunkExtOutcome, ChunkSizeLFOutcome, ChunkDataOutcome,
           ChunkDataEndOutcome, ChunkTrailerOutcome DEF D!Step

-----------------------------------------------------------------------------
(* What is used and held, together, at each place the consumer is at.      *)
Own == Used \o Held

LEMMA Cut ==
  ASSUME NEW q \in Seq(Byte), NEW n \in 0..Len(q)
  PROVE  /\ SubSeq(q, 1, n) \in Seq(Byte) /\ SubSeq(q, n + 1, Len(q)) \in Seq(Byte)
         /\ SubSeq(q, 1, n) \o SubSeq(q, n + 1, Len(q)) = q
<1>1. Len(q) \in Nat /\ n \in Nat BY LenProperties
<1>2. SubSeq(q, 1, n) \in Seq(Byte) BY <1>1, SubSeqProperties
<1>3. SubSeq(q, n + 1, Len(q)) \in Seq(Byte) BY <1>1, SubSeqProperties
<1>4. SubSeq(q, 1, n) \o SubSeq(q, n + 1, Len(q)) = SubSeq(q, 1, Len(q))
  <2>1. 1 \in 1..Len(q) + 1 /\ n \in 1 - 1..Len(q) /\ Len(q) \in n..Len(q) BY <1>1
  <2> QED BY <2>1, ConcatAdjacentSubSeq
<1>5. SubSeq(q, 1, Len(q)) = q BY SubSeqFull
<1> QED BY <1>2, <1>3, <1>4, <1>5

LEMMA EmptyByte ==
  <<>> \in Seq(Byte) /\ \A q \in Seq(Byte) : q \o <<>> = q /\ <<>> \o q = q
  BY ConcatEmptySeq

LEMMA Rejoined ==
  ASSUME NEW h \in Seq(Byte), NEW q \in Seq(Byte), NEW n \in 0..Len(q)
  PROVE  (h \o SubSeq(q, 1, n)) \o SubSeq(q, n + 1, Len(q)) = h \o q
<1> DEFINE x  == SubSeq(q, 1, n)
           y  == SubSeq(q, n + 1, Len(q))
<1>1. x \in Seq(Byte) /\ y \in Seq(Byte) BY Cut
<1>2. x \o y = q BY Cut
<1> HIDE DEF x, y
<1>3. (h \o x) \o y = h \o (x \o y) BY <1>1, ConcatAssociative, SMTT(30)
<1>4. (h \o x) \o y = h \o q BY <1>2, <1>3, Zenon
<1> QED BY <1>4, Zenon DEF x, y

LEMMA Regrouped ==
  ASSUME NEW h \in Seq(Byte), NEW c \in Seq(Byte), NEW q \in Seq(Byte), NEW n \in 0..Len(q)
  PROVE  ((h \o c) \o SubSeq(q, 1, n)) \o SubSeq(q, n + 1, Len(q)) = h \o (c \o q)
<1> DEFINE hc == h \o c
<1>1. hc \in Seq(Byte) BY ConcatProperties
<1>2. hc \o q = h \o (c \o q) BY ConcatAssociative, SMTT(30)
<1> HIDE DEF hc
<1>3. (hc \o SubSeq(q, 1, n)) \o SubSeq(q, n + 1, Len(q)) = hc \o q BY <1>1, Rejoined, Zenon
<1>4. (hc \o SubSeq(q, 1, n)) \o SubSeq(q, n + 1, Len(q)) = h \o (c \o q) BY <1>2, <1>3, Zenon
<1> QED BY <1>4, Zenon DEF hc

LEMMA RejoinedInside ==
  ASSUME NEW h \in Seq(Byte), NEW b \in Seq(Byte), NEW q \in Seq(Byte), NEW n \in 0..Len(q)
  PROVE  (h \o (b \o SubSeq(q, 1, n))) \o SubSeq(q, n + 1, Len(q)) = (h \o b) \o q
<1> DEFINE hb == h \o b
           x  == SubSeq(q, 1, n)
           y  == SubSeq(q, n + 1, Len(q))
<1>1. hb \in Seq(Byte) BY ConcatProperties
<1>2. x \in Seq(Byte) BY Cut
<1>3. (hb \o x) \o y = hb \o q
  <2> HIDE DEF hb
  <2> QED BY <1>1, Rejoined, Zenon
<1> HIDE DEF x, y
<1>4. (h \o b) \o x = h \o (b \o x) BY <1>2, ConcatAssociative, SMTT(30)
<1> QED BY <1>3, <1>4, Zenon DEF hb, x, y

LEMMA HeadCut ==
  HeadOK /\ at \notin {"head", "closed"} =>
    HeadBytes \in Seq(Byte) /\ AfterHead \in Seq(Byte) /\ HeadBytes \o AfterHead = buf
<1>1. ASSUME HeadOK, at \notin {"head", "closed"}
      PROVE  HeadBytes \in Seq(Byte) /\ AfterHead \in Seq(Byte) /\ HeadBytes \o AfterHead = buf
  <2>1. buf \in Seq(Byte) /\ bytes_consumed \in 0..Len(buf) BY <1>1 DEF HeadOK
  <2> QED BY <2>1, Cut DEF HeadBytes, AfterHead
<1> QED BY <1>1

LEMMA SectionInside ==
  ASSUME tail \in Seq(Byte)
  PROVE  Section \in 0..Len(tail) /\ \A e \in TrailerEnd : Section = e
<1>0. Len(tail) \in Nat BY LenProperties
<1>1. CASE TrailerEnd = {} BY <1>0, <1>1 DEF Section
<1>2. CASE TrailerEnd # {}
  <2>1. Section \in TrailerEnd BY <1>2 DEF Section
  <2>2. \A e \in TrailerEnd : /\ e \in 4..Len(tail) /\ SubSeq(tail, e - 3, e) = Blank
                              /\ \A j \in 4..e - 1 : SubSeq(tail, j - 3, j) # Blank
    BY DEF TrailerEnd
  <2>3. \A e \in TrailerEnd : Section = e
    <3> TAKE e \in TrailerEnd
    <3>1. ~(Section < e)
      <4> SUFFICES ASSUME Section < e PROVE FALSE OBVIOUS
      <4>1. Section \in 4..e - 1 BY <1>0, <2>1, <2>2
      <4> QED BY <2>1, <2>2, <4>1
    <3>2. ~(e < Section)
      <4> SUFFICES ASSUME e < Section PROVE FALSE OBVIOUS
      <4>1. e \in 4..Section - 1 BY <1>0, <2>1, <2>2
      <4> QED BY <2>1, <2>2, <4>1
    <3>3. e \in Int /\ Section \in Int BY <1>0, <2>1, <2>2
    <3> QED BY <3>1, <3>2, <3>3
  <2>4. Section \in 0..Len(tail) BY <1>0, <2>1, <2>2
  <2> QED BY <2>3, <2>4
<1> QED BY <1>1, <1>2

LEMMA OwnAtHead ==
  CInv /\ at \in {"head", "semantics"} => Own = buf
<1>1. ASSUME CInv, at = "head" PROVE Own = buf
  <2>1. Used = <<>> /\ Held = buf BY <1>1 DEF Used, Held
  <2>2. buf \in Seq(Byte) BY <1>1 DEF CInv, HeadOK
  <2> QED BY <2>1, <2>2, EmptyByte DEF Own
<1>2. ASSUME CInv, at = "semantics" PROVE Own = buf
  <2>1. Used = HeadBytes /\ Held = AfterHead BY <1>2 DEF Used, Held
  <2> QED BY <1>2, <2>1, HeadCut DEF Own, CInv
<1> QED BY <1>1, <1>2

(* While a body is read: the head, then what the decoder has had, then     *)
(* what it has not.                                                        *)
Pending ==
  CASE d_pc = "decoding"                          -> input
    [] d_pc = "ready" /\ state = D!CHUNK_DONE     -> Trailing
    [] d_pc = "ready" /\ state # D!CHUNK_DONE     -> tail

LEMMA OwnAtBody ==
  CInv =>
    /\ at = "fixed" => Own = (HeadBytes \o body) \o tail
    /\ at = "eof" => Own = HeadBytes \o body
    /\ at = "trailer" => Own = HeadBytes \o (consumed \o tail)
    /\ at = "chunked" => Pending \in Seq(Byte) /\ Own = HeadBytes \o (consumed \o Pending)
    /\ at = "handed" => Own = tail
<1> SUFFICES ASSUME CInv
             PROVE  /\ at = "fixed" => Own = (HeadBytes \o body) \o tail
                    /\ at = "eof" => Own = HeadBytes \o body
                    /\ at = "trailer" => Own = HeadBytes \o (consumed \o tail)
                    /\ at = "chunked" => Pending \in Seq(Byte) /\ Own = HeadBytes \o (consumed \o Pending)
                    /\ at = "handed" => Own = tail
  OBVIOUS
<1>0. at \notin {"head", "closed"} => HeadBytes \in Seq(Byte)
  BY HeadCut DEF CInv
<1>1. ASSUME at = "fixed" PROVE Own = (HeadBytes \o body) \o tail
  <2>1. Used = HeadBytes \o body /\ Held = tail BY <1>1, Zenon DEF Used, Held
  <2> QED BY <2>1 DEF Own
<1>2. ASSUME at = "eof" PROVE Own = HeadBytes \o body
  <2>1. Used = HeadBytes \o body /\ Held = tail BY <1>2 DEF Used, Held
  <2>2. tail = <<>> /\ body \in Seq(Byte) BY <1>2 DEF CInv, RestOK
  <2>3. HeadBytes \o body \in Seq(Byte) BY <1>0, <1>2, <2>2, ConcatProperties
  <2> QED BY <2>1, <2>2, <2>3, EmptyByte DEF Own
<1>3. ASSUME at = "trailer" PROVE Own = HeadBytes \o (consumed \o tail)
  <2>1. /\ Used = (HeadBytes \o consumed) \o SubSeq(tail, 1, Section)
        /\ Held = SubSeq(tail, Section + 1, Len(tail))
    BY <1>3 DEF Used, Held
  <2>2. tail \in Seq(Byte) /\ consumed \in Seq(Byte) BY <1>3 DEF CInv, RestOK
  <2>3. HeadBytes \in Seq(Byte) /\ Section \in 0..Len(tail) BY <1>0, <1>3, <2>2, SectionInside
  <2>4. ((HeadBytes \o consumed) \o SubSeq(tail, 1, Section)) \o SubSeq(tail, Section + 1, Len(tail))
          = HeadBytes \o (consumed \o tail)
    BY <2>2, <2>3, Regrouped, Zenon
  <2> QED BY <2>1, <2>4, Zenon DEF Own
<1>4. ASSUME at = "chunked" PROVE Pending \in Seq(Byte) /\ Own = HeadBytes \o (consumed \o Pending)
  <2>1. consumed \in Seq(Byte) /\ HeadBytes \in Seq(Byte) /\ tail \in Seq(Byte)
    BY <1>0, <1>4 DEF CInv, ChunkedOK
  <2>2. HeadBytes \o consumed \in Seq(Byte) BY <2>1, ConcatProperties
  <2>3. CASE d_pc = "decoding"
    <3>1. /\ Used = (HeadBytes \o consumed) \o SubSeq(input, 1, src)
          /\ Held = SubSeq(input, src + 1, avail)
      BY <1>4, <2>3 DEF Used, Held
    <3>2. CallOK BY <1>4, <2>3 DEF CInv, ChunkedOK
    <3>3. input \in Seq(Byte) /\ src \in 0..Len(input) /\ avail = Len(input)
      BY <3>2, LenProperties DEF CallOK
    <3>4. ((HeadBytes \o consumed) \o SubSeq(input, 1, src)) \o SubSeq(input, src + 1, Len(input))
            = HeadBytes \o (consumed \o input)
      BY <2>1, <3>3, Regrouped, Zenon
    <3>7. Own = HeadBytes \o (consumed \o input) BY <3>1, <3>3, <3>4, Zenon DEF Own
    <3>8. Pending = input BY <2>3 DEF Pending
    <3> QED BY <3>3, <3>7, <3>8
  <2>4. CASE d_pc = "ready"
    <3>1. Used = (HeadBytes \o consumed) \o <<>> BY <1>4, <2>4 DEF Used
    <3>2. Used = HeadBytes \o consumed BY <2>2, <3>1, EmptyByte
    <3>3. Held = Pending BY <1>4, <2>4 DEF Held, Pending
    <3>4. Pending \in Seq(Byte) BY <1>4, <2>1, <2>4 DEF CInv, ChunkedOK, Pending
    <3> QED BY <2>1, <3>2, <3>3, <3>4, ConcatAssociative DEF Own
  <2>5. d_pc \in {"ready", "decoding"} BY <1>4 DEF CInv, ChunkedOK
  <2> QED BY <2>3, <2>4, <2>5
<1>5. ASSUME at = "handed" PROVE Own = tail
  <2>1. Used = <<>> /\ Held = tail BY <1>5 DEF Used, Held
  <2>2. tail \in Seq(Byte) BY <1>5 DEF CInv, RestOK
  <2> QED BY <2>1, <2>2, EmptyByte DEF Own
<1> QED BY <1>1, <1>2, <1>3, <1>4, <1>5

(* The same in the next state.                                             *)
LEMMA OwnNext ==
  CInv' =>
    /\ at' \in {"head", "semantics"} => Own' = buf'
    /\ at' = "fixed" => Own' = (HeadBytes' \o body') \o tail'
    /\ at' = "eof" => Own' = HeadBytes' \o body'
    /\ at' = "trailer" => Own' = HeadBytes' \o (consumed' \o tail')
    /\ at' = "chunked" => Own' = HeadBytes' \o (consumed' \o Pending')
    /\ at' = "handed" => Own' = tail'
<1>1. (CInv /\ at \in {"head", "semantics"} => Own = buf)' BY OwnAtHead, PTL
<1>2. (CInv =>
         /\ at = "fixed" => Own = (HeadBytes \o body) \o tail
         /\ at = "eof" => Own = HeadBytes \o body
         /\ at = "trailer" => Own = HeadBytes \o (consumed \o tail)
         /\ at = "chunked" => Pending \in Seq(Byte) /\ Own = HeadBytes \o (consumed \o Pending)
         /\ at = "handed" => Own = tail)'
  BY OwnAtBody, PTL
<1> QED BY <1>1, <1>2

-----------------------------------------------------------------------------
(* What one step does to the bytes.                                        *)
Conserved ==
  \/ at' = "closed" \/ Refused'
  \/ (Used \o Held \o unread)' = Used \o Held \o unread
  \/ /\ log' = Append(log, Entry(body))
     /\ (Used \o Held \o unread)' = Held \o unread

LEMMA Kept ==
  ASSUME unread' = unread, Own' = Own
  PROVE  Conserved
  BY Zenon DEF Conserved, Own

LEMMA SemanticsSame ==
  ASSUME SemanticsOK, UNCHANGED semantics
  PROVE  SemanticsOK'
  BY DEF SemanticsOK, semantics, LengthsOK, LocalsOK, FramedOK

LEMMA HeadSame ==
  ASSUME HeadOK, UNCHANGED parser, at' \notin {"head", "closed"} => phase = P!DONE
  PROVE  HeadOK' /\ HeadBytes' = HeadBytes /\ AfterHead' = AfterHead
  BY DEF HeadOK, parser, HeadBytes, AfterHead

(* The connection is given up.                                             *)
LEMMA ClosedKeeps ==
  ASSUME CInv, UNCHANGED <<parser, semantics, unread>>, at' = "closed"
  PROVE  CInv' /\ Conserved
<1>1. HeadOK' /\ SemanticsOK' BY HeadSame, SemanticsSame DEF CInv
<1>2. IdleOK' /\ ChunkedOK' /\ RestOK' BY DEF IdleOK, ChunkedOK, RestOK
<1>3. unread' \in Seq(Byte) BY DEF CInv
<1> QED BY <1>1, <1>2, <1>3 DEF CInv, Conserved

LEMMA ParseStepKeeps ==
  ASSUME CInv, ParseHead \/ ParseStep
  PROVE  CInv' /\ Conserved
<1>1. /\ at = "head" /\ at' = at /\ unread' = unread /\ tail' = tail /\ body' = body
      /\ UNCHANGED semantics /\ UNCHANGED chunked
  BY DEF ParseHead, ParseStep, consumer, peer
<1>2. ParserKeeps
  BY ParserStepKeeps, ParseKeeps DEF CInv, ParseHead, ParseStep
<1>3. HeadOK' BY <1>1, <1>2 DEF ParserKeeps, HeadOK, CInv
<1>4. SemanticsOK' BY <1>1, SemanticsSame DEF CInv
<1>5. IdleOK' BY <1>1 DEF CInv, IdleOK, chunked
<1>6. ChunkedOK' /\ RestOK' BY <1>1 DEF ChunkedOK, RestOK
<1>7. CInv' BY <1>1, <1>3, <1>4, <1>5, <1>6 DEF CInv
<1>8. Own = buf BY <1>1, OwnAtHead
<1>10. Own' = Own BY <1>1, <1>2, <1>7, <1>8, OwnNext DEF ParserKeeps
<1> QED BY <1>1, <1>7, <1>10, Kept

LEMMA ResetOK ==
  ASSUME NEW next \in Seq(Byte), HeadOK, P!ResetTo(next), at' = "head"
  PROVE  HeadOK' /\ buf' = next
<1>1. /\ phase' = P!FirstPhase(mode) /\ cursor' = 0 /\ num_headers' = 0 /\ buf' = next
      /\ UNCHANGED <<pos, count>>
  BY DEF P!ResetTo, P!call
<1>2. phase' # P!DONE
  BY <1>1 DEF P!FirstPhase, P!DONE, P!HEADERS, P!START_LINE
<1> QED BY <1>1, <1>2 DEF HeadOK

LEMMA MoveKeeps ==
  ASSUME CInv, MoveBuffer
  PROVE  CInv' /\ Conserved
<1>1. /\ at = "head" /\ at' = at /\ unread' = unread /\ tail' = tail /\ body' = body
      /\ UNCHANGED semantics /\ UNCHANGED chunked /\ P!ResetTo(buf)
  BY DEF MoveBuffer, peer
<1>2. buf \in Seq(Byte) BY DEF CInv, HeadOK
<1>3. HeadOK' /\ buf' = buf BY <1>1, <1>2, ResetOK DEF CInv
<1>4. SemanticsOK' BY <1>1, SemanticsSame DEF CInv
<1>5. IdleOK' BY <1>1 DEF CInv, IdleOK, chunked
<1>6. ChunkedOK' /\ RestOK' BY <1>1 DEF ChunkedOK, RestOK
<1>7. CInv' BY <1>1, <1>3, <1>4, <1>5, <1>6 DEF CInv
<1>8. Own = buf BY <1>1, OwnAtHead
<1>10. Own' = Own BY <1>1, <1>3, <1>7, <1>8, OwnNext
<1> QED BY <1>1, <1>7, <1>10, Kept

LEMMA SemanticsKeeps ==
  ASSUME CInv, apply_semantics \/ SemanticsStep
  PROVE  CInv' /\ Conserved
<1>1. /\ at \in {"head", "semantics"} /\ at' = "semantics" /\ unread' = unread /\ tail' = tail
      /\ body' = body /\ UNCHANGED parser /\ UNCHANGED chunked /\ phase = P!DONE
  <2>1. CASE apply_semantics BY <2>1 DEF apply_semantics, peer
  <2>2. CASE SemanticsStep
    <3>1. at = "semantics" /\ phase = P!DONE BY <2>2 DEF SemanticsStep, CInv, HeadOK
    <3> QED BY <3>1, <2>2 DEF SemanticsStep, peer, consumer
  <2> QED BY <2>1, <2>2
<1>2. SemanticsOK'
  BY ApplyKeeps, SemanticsStepKeeps DEF apply_semantics, CInv
<1>3. HeadOK' /\ buf' = buf BY <1>1, HeadSame DEF CInv, parser
<1>5. IdleOK' BY <1>1 DEF CInv, IdleOK, chunked
<1>6. ChunkedOK' /\ RestOK' BY <1>1 DEF ChunkedOK, RestOK
<1>7. CInv' BY <1>1, <1>2, <1>3, <1>5, <1>6 DEF CInv
<1>8. Own = buf BY <1>1, OwnAtHead
<1>10. Own' = Own BY <1>1, <1>3, <1>7, <1>8, OwnNext
<1> QED BY <1>1, <1>7, <1>10, Kept

-----------------------------------------------------------------------------
(* A message is whole: what is held passes to the parser or the connection *)
(* is at its end.                                                          *)
LEMMA FinishKeeps ==
  ASSUME CInv, at \notin {"head", "closed"}, unread' = unread, Held \in Seq(Byte), Finish(body, Held)
  PROVE  CInv' /\ Conserved
<1>1. CASE at' = "closed"
  <2>1. UNCHANGED <<parser, semantics>> BY <1>1 DEF Finish
  <2> QED BY <1>1, <2>1, ClosedKeeps
<1>2. CASE at' = "head"
  <2>1. /\ P!ResetTo(Held) /\ S!Reuse /\ body' = <<>> /\ tail' = <<>> /\ FreshDecoder
        /\ log' = Append(log, Entry(body))
    BY <1>2 DEF Finish
  <2>2. HeadOK' /\ buf' = Held BY <1>2, <2>1, ResetOK DEF CInv
  <2>3. SemanticsOK' BY <2>1, ReuseKeeps DEF CInv
  <2>4. IdleOK' BY <2>1 DEF IdleOK, FreshDecoder
  <2>5. ChunkedOK' /\ RestOK' BY <1>2 DEF ChunkedOK, RestOK
  <2>6. CInv' BY <2>2, <2>3, <2>4, <2>5 DEF CInv
    <2>8. Own' = Held BY <1>2, <2>2, <2>6, OwnNext
  <2>9. Conserved BY <2>1, <2>8, Zenon DEF Conserved, Own
  <2> QED BY <2>6, <2>9
<1> QED BY <1>1, <1>2 DEF Finish

LEMMA AcceptedAt ==
  ASSUME CInv, Accepted
  PROVE  /\ at = "semantics" /\ Held = AfterHead /\ AfterHead \in Seq(Byte) /\ phase = P!DONE
         /\ HeadBytes \in Seq(Byte) /\ Own = HeadBytes \o AfterHead
         /\ state = D!CHUNK_SIZE /\ bytes_left_in_chunk = 0 /\ d_pc = "ready" /\ consumed = <<>>
         /\ body = <<>>
<1>1. at = "semantics" BY DEF Accepted
<1>2. Held = AfterHead BY <1>1 DEF Held
<1>3. Used = HeadBytes BY <1>1 DEF Used
<1> QED BY <1>1, <1>2, <1>3, HeadCut DEF CInv, HeadOK, IdleOK, Own

LEMMA HandOverKeeps ==
  ASSUME CInv, HandOver
  PROVE  CInv' /\ Conserved
<1>1. /\ Accepted /\ at' = "handed" /\ tail' = AfterHead /\ log' = Append(log, Entry(<<>>))
      /\ UNCHANGED parser /\ UNCHANGED semantics /\ unread' = unread
  BY DEF HandOver, peer
<1>2. Held = AfterHead /\ AfterHead \in Seq(Byte) /\ phase = P!DONE /\ body = <<>>
  BY <1>1, AcceptedAt
<1>3. HeadOK' /\ SemanticsOK' BY <1>1, <1>2, HeadSame, SemanticsSame DEF CInv
<1>4. IdleOK' /\ ChunkedOK' /\ RestOK' BY <1>1, <1>2 DEF IdleOK, ChunkedOK, RestOK
<1>5. CInv' BY <1>1, <1>3, <1>4 DEF CInv
<1>7. Own' = Held BY <1>1, <1>2, <1>5, OwnNext
<1>8. log' = Append(log, Entry(body)) BY <1>1, <1>2
<1>9. Conserved BY <1>1, <1>7, <1>8, Zenon DEF Conserved, Own
<1> QED BY <1>5, <1>9

LEMMA NoBodyKeeps ==
  ASSUME CInv, NoBody
  PROVE  CInv' /\ Conserved
<1>1. Accepted /\ Finish(<<>>, AfterHead) /\ unread' = unread BY DEF NoBody, peer
<1>2. Held = AfterHead /\ AfterHead \in Seq(Byte) /\ body = <<>> /\ at = "semantics"
  BY <1>1, AcceptedAt
<1>3. Finish(body, Held) BY <1>1, <1>2
<1>4. Held \in Seq(Byte) BY <1>2
<1> QED BY <1>1, <1>2, <1>3, <1>4, FinishKeeps

LEMMA FixedLength ==
  ASSUME CInv, Accepted, out.body_mode = S!IHTP_BODY_FIXED
  PROVE  DigitValue[out.content_length] \in Nat
<1>1. PICK b, l, a, p, e, t :
        /\ out = [body_mode |-> b, content_length |-> l, keep_alive |-> a, protocol_upgrade |-> p,
                  expects_continue |-> e, has_trailer_fields |-> t]
        /\ s_pc = "done" /\ s_status = "IHTP_OK" /\ b = S!IHTP_BODY_FIXED => l \in Numerals
  BY DEF CInv, SemanticsOK, FramedOK
<1>2. out.content_length \in Numerals BY <1>1 DEF Accepted
<1> QED BY <1>2, WireAssumption

LEMMA BeginBodyKeeps ==
  ASSUME CInv, BeginBody
  PROVE  CInv' /\ Conserved
<1>1. /\ Accepted /\ UNCHANGED parser /\ UNCHANGED semantics /\ UNCHANGED chunked /\ unread' = unread
      /\ tail' = IF at' = "eof" THEN <<>> ELSE AfterHead
  BY DEF BeginBody, peer
<1>2. /\ Held = AfterHead /\ AfterHead \in Seq(Byte) /\ phase = P!DONE /\ body = <<>>
      /\ HeadBytes \in Seq(Byte) /\ Own = HeadBytes \o AfterHead
      /\ state = D!CHUNK_SIZE /\ bytes_left_in_chunk = 0 /\ d_pc = "ready" /\ consumed = <<>>
  BY <1>1, AcceptedAt
<1>3. HeadOK' /\ SemanticsOK' /\ HeadBytes' = HeadBytes
  BY <1>1, <1>2, HeadSame, SemanticsSame DEF CInv
<1>4. /\ state' # D!CHUNK_DONE /\ bytes_left_in_chunk' \in Nat /\ d_pc' = "ready" /\ consumed' = <<>>
  BY <1>1, <1>2, ChunkStatesDiffer DEF chunked
<1>5. CASE at' = "chunked"
  <2>1. IdleOK' /\ RestOK' BY <1>5 DEF IdleOK, RestOK
  <2>2. ChunkedOK' BY <1>1, <1>2, <1>4, <1>5, EmptyByte DEF ChunkedOK
  <2>3. CInv' BY <1>1, <1>3, <2>1, <2>2 DEF CInv
  <2>5. Pending' = AfterHead BY <1>1, <1>4, <1>5 DEF Pending
  <2>6. consumed' \o Pending' = AfterHead BY <1>2, <1>4, <2>5, EmptyByte
  <2>7. Own' = Own BY <1>2, <1>3, <1>5, <2>3, <2>6, OwnNext, Zenon
  <2> QED BY <1>1, <2>3, <2>7, Kept
<1>6. CASE at' = "fixed"
  <2>1. body' = <<>> /\ remaining' \in Nat
    <3>1. body' = body /\ out.body_mode = S!IHTP_BODY_FIXED /\ F!fixed_decoder_init
      BY <1>6 DEF BeginBody
    <3>2. remaining' = DigitValue[out.content_length] BY <3>1 DEF F!fixed_decoder_init
    <3> QED BY <1>1, <1>2, <3>1, <3>2, FixedLength
  <2>2. IdleOK' /\ ChunkedOK' BY <1>6 DEF IdleOK, ChunkedOK
  <2>3. RestOK' BY <1>1, <1>2, <1>6, <2>1, EmptyByte DEF RestOK
  <2>4. CInv' BY <1>1, <1>3, <2>2, <2>3 DEF CInv
  <2>6. tail' = AfterHead BY <1>1, <1>6
  <2>7. HeadBytes' \o body' = HeadBytes BY <1>2, <1>3, <2>1, EmptyByte
  <2>8. Own' = Own BY <1>2, <1>6, <2>4, <2>6, <2>7, OwnNext, Zenon
  <2> QED BY <1>1, <2>4, <2>8, Kept
<1>7. CASE at' = "eof"
  <2>1. body' = AfterHead /\ tail' = <<>> BY <1>1, <1>7 DEF BeginBody
  <2>2. IdleOK' /\ ChunkedOK' BY <1>7 DEF IdleOK, ChunkedOK
  <2>3. RestOK' BY <1>2, <1>7, <2>1 DEF RestOK
  <2>4. CInv' BY <1>1, <1>3, <2>2, <2>3 DEF CInv
  <2>6. Own' = Own BY <1>2, <1>3, <1>7, <2>1, <2>4, OwnNext
  <2> QED BY <1>1, <2>4, <2>6, Kept
<1> QED BY <1>5, <1>6, <1>7 DEF BeginBody

-----------------------------------------------------------------------------
(* A chunked body.                                                         *)

LEMMA ChunkedSame ==
  ASSUME CInv, at = "chunked", at' = "chunked", UNCHANGED <<parser, semantics, unread>>, ChunkedOK',
         consumed' \o Pending' = consumed \o Pending
  PROVE  CInv' /\ Conserved
<1>1. HeadOK' /\ SemanticsOK' /\ HeadBytes' = HeadBytes
  BY HeadSame, SemanticsSame DEF CInv, HeadOK
<1>2. IdleOK' /\ RestOK' BY DEF IdleOK, RestOK
<1>3. CInv' BY <1>1, <1>2 DEF CInv
<1>4. Own = HeadBytes \o (consumed \o Pending) BY OwnAtBody
<1>5. Own' = Own BY <1>1, <1>3, <1>4, OwnNext, Zenon
<1> QED BY <1>3, <1>5, Kept

LEMMA DecodeChunkedKeeps ==
  ASSUME CInv, DecodeChunked
  PROVE  CInv' /\ Conserved
<1>1. /\ at = "chunked" /\ at' = "chunked" /\ UNCHANGED <<parser, semantics, unread>>
      /\ d_pc = "ready" /\ state # D!CHUNK_DONE /\ D!Call(tail) /\ tail' = <<>>
  BY DEF DecodeChunked, peer
<1>2. /\ d_pc' = "decoding" /\ d_buf' = tail /\ input' = tail /\ avail' = Len(tail) /\ src' = 0 /\ dst' = 0
      /\ UNCHANGED <<state, bytes_left_in_chunk, consumed>> /\ Len(consumed) + Len(tail) <= MaxWire
  BY <1>1 DEF D!Call, D!decoder
<1>3. bytes_left_in_chunk \in Nat /\ consumed \in Seq(Byte) /\ tail \in Seq(Byte)
  BY <1>1 DEF CInv, ChunkedOK
<1>4. Len(tail) \in Nat /\ Len(consumed) \in Nat /\ tail \in [1..Len(tail) -> Byte]
  BY <1>3, LenProperties
<1>5. Len(tail) <= MaxWire
  BY <1>2, <1>4, WireAssumption
<1>6. CallOK'
  BY <1>1, <1>2, <1>3, <1>4, <1>5 DEF CallOK
<1>7. ChunkedOK'
  BY <1>1, <1>2, <1>3, <1>6, EmptyByte DEF ChunkedOK
<1>8. Pending' = Pending
  BY <1>1, <1>2 DEF Pending
<1>9. consumed' \o Pending' = consumed \o Pending BY <1>2, <1>8
<1> QED BY <1>1, <1>7, <1>9, ChunkedSame

LEMMA ChunkedStepKeeps ==
  ASSUME CInv, ChunkedStep
  PROVE  CInv' /\ Conserved
<1>1. /\ at = "chunked" /\ at' = "chunked" /\ UNCHANGED <<parser, semantics, unread>> /\ tail' = tail
      /\ D!Step
  BY DEF ChunkedStep, peer
<1>2. d_pc = "decoding"
  BY <1>1 DEF D!Step, D!ChunkSize, D!ChunkExt, D!ChunkSizeLF, D!ChunkData, D!ChunkDataCR, D!ChunkDataLF,
              D!ChunkTrailer, D!ChunkDone, D!NeedMore, D!At
<1>3. Decoding /\ CallOK
  BY <1>1, <1>2 DEF CInv, ChunkedOK, Decoding
<1>4. Outcome BY <1>1, <1>3, DecoderOutcome
<1>5. Pending = input BY <1>2 DEF Pending
<1>6. consumed \in Seq(Byte) /\ input \in Seq(Byte) /\ avail = Len(input) /\ tail = <<>>
  BY <1>3 DEF Decoding, CallOK
<1>7. consumed \o input \in Seq(Byte) BY <1>6, ConcatProperties
<1>8. bytes_left_in_chunk' \in Nat BY <1>4 DEF Outcome
<1>9. CASE GoesOn
  <2>1. CallOK' BY <1>1, <1>3, <1>9 DEF CallOK, GoesOn
  <2>2. ChunkedOK' BY <1>1, <1>6, <1>8, <1>9, <2>1, EmptyByte DEF ChunkedOK, GoesOn
  <2>3. consumed' \o Pending' = consumed \o Pending BY <1>5, <1>9 DEF GoesOn, Pending
  <2> QED BY <1>1, <2>2, <2>3, ChunkedSame
<1>10. CASE Rejects
  <2>1. ChunkedOK' BY <1>1, <1>3, <1>6, <1>8, <1>10, EmptyByte DEF ChunkedOK, Rejects, CallOK
  <2>2. HeadOK' /\ SemanticsOK' BY <1>1, HeadSame, SemanticsSame DEF CInv, HeadOK
  <2>3. IdleOK' /\ RestOK' BY <1>1 DEF IdleOK, RestOK
  <2>4. CInv' BY <1>1, <2>1, <2>2, <2>3 DEF CInv
  <2>5. Refused' BY <1>1, <1>10 DEF Refused, Rejects
  <2> QED BY <2>4, <2>5 DEF Conserved
<1>11. CASE \E read \in 1..avail : Completes(read)
  <2>1. PICK read \in 1..avail : Completes(read) BY <1>11
  <2> DEFINE x == SubSeq(input, 1, read)
             y == SubSeq(input, read + 1, Len(input))
  <2>2. /\ d_pc' = "ready" /\ state' = D!CHUNK_DONE /\ consumed' = consumed \o x /\ Trailing' = y
    BY <1>6, <2>1 DEF Completes
  <2>3. read \in 0..Len(input) BY <1>6, <2>1 DEF Completes
  <2>4. x \in Seq(Byte) /\ y \in Seq(Byte) BY <1>6, <2>3, Cut
  <2>5. (consumed \o x) \o y = consumed \o input BY <1>6, <2>3, Rejoined, Zenon
  <2> HIDE DEF x, y
  <2>6. consumed' \in Seq(Byte) BY <1>6, <2>2, <2>4, ConcatProperties
  <2>7. ChunkedOK' BY <1>1, <1>6, <1>8, <2>2, <2>4, <2>6, EmptyByte DEF ChunkedOK
  <2>8. Pending' = y BY <2>2 DEF Pending
  <2>9. consumed' \o Pending' = consumed \o Pending BY <1>5, <2>2, <2>5, <2>8, Zenon
  <2> QED BY <1>1, <2>7, <2>9, ChunkedSame
<1>12. CASE Exhausts
  <2>1. d_pc' = "ready" /\ state' # D!CHUNK_DONE /\ consumed' = consumed \o input
    BY <1>3, <1>12 DEF Exhausts, CallOK
  <2>2. consumed' \in Seq(Byte) BY <1>7, <2>1
  <2>3. ChunkedOK' BY <1>1, <1>6, <1>8, <2>1, <2>2, EmptyByte DEF ChunkedOK
  <2>4. Pending' = <<>> BY <1>1, <1>6, <2>1 DEF Pending
  <2>5. consumed' \o Pending' = consumed' BY <2>2, <2>4, EmptyByte
  <2>6. consumed' \o Pending' = consumed \o Pending BY <1>5, <2>1, <2>5, Zenon
  <2> QED BY <1>1, <2>3, <2>6, ChunkedSame
<1> QED BY <1>4, <1>9, <1>10, <1>11, <1>12 DEF Outcome

LEMMA ChunkedDoneKeeps ==
  ASSUME CInv, ChunkedDone
  PROVE  CInv' /\ Conserved
<1>1. at = "chunked" /\ d_pc = "ready" /\ state = D!CHUNK_DONE /\ unread' = unread
  BY DEF ChunkedDone, peer
<1>2. Held = Trailing /\ Trailing \in Seq(Byte) /\ consumed \in Seq(Byte)
  BY <1>1 DEF Held, CInv, ChunkedOK
<1>3. CASE Finish(body, Trailing)
  <2>1. Finish(body, Held) /\ Held \in Seq(Byte) BY <1>2, <1>3
  <2> QED BY <1>1, <2>1, FinishKeeps
<1>4. CASE at' = "trailer" /\ tail' = Trailing /\ UNCHANGED <<parser, semantics, chunked, body, log, dangling, moved>>
  <2>1. HeadOK' /\ SemanticsOK' /\ HeadBytes' = HeadBytes
    BY <1>1, <1>4, HeadSame, SemanticsSame DEF CInv, HeadOK
  <2>2. consumed' = consumed BY <1>4 DEF chunked
  <2>3. IdleOK' /\ ChunkedOK' /\ RestOK' BY <1>2, <1>4, <2>2 DEF IdleOK, ChunkedOK, RestOK
  <2>4. CInv' BY <1>1, <2>1, <2>3 DEF CInv
  <2>5. Own = HeadBytes \o (consumed \o Pending) /\ Pending = Trailing
    BY <1>1, OwnAtBody DEF Pending
  <2>6. Own' = HeadBytes' \o (consumed' \o tail') BY <1>4, <2>4, OwnNext
  <2>7. Own' = Own BY <1>4, <2>1, <2>2, <2>5, <2>6, Zenon
  <2> QED BY <1>1, <2>4, <2>7, Kept
<1> QED BY <1>3, <1>4 DEF ChunkedDone

LEMMA SkipTrailerKeeps ==
  ASSUME CInv, SkipTrailer
  PROVE  CInv' /\ Conserved
<1>1. at = "trailer" /\ unread' = unread BY DEF SkipTrailer, peer
<1>2. PICK e \in TrailerEnd : Finish(body, SubSeq(tail, e + 1, Len(tail))) BY DEF SkipTrailer
<1>3. tail \in Seq(Byte) BY <1>1 DEF CInv, RestOK
<1>4. Section = e /\ Section \in 0..Len(tail) BY <1>2, <1>3, SectionInside
<1>5. Held = SubSeq(tail, Section + 1, Len(tail)) BY <1>1 DEF Held
<1>6. Held \in Seq(Byte) BY <1>3, <1>4, <1>5, Cut
<1>7. Finish(body, Held) BY <1>2, <1>4, <1>5
<1> QED BY <1>1, <1>6, <1>7, FinishKeeps

-----------------------------------------------------------------------------
(* A body of fixed length, and one that ends with the connection.          *)

LEMMA DecodeFixedKeeps ==
  ASSUME CInv, DecodeFixed
  PROVE  CInv' /\ Conserved
<1>1. at = "fixed" /\ at' = "fixed" /\ UNCHANGED <<parser, semantics, unread>>
  BY DEF DecodeFixed, peer
<1>2. remaining \in Nat /\ body \in Seq(Byte) /\ tail \in Seq(Byte) /\ Len(tail) \in Nat
  BY <1>1, LenProperties DEF CInv, RestOK
<1>3. PICK n \in {IF Len(tail) < remaining THEN Len(tail) ELSE remaining} :
        F!Counted(n) /\ body' = body \o SubSeq(tail, 1, n) /\ tail' = SubSeq(tail, n + 1, Len(tail))
  BY DEF DecodeFixed
<1>4. n \in 0..Len(tail) BY <1>2, <1>3
<1>5. remaining' \in Nat
  <2>1. remaining' = (remaining - n) % 16 BY <1>3 DEF F!Counted, F!Wrapped
  <2> DEFINE r == remaining - n
  <2>2. r \in Int BY <1>2, <1>4
  <2> HIDE DEF r
  <2>3. r % 16 \in Nat BY <2>2
  <2> QED BY <2>1, <2>3 DEF r
<1> DEFINE x == SubSeq(tail, 1, n)
           y == SubSeq(tail, n + 1, Len(tail))
<1>6. x \in Seq(Byte) /\ y \in Seq(Byte) BY <1>2, <1>4, Cut
<1>8. body' = body \o x /\ tail' = y BY <1>3
<1> HIDE DEF x, y
<1>9. body' \in Seq(Byte) /\ tail' \in Seq(Byte) BY <1>2, <1>6, <1>8, ConcatProperties
<1>10. RestOK' /\ IdleOK' /\ ChunkedOK' BY <1>1, <1>5, <1>9 DEF RestOK, IdleOK, ChunkedOK
<1>11. HeadOK' /\ SemanticsOK' /\ HeadBytes' = HeadBytes
  BY <1>1, HeadSame, SemanticsSame DEF CInv, HeadOK
<1>12. CInv' BY <1>1, <1>10, <1>11 DEF CInv
<1>13. Own = (HeadBytes \o body) \o tail BY <1>1, OwnAtBody
<1>14. Own' = (HeadBytes \o (body \o x)) \o y BY <1>1, <1>8, <1>11, <1>12, OwnNext
<1>15. HeadBytes \in Seq(Byte) BY <1>1, HeadCut DEF CInv
<1>16. Own' = Own
  <2>1. body \in Seq(Byte) /\ tail \in Seq(Byte) BY <1>2
  <2>2. (HeadBytes \o (body \o x)) \o y = (HeadBytes \o body) \o tail
    BY <1>4, <1>15, <2>1, RejoinedInside, Zenon DEF x, y
  <2> QED BY <1>13, <1>14, <2>2, Zenon
<1> QED BY <1>1, <1>12, <1>16, Kept

LEMMA FixedDoneKeeps ==
  ASSUME CInv, FixedDone
  PROVE  CInv' /\ Conserved
<1>1. at = "fixed" /\ Finish(body, tail) /\ unread' = unread BY DEF FixedDone, peer
<1>2. Held = tail BY <1>1 DEF Held
<1>3. Held \in Seq(Byte) /\ Finish(body, Held) BY <1>1, <1>2 DEF CInv, RestOK
<1> QED BY <1>1, <1>3, FinishKeeps

LEMMA PeerClosesKeeps ==
  ASSUME CInv, PeerCloses
  PROVE  CInv' /\ Conserved
<1>1. unread' = unread BY DEF PeerCloses, peer
<1>2. CASE at = "eof" /\ Finish(body, <<>>)
  <2>1. Held = <<>> BY <1>2 DEF Held, CInv, RestOK
  <2>2. Held \in Seq(Byte) BY <2>1, EmptyByte
  <2>3. Finish(body, Held) BY <1>2, <2>1
  <2> QED BY <1>1, <1>2, <2>2, <2>3, FinishKeeps
<1>3. CASE at' = "closed" /\ UNCHANGED <<parser, semantics>>
  BY <1>1, <1>3, ClosedKeeps
<1> QED BY <1>2, <1>3 DEF PeerCloses

-----------------------------------------------------------------------------
(* More bytes are read.                                                    *)

LEMMA ReadGrows ==
  ASSUME CInv, NEW n \in 1..Len(unread), unread' = SubSeq(unread, n + 1, Len(unread)),
         Own \in Seq(Byte), Own' = Own \o SubSeq(unread, 1, n)
  PROVE  Conserved
<1>1. unread \in Seq(Byte) /\ n \in 0..Len(unread) BY DEF CInv
<1>2. (Own \o SubSeq(unread, 1, n)) \o SubSeq(unread, n + 1, Len(unread)) = Own \o unread
  BY <1>1, Rejoined, Zenon
<1>3. Own' \o unread' = Own \o unread BY <1>2, Zenon
<1> QED BY <1>3, Zenon DEF Conserved, Own

LEMMA ReadKeeps ==
  ASSUME CInv, NEW n, Read(n)
  PROVE  CInv' /\ Conserved
<1> DEFINE x == SubSeq(unread, 1, n)
<1>1. /\ Starved /\ n \in 1..Len(unread) /\ unread' = SubSeq(unread, n + 1, Len(unread))
      /\ UNCHANGED <<semantics, chunked, fixed>> /\ at' = at
  BY DEF Read
<1>2. unread' \in Seq(Byte) /\ x \in Seq(Byte)
  <2>1. unread \in Seq(Byte) /\ n \in 0..Len(unread) BY <1>1 DEF CInv
  <2> QED BY <1>1, <2>1, Cut
<1> HIDE DEF x
<1>3. SemanticsOK' BY <1>1, SemanticsSame DEF CInv
<1>4. CASE at = "head"
  <2>1. P!Receive(x) /\ tail' = tail /\ body' = body BY <1>4 DEF Read, x
  <2>2. buf' = buf \o x /\ UNCHANGED <<phase, cursor, num_headers, pos, count, bytes_consumed>>
    BY <2>1 DEF P!Receive, P!state, P!outputs, P!call, P!result
  <2>3. buf \in Seq(Byte) /\ Own = buf BY <1>4, OwnAtHead DEF CInv, HeadOK
  <2>4. buf' \in Seq(Byte) /\ Len(buf') = Len(buf) + Len(x) /\ Len(x) \in Nat /\ Len(buf) \in Nat
    BY <1>2, <2>2, <2>3, ConcatProperties, LenProperties
  <2>5. HeadOK' BY <1>1, <1>4, <2>2, <2>4 DEF CInv, HeadOK
  <2>6. IdleOK' BY <1>1, <1>4, <2>1 DEF CInv, IdleOK, chunked
  <2>7. ChunkedOK' /\ RestOK' BY <1>1, <1>4 DEF ChunkedOK, RestOK
  <2>8. CInv' BY <1>2, <1>3, <2>5, <2>6, <2>7 DEF CInv
  <2>9. Own' = Own \o x BY <1>1, <1>4, <2>2, <2>3, <2>8, OwnNext
  <2>10. Conserved BY <1>1, <2>3, <2>9, ReadGrows DEF x
  <2> QED BY <2>8, <2>10
<1>5. ASSUME at # "head" PROVE UNCHANGED parser BY <1>5 DEF Read
<1>6. CASE at = "eof"
  <2>1. body' = body \o x /\ tail' = tail BY <1>6 DEF Read, x
  <2>2. body \in Seq(Byte) /\ tail = <<>> BY <1>6 DEF CInv, RestOK
  <2>3. HeadOK' /\ HeadBytes' = HeadBytes BY <1>1, <1>5, <1>6, HeadSame DEF CInv, HeadOK
  <2>4. body' \in Seq(Byte) BY <1>2, <2>1, <2>2, ConcatProperties
  <2>5. IdleOK' /\ ChunkedOK' /\ RestOK' BY <1>1, <1>6, <2>1, <2>2, <2>4 DEF IdleOK, ChunkedOK, RestOK
  <2>6. CInv' BY <1>2, <1>3, <2>3, <2>5 DEF CInv
  <2>7. HeadBytes \in Seq(Byte) BY <1>6, HeadCut DEF CInv
  <2>8. Own = HeadBytes \o body BY <1>6, OwnAtBody
  <2>9. Own' = HeadBytes \o (body \o x) BY <1>1, <1>6, <2>1, <2>3, <2>6, OwnNext
  <2>10. (HeadBytes \o body) \o x = HeadBytes \o (body \o x)
    <3>1. body \in Seq(Byte) /\ x \in Seq(Byte) BY <1>2, <2>2
    <3> QED BY <2>7, <3>1, ConcatAssociative, SMTT(30)
  <2>11. Own' = Own \o x BY <2>8, <2>9, <2>10, Zenon
  <2>12. Own \in Seq(Byte) BY <2>2, <2>7, <2>8, ConcatProperties
  <2>13. Conserved BY <1>1, <2>11, <2>12, ReadGrows DEF x
  <2> QED BY <2>6, <2>13
<1>7. CASE at \in {"chunked", "trailer", "fixed"}
  <2>1. tail' = tail \o x /\ body' = body BY <1>7 DEF Read, x
  <2>2. tail \in Seq(Byte) BY <1>7 DEF CInv, RestOK, ChunkedOK
  <2>3. HeadOK' /\ HeadBytes' = HeadBytes BY <1>1, <1>5, <1>7, HeadSame DEF CInv, HeadOK
  <2>4. tail' \in Seq(Byte) BY <1>2, <2>1, <2>2, ConcatProperties
  <2>5. HeadBytes \in Seq(Byte) BY <1>7, HeadCut DEF CInv
  <2>6. IdleOK' BY <1>1, <1>7 DEF IdleOK
  <2>7. at = "chunked" => d_pc = "ready" /\ state # D!CHUNK_DONE BY <1>1 DEF Starved
  <2>8. UNCHANGED <<consumed, d_pc, state, bytes_left_in_chunk, remaining>> BY <1>1 DEF chunked, fixed
  <2>9. ChunkedOK' BY <1>1, <1>7, <2>4, <2>7, <2>8 DEF CInv, ChunkedOK
  <2>10. RestOK' BY <1>1, <1>7, <2>1, <2>4, <2>8 DEF CInv, RestOK
  <2>11. CInv' BY <1>2, <1>3, <2>3, <2>6, <2>9, <2>10 DEF CInv
  <2>12. \E h \in Seq(Byte) : Own = h \o tail /\ Own' = h \o tail'
    <3>1. CASE at = "fixed"
      <4>1. body \in Seq(Byte) BY <3>1 DEF CInv, RestOK
      <4>2. HeadBytes \o body \in Seq(Byte) BY <2>5, <4>1, ConcatProperties
      <4>3. Own = (HeadBytes \o body) \o tail BY <3>1, OwnAtBody
      <4>4. Own' = (HeadBytes \o body) \o tail' BY <1>1, <2>1, <2>3, <2>11, <3>1, OwnNext
      <4> QED BY <4>2, <4>3, <4>4, Zenon
    <3>2. CASE at \in {"chunked", "trailer"}
      <4>1. consumed \in Seq(Byte) BY <3>2 DEF CInv, RestOK, ChunkedOK
      <4>2. HeadBytes \o consumed \in Seq(Byte) BY <2>5, <4>1, ConcatProperties
      <4>3. Own = HeadBytes \o (consumed \o tail) BY <2>7, <3>2, OwnAtBody DEF Pending
      <4>4. Own' = HeadBytes \o (consumed \o tail')
        <5>1. at = "chunked" => Pending' = tail' BY <2>7, <2>8 DEF Pending
        <5> QED BY <1>1, <2>3, <2>8, <2>11, <3>2, <5>1, OwnNext
      <4>5. (HeadBytes \o consumed) \o tail = HeadBytes \o (consumed \o tail)
        BY <2>2, <2>5, <4>1, ConcatAssociative, SMTT(30)
      <4>6. (HeadBytes \o consumed) \o tail' = HeadBytes \o (consumed \o tail')
        BY <2>4, <2>5, <4>1, ConcatAssociative, SMTT(30)
      <4> QED BY <4>2, <4>3, <4>4, <4>5, <4>6, Zenon
    <3> QED BY <1>7, <3>1, <3>2
  <2>13. PICK h \in Seq(Byte) : Own = h \o tail /\ Own' = h \o tail' BY <2>12
  <2>14. (h \o tail) \o x = h \o (tail \o x)
    <3>1. x \in Seq(Byte) BY <1>2
    <3> QED BY <2>2, <3>1, ConcatAssociative, SMTT(30)
  <2>15. Own' = Own \o x BY <2>1, <2>13, <2>14, Zenon
  <2>16. Own \in Seq(Byte) BY <2>2, <2>13, ConcatProperties
  <2>17. Conserved BY <1>1, <2>15, <2>16, ReadGrows DEF x
  <2> QED BY <2>11, <2>17
<1> QED BY <1>1, <1>4, <1>6, <1>7 DEF Starved

-----------------------------------------------------------------------------
LEMMA InitCInv == Init => CInv
<1> SUFFICES ASSUME Init PROVE CInv OBVIOUS
<1>1. unread \in Seq(Byte) BY WireAssumption DEF Init, Byte
<1>2. HeadOK
  <2>1. phase # P!DONE BY DEF Init, P!FirstPhase, P!DONE, P!HEADERS, P!START_LINE
  <2> QED BY <2>1, EmptyByte DEF Init, HeadOK
<1>3. SemanticsOK
  <2>1. FramedOK(out) BY DEF Init, FramedOK, S!Fresh
  <2> QED BY <2>1 DEF Init, SemanticsOK
<1>4. IdleOK /\ ChunkedOK /\ RestOK BY DEF Init, IdleOK, ChunkedOK, RestOK
<1> QED BY <1>1, <1>2, <1>3, <1>4 DEF CInv

LEMMA StepKeeps ==
  ASSUME CInv, Next
  PROVE  CInv' /\ Conserved
<1>1. CASE Close \/ Lose
  <2>1. UNCHANGED <<parser, semantics, unread>> /\ at' = "closed" BY <1>1 DEF Close, Lose, peer
  <2> QED BY <2>1, ClosedKeeps
<1> QED BY <1>1, ReadKeeps, ParseStepKeeps, SemanticsKeeps, HandOverKeeps, NoBodyKeeps, BeginBodyKeeps,
           DecodeChunkedKeeps, ChunkedStepKeeps, ChunkedDoneKeeps, SkipTrailerKeeps, DecodeFixedKeeps,
           FixedDoneKeeps, PeerClosesKeeps, MoveKeeps DEF Next, GoOn

LEMMA StutterKeeps ==
  ASSUME CInv, UNCHANGED vars
  PROVE  CInv'
<1>1. /\ UNCHANGED parser /\ UNCHANGED semantics /\ UNCHANGED chunked /\ UNCHANGED fixed
      /\ UNCHANGED <<at, tail, body, unread>>
  BY DEF vars, consumer, peer
<1>2. HeadOK' BY <1>1 DEF CInv, HeadOK, parser
<1>3. SemanticsOK' BY <1>1, SemanticsSame DEF CInv
<1>4. IdleOK' BY <1>1 DEF CInv, IdleOK, chunked
<1>5. ChunkedOK' BY <1>1 DEF CInv, ChunkedOK, CallOK, Trailing, chunked
<1>6. RestOK' BY <1>1 DEF CInv, RestOK, chunked, fixed
<1> QED BY <1>1, <1>2, <1>3, <1>4, <1>5, <1>6 DEF CInv

(* Whatever a peer sends, however it is cut and wherever the connection    *)
(* breaks: parser, semantics layer and decoders keep the invariant their   *)
(* hand-overs rest on (ihtp_parser.c:669, ihtp_semantics.c:370-377,        *)
(* ihtp_body_decoder.c:112-117).                                           *)
THEOREM HandOversSound == Spec => []CInv
<1>1. CInv /\ [Next]_vars => CInv' BY StepKeeps, StutterKeeps
<1> QED BY InitCInv, <1>1, PTL DEF Spec

(* And no byte is lost, used twice or overtaken between them: each step    *)
(* passes bytes on in order or takes a whole message and leaves everything *)
(* behind it as it was (bench_extended_contract.c:192-197 and 243-247).    *)
THEOREM NoByteLost == Spec => BytesConserved
<1>1. CInv /\ [Next]_vars => [Conserved]_vars BY StepKeeps
<1>2. Spec => [][Conserved]_vars BY <1>1, HandOversSound, PTL DEF Spec
<1> QED BY <1>2 DEF BytesConserved, Conserved
=============================================================================
