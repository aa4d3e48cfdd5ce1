------------------------------ MODULE Connection ------------------------------
(***************************************************************************)
(* A consumer of the library on one connection: the parser, the semantics  *)
(* layer and the body decoders called one after the other over a stream of *)
(* messages, as bench/bench_extended_contract.c and the examples call them *)
(* and docs/en/05-consumer-contracts.md requires.  The components are the  *)
(* modules that model them; this one adds what passes between them.  The   *)
(* consumer reads the socket in pieces of any size, only when it cannot go *)
(* on without; it may move its buffer in the middle of a head; the         *)
(* connection may be lost.                                                 *)
(***************************************************************************)
EXTENDS Integers, Sequences, FiniteSets

LOCAL INSTANCE SequencesExt

CONSTANTS
  Words,          \* the names, values, methods and codes that are told apart
  Numerals,       \* the words that are numbers of one digit
  DigitValue,     \* and their values
  MaxHeaders(_), MaxRequestLine, MaxHeaderLine, \* limits of the parser
  Wires,          \* what a peer may send, to which consumer
  ReadSizes,      \* how much a read returns, when it does not return all
  MaxWire         \* bound: length of what a peer sends

REQUEST  == "REQUEST"
RESPONSE == "RESPONSE"

(* IHTP_POLICY_IOHTTP and IHTP_POLICY_IOGUARD, the parser's share of them. *)
IHTP_POLICY_STRICT ==
  [reject_obs_fold |-> TRUE, reject_bare_lf |-> TRUE, allow_spaces_in_uri |-> FALSE]

-----------------------------------------------------------------------------
(* A message as its sender wrote it.                                       *)
StartLine(kind, m) ==
  (IF kind = REQUEST THEN m.start \o <<"SP", "t", "SP", m.version>>
                     ELSE <<m.version, "SP">> \o m.start \o <<"SP", "t">>) \o <<"CR", "LF">>

FieldLine(f) == f[1] \o <<":", "SP">> \o f[2] \o <<"CR", "LF">>

Encoded(kind, m) ==
  StartLine(kind, m) \o FlattenSeq([k \in DOMAIN m.fields |-> FieldLine(m.fields[k])])
    \o <<"CR", "LF">> \o m.coded

Stream(kind, sent) == FlattenSeq([k \in DOMAIN sent |-> Encoded(kind, sent[k])])

-----------------------------------------------------------------------------
VARIABLES
  \* the parser, its outputs and its call (MessageParser)
  mode, phase, cursor, start, headers, num_headers, buf, policy, stateless,
  pc, pos, count, status, bytes_consumed, seen, max_headers,
  \* the semantics layer (Semantics)
  message, out, s_pc, i, loc, s_status, clears,
  \* the chunked decoder (ChunkedDecoder)
  state, hex_count, bytes_left_in_chunk, total_decoded, consume_trailer,
  d_pc, d_buf, avail, src, dst, d_status, bufsz, input, consumed, delivered, declared, taken,
  \* the fixed-length decoder (FixedBody)
  remaining, f_total, f_status, counted,
  \* the consumer: what it is at, bytes it has read and not used, the body so far
  at, tail, body,
  \* the messages it has taken, and the spans that point into a freed buffer
  log, dangling, moved,
  \* the peer and the network
  wire, unread, lost

(* No bound on the accumulated buffer; slices are what Read takes.         *)
Room(m, s)     == MaxWire
NoPieces(m, s) == {}

P == INSTANCE MessageParser WITH
  Modes <- {REQUEST, RESPONSE}, Policies <- {IHTP_POLICY_STRICT}, Stateless <- {FALSE},
  Slices <- NoPieces, MaxBuffer <- Room

NoHeads(c) == {}

Powers == [n \in 0..4 |-> <<1, 16, 256, 4096, 65536>>[n + 1]]

S == INSTANCE Semantics WITH
  ClearsOutputs <- {TRUE}, Kinds <- NoHeads, Heads <- NoHeads,
  StatusCodes <- {"101", "204", "200"}, RejectTeCl <- {TRUE},
  pc <- s_pc, status <- s_status

D == INSTANCE ChunkedDecoder WITH
  HexDigits <- Numerals, HexValue <- DigitValue, OtherBytes <- P!Bytes \ (Numerals \cup {"CR", "LF"}),
  MaxHexDigits <- 4, Pow16 <- Powers, IntMax <- MaxWire, Slices <- {},
  RetryAfterError <- FALSE, pc <- d_pc, buf <- d_buf, status <- d_status

F == INSTANCE FixedBody WITH
  UINT64_MAX <- 15, MaxDigits <- 1, Pieces <- {}, i <- 0, stage <- "body",
  result <- DigitValue[out.content_length], exact <- DigitValue[out.content_length],
  total_decoded <- f_total, status <- f_status

ASSUME WireAssumption ==
  /\ Numerals \subseteq Words /\ DigitValue \in [Numerals -> 0..9]
  /\ ReadSizes \subseteq Nat \ {0} /\ MaxWire \in Nat
  /\ \A w \in Wires : /\ w.kind \in {REQUEST, RESPONSE} /\ w.consume_trailer \in BOOLEAN
                      /\ Stream(w.kind, w.sent) \in Seq(P!Bytes)
                      /\ Len(Stream(w.kind, w.sent)) <= MaxWire

parser    == <<mode, phase, cursor, start, headers, num_headers, buf, policy, stateless,
               pc, pos, count, status, bytes_consumed, seen, max_headers>>
semantics == <<message, out, s_pc, i, loc, s_status, clears>>
chunked   == <<state, hex_count, bytes_left_in_chunk, total_decoded, consume_trailer,
               d_pc, d_buf, avail, src, dst, d_status, bufsz,
               input, consumed, delivered, declared, taken>>
fixed     == <<remaining, f_total, f_status, counted>>
consumer  == <<at, tail, body, log, dangling, moved>>
peer      == <<wire, unread, lost>>
vars      == <<parser, semantics, chunked, fixed, consumer, peer>>

Text(s) == SubSeq(buf, s.at + 1, s.at + s.len)

-----------------------------------------------------------------------------
(* From the parser's outputs to the message the semantics layer reads.     *)

Names == {"transfer-encoding", "content-length", "connection", "upgrade", "host", "expect", "trailer"}

FieldName(text) == IF Len(text) = 1 /\ text[1] \in Names THEN text[1] ELSE "x"

(* A value is one part: the wires have no commas.                          *)
FieldValue(name, text) ==
  IF text = <<>> THEN <<>>
  ELSE IF Len(text) = 1 /\ text[1] \in (IF name = "content-length" THEN Numerals ELSE P!Token)
       THEN text
       ELSE <<"bad">>

Field(h) ==
  LET name == FieldName(Text(h.name)) IN [name |-> name, value |-> FieldValue(name, Text(h.value))]

Methods == {"GET", "PUT", "POST", "HEAD", "PATCH", "TRACE", "DELETE", "OPTIONS", "CONNECT"}

(* ihtp_method_from_str                                                    *)
method_from_str(text) == IF Len(text) = 1 /\ text[1] \in Methods THEN text[1] ELSE "UNKNOWN"

Parsed ==
  S!Message(mode, IF start.version = "V11" THEN "1.1" ELSE "1.0",
            IF mode = REQUEST THEN "none" ELSE start.status_code,
            [k \in 1..num_headers |-> Field(headers[k])], TRUE)

(* What the consumer reads in the head it was given; a span into a buffer  *)
(* that has been freed reads as anything.                                  *)
ReadSpan(k, s) == IF k \in dangling THEN <<"freed">> ELSE Text(s)

Entry(payload) ==
  [start  |-> IF mode = REQUEST THEN ReadSpan(0, start.method) ELSE <<start.status_code>>,
   fields |-> [k \in 1..num_headers |-> <<ReadSpan(k, headers[k].name), ReadSpan(k, headers[k].value)>>],
   body   |-> payload]

-----------------------------------------------------------------------------
Blank == <<"CR", "LF", "CR", "LF">>

(* strstr(tail, "\r\n\r\n"): where the blank line ends, as a set.          *)
TrailerEnd ==
  {e \in 4..Len(tail) : /\ SubSeq(tail, e - 3, e) = Blank
                        /\ \A j \in 4..e - 1 : SubSeq(tail, j - 3, j) # Blank}

(* A piece of a fixed-length body can be reported: bytes have come, or     *)
(* none are needed.                                                        *)
FixedDueBytes == tail # <<>>

FixedDue == tail # <<>> \/ remaining = 0

(* The consumer cannot go on without more bytes.                           *)
Starved ==
  \/ at = "head" /\ pc = "ready" /\ seen = Len(buf) /\ phase \in {P!START_LINE, P!HEADERS}
  \/ at = "chunked" /\ d_pc = "ready" /\ tail = <<>> /\ d_status \in {D!IHTP_OK, D!IHTP_INCOMPLETE}
       /\ state # D!CHUNK_DONE
  \/ at = "fixed" /\ ~FixedDue
  \/ at = "trailer" /\ TrailerEnd = {}
  \/ at = "eof"

Read(n) ==
  /\ Starved /\ n \in 1..Len(unread)
  /\ unread' = SubSeq(unread, n + 1, Len(unread))
  /\ LET piece == SubSeq(unread, 1, n) IN
     \/ at = "head" /\ P!Receive(piece) /\ UNCHANGED <<tail, body>>
     \/ at = "eof" /\ body' = body \o piece /\ UNCHANGED <<parser, tail>>
     \/ at \notin {"head", "eof"} /\ tail' = tail \o piece /\ UNCHANGED <<parser, body>>
  /\ UNCHANGED <<semantics, chunked, fixed, at, log, dangling, moved, wire, lost>>

(* Slip: the parser goes on in the new buffer with the spans into the old. *)
MoveBufferGoesOn ==
  /\ at = "head" /\ Starved /\ ~moved /\ buf # <<>>
  /\ moved' = TRUE
  /\ dangling' = {k \in 1..num_headers : headers[k] # P!NoHeader}
                   \cup (IF start = P!Cleared THEN {} ELSE {0})
  /\ UNCHANGED <<parser, semantics, chunked, fixed, at, tail, body, log, peer>>

(* The buffer grows and moves in the middle of a head: the spans so far    *)
(* point into the old one, so the parser starts over on the new.           *)
MoveBuffer ==
  /\ at = "head" /\ Starved /\ ~moved /\ buf # <<>>
  /\ moved' = TRUE
  /\ P!ResetTo(buf)
  /\ UNCHANGED <<semantics, chunked, fixed, at, tail, body, log, dangling, peer>>

-----------------------------------------------------------------------------
ParseHead ==
  /\ at = "head" /\ seen < Len(buf) /\ phase \in {P!START_LINE, P!HEADERS}
  /\ P!ParseStateful(mode)
  /\ UNCHANGED <<semantics, chunked, fixed, consumer, peer>>

ParseStep ==
  /\ at = "head" /\ P!Step
  /\ UNCHANGED <<semantics, chunked, fixed, consumer, peer>>

apply_semantics ==
  /\ at = "head" /\ pc = "ready" /\ phase = P!DONE
  /\ S!Apply(Parsed)
  /\ at' = "semantics"
  /\ UNCHANGED <<parser, chunked, fixed, tail, body, log, dangling, moved, peer>>

SemanticsStep ==
  /\ at = "semantics"
  /\ \/ S!TransferEncoding \/ S!ContentLength \/ S!Connection \/ S!Upgrade
     \/ S!Host \/ S!Expect \/ S!Trailer \/ S!OtherField \/ S!Conclude
  /\ UNCHANGED <<parser, chunked, fixed, consumer, peer>>

(* A component refused: the consumer fails closed.                         *)
Refused ==
  \/ at = "head" /\ pc = "ready" /\ phase = P!ERROR
  \/ at = "semantics" /\ s_pc = "done" /\ s_status = "IHTP_ERROR"
  \/ at = "chunked" /\ d_pc = "ready" /\ d_status = D!IHTP_ERROR

Close ==
  /\ Refused
  /\ at' = "closed"
  /\ UNCHANGED <<parser, semantics, chunked, fixed, tail, body, log, dangling, moved, peer>>

-----------------------------------------------------------------------------
Accepted == at = "semantics" /\ s_pc = "done" /\ s_status = "IHTP_OK"

(* A tunnel or another protocol: the bytes after the head are its own.     *)
HandsOver ==
  \/ mode = REQUEST /\ method_from_str(Text(start.method)) = "CONNECT"
  \/ mode = RESPONSE /\ out.protocol_upgrade

(* buf + consumed, to the end of what was read                             *)
AfterHead == SubSeq(buf, bytes_consumed + 1, Len(buf))

HandOver ==
  /\ Accepted /\ HandsOver
  /\ at' = "handed"
  /\ tail' = AfterHead
  /\ log' = Append(log, Entry(<<>>))
  /\ UNCHANGED <<parser, semantics, chunked, fixed, body, dangling, moved, peer>>

(* Slip: one decoder for all the messages of the connection.               *)
FreshDecoderKept == UNCHANGED chunked

(* ihtp_chunked_decoder_t dec = {.consume_trailer = ...}, for a message    *)
FreshDecoder ==
  /\ state' = D!CHUNK_SIZE /\ hex_count' = 0 /\ bytes_left_in_chunk' = 0 /\ total_decoded' = 0
  /\ d_pc' = "ready" /\ d_buf' = <<>> /\ avail' = 0 /\ src' = 0 /\ dst' = 0
  /\ d_status' = D!IHTP_OK /\ bufsz' = 0
  /\ input' = <<>> /\ consumed' = <<>> /\ delivered' = <<>> /\ declared' = 0 /\ taken' = 0
  /\ UNCHANGED consume_trailer

(* The message is whole: either the next one begins with what is left of   *)
(* what was read, in a parser reset and outputs cleared, or it was the     *)
(* last of the connection.                                                 *)
Finish(payload, next) ==
  /\ log' = Append(log, Entry(payload))
  /\ body' = <<>> /\ tail' = <<>> /\ dangling' = {} /\ moved' = FALSE
  /\ FreshDecoder
  /\ \/ /\ out.keep_alive
        /\ at' = "head"
        /\ P!ResetTo(next)
        /\ S!Reuse
     \/ /\ ~out.keep_alive
        /\ at' = "closed"
        /\ UNCHANGED <<parser, semantics>>

NoBody ==
  /\ Accepted /\ ~HandsOver /\ out.body_mode = S!IHTP_BODY_NONE
  /\ Finish(<<>>, AfterHead)
  /\ UNCHANGED <<fixed, peer>>

(* The bytes after the head are copied out for the decoder.                *)
BeginBody ==
  /\ Accepted /\ ~HandsOver
  /\ \/ out.body_mode = S!IHTP_BODY_CHUNKED /\ at' = "chunked" /\ UNCHANGED <<fixed, body>>
     \/ /\ out.body_mode = S!IHTP_BODY_FIXED /\ at' = "fixed" /\ UNCHANGED body
        /\ F!fixed_decoder_init /\ f_status' = "none" /\ counted' = 0
     \/ out.body_mode = S!IHTP_BODY_EOF /\ at' = "eof" /\ body' = AfterHead /\ UNCHANGED fixed
  /\ tail' = IF at' = "eof" THEN <<>> ELSE AfterHead
  /\ UNCHANGED <<parser, semantics, chunked, log, dangling, moved, peer>>

-----------------------------------------------------------------------------
DecodeChunked ==
  /\ at = "chunked" /\ d_pc = "ready" /\ tail # <<>>
  /\ state # D!CHUNK_DONE
  /\ D!Call(tail)
  /\ tail' = <<>>
  /\ UNCHANGED <<parser, semantics, fixed, at, body, log, dangling, moved, peer>>

(* The call goes on; the last step hands the payload to the application.   *)
ChunkedStep ==
  /\ at = "chunked" /\ D!Step
  /\ body' = delivered'
  /\ UNCHANGED <<parser, semantics, fixed, at, tail, log, dangling, moved, peer>>

(* Slip: looked for behind the bytes that were read, not behind the        *)
(* decoded ones.                                                           *)
TrailingAfterRead == SubSeq(d_buf, src + 1, avail)

(* tail + body_len, (size_t)trailing                                       *)
Trailing == SubSeq(d_buf, bufsz + 1, bufsz + d_status)

ChunkedDone ==
  /\ at = "chunked" /\ d_pc = "ready" /\ state = D!CHUNK_DONE /\ d_status >= 0
  /\ \/ consume_trailer /\ Finish(body, Trailing)
     \/ /\ ~consume_trailer
        /\ at' = "trailer" /\ tail' = Trailing
        /\ UNCHANGED <<parser, semantics, chunked, body, log, dangling, moved>>
  /\ UNCHANGED <<fixed, peer>>

(* next = trailer_end + 4                                                  *)
SkipTrailer ==
  /\ at = "trailer"
  /\ \E e \in TrailerEnd : Finish(body, SubSeq(tail, e + 1, Len(tail)))
  /\ UNCHANGED <<fixed, peer>>

(* As much of what was read as belongs to the body is reported.            *)
DecodeFixed ==
  /\ at = "fixed" /\ f_status # "IHTP_OK" /\ FixedDue
  /\ \E n \in {IF Len(tail) < remaining THEN Len(tail) ELSE remaining} :
       /\ F!Counted(n)
       /\ body' = body \o SubSeq(tail, 1, n)
       /\ tail' = SubSeq(tail, n + 1, Len(tail))
  /\ UNCHANGED <<parser, semantics, chunked, at, log, dangling, moved, peer>>

FixedDone ==
  /\ at = "fixed" /\ f_status = "IHTP_OK"
  /\ Finish(body, tail)
  /\ UNCHANGED <<fixed, peer>>

(* The peer has sent all and closes: that ends a body without a length of  *)
(* its own, and what is incomplete is given up.                            *)
PeerCloses ==
  /\ Starved /\ unread = <<>>
  /\ \/ at = "eof" /\ Finish(body, <<>>)
     \/ /\ at # "eof" /\ at' = "closed"
        /\ UNCHANGED <<parser, semantics, chunked, tail, body, log, dangling, moved>>
  /\ UNCHANGED <<fixed, peer>>

(* The connection breaks.                                                  *)
Lose ==
  /\ Starved
  /\ lost' = TRUE /\ at' = "closed"
  /\ UNCHANGED <<parser, semantics, chunked, fixed, tail, body, log, dangling, moved, wire, unread>>

-----------------------------------------------------------------------------
Init ==
  /\ wire \in Wires /\ unread = Stream(wire.kind, wire.sent) /\ lost = FALSE
  /\ at = "head" /\ tail = <<>> /\ body = <<>> /\ log = <<>> /\ dangling = {} /\ moved = FALSE
  /\ mode = wire.kind /\ policy = IHTP_POLICY_STRICT /\ stateless = FALSE
  /\ phase = P!FirstPhase(mode) /\ cursor = 0
  /\ start = P!Cleared /\ headers = P!NoHeaders /\ num_headers = 0
  /\ buf = <<>> /\ max_headers = MaxHeaders(mode)
  /\ pc = "ready" /\ pos = 0 /\ count = 0
  /\ status = P!IHTP_INCOMPLETE /\ bytes_consumed = 0 /\ seen = 0
  /\ message = S!NoMessage /\ out = S!Fresh
  /\ s_pc = "ready" /\ i = 1 /\ loc = S!NoLocals /\ s_status = "IHTP_OK" /\ clears = TRUE
  /\ state = D!CHUNK_SIZE /\ hex_count = 0 /\ bytes_left_in_chunk = 0 /\ total_decoded = 0
  /\ consume_trailer = wire.consume_trailer
  /\ d_pc = "ready" /\ d_buf = <<>> /\ avail = 0 /\ src = 0 /\ dst = 0
  /\ d_status = D!IHTP_OK /\ bufsz = 0
  /\ input = <<>> /\ consumed = <<>> /\ delivered = <<>> /\ declared = 0 /\ taken = 0
  /\ remaining = 0 /\ f_total = 0 /\ f_status = "none" /\ counted = 0

GoOn ==
  \/ \E n \in ReadSizes \cup {Len(unread)} : Read(n)
  \/ ParseHead \/ ParseStep \/ apply_semantics \/ SemanticsStep \/ Close
  \/ HandOver \/ NoBody \/ BeginBody
  \/ DecodeChunked \/ ChunkedStep \/ ChunkedDone \/ SkipTrailer
  \/ DecodeFixed \/ FixedDone
  \/ PeerCloses

Next == GoOn \/ MoveBuffer \/ Lose

Spec == Init /\ [][Next]_vars

(* The consumer goes on as long as it can, and what the peer has sent      *)
(* arrives unless the connection is lost.                                  *)
FairSpec == Spec /\ WF_vars(GoOn)

-----------------------------------------------------------------------------
(* The bytes of the messages from the k-th on.                             *)
SentFrom(k) == Stream(wire.kind, SubSeq(wire.sent, k, Len(wire.sent)))

(* The messages that are to arrive: up to the first that is refused, or    *)
(* with the first after which the connection is not the parser's any more. *)
Reached  == {k \in 1..Len(wire.sent) : \A j \in 1..k - 1 : wire.sent[j].fate = "next"}
Arriving == {k \in Reached : wire.sent[k].fate # "refused"}

(* Every message the consumer takes has the start line and the header      *)
(* fields its sender wrote, in order, read through spans into a buffer     *)
(* that has grown and moved since the first of them was parsed, and        *)
(* nothing is taken from a refused message on (ihtp_parser.c:574 and 655,  *)
(* ihtp_semantics.c:347-360).                                              *)
HeadsAsSent ==
  \A k \in DOMAIN log :
    /\ k \in Arriving
    /\ log[k].start = wire.sent[k].start /\ log[k].fields = wire.sent[k].fields

(* The application is handed the bodies that were sent, at every moment a  *)
(* prefix of them and in the end all, whatever the framing, the cuts and   *)
(* the body of the message before; a body cut short by the loss of the     *)
(* connection is never taken for a whole one (ihtp_semantics.c:370-377,    *)
(* ihtp_body_decoder.c:124-139, 221 and 245-251).                          *)
BodiesAsSent ==
  /\ \A k \in DOMAIN log : log[k].body = wire.sent[k].body
  /\ body # <<>> => IsPrefix(body, wire.sent[Len(log) + 1].body)

(* No byte is lost or used twice between the components: when the parser   *)
(* has its turn, and when the connection is handed over, what was read and *)
(* not used together with what is still to come is exactly what the peer   *)
(* sent after the messages taken so far (ihtp_parser.c:669,                *)
(* ihtp_body_decoder.c:112-117).                                           *)
PlaceInStream ==
  /\ at \in {"head", "semantics"} => buf \o unread = SentFrom(Len(log) + 1)
  /\ at = "handed" => tail \o unread = SentFrom(Len(log) + 1)

(* The bytes of the message at hand that its components have used, up to   *)
(* the end of its trailer section if that has come.                        *)
Section == IF TrailerEnd = {} THEN 0 ELSE CHOOSE e \in TrailerEnd : TRUE

HeadBytes == SubSeq(buf, 1, bytes_consumed)

Used ==
  CASE at = "semantics"          -> HeadBytes
    [] at \in {"fixed", "eof"}   -> HeadBytes \o body
    [] at = "chunked"            -> HeadBytes \o consumed
                                      \o (IF d_pc = "decoding" THEN SubSeq(input, 1, src) ELSE <<>>)
    [] at = "trailer"            -> HeadBytes \o consumed \o SubSeq(tail, 1, Section)
    [] OTHER                     -> <<>>

(* The bytes that have been read and that none has used yet.               *)
Held ==
  CASE at = "head"               -> buf
    [] at = "semantics"          -> AfterHead
    [] at = "chunked" /\ d_pc = "decoding" -> SubSeq(input, src + 1, avail)
    [] at = "chunked" /\ d_pc = "ready" /\ state = D!CHUNK_DONE -> Trailing
    [] at = "trailer"            -> SubSeq(tail, Section + 1, Len(tail))
    [] OTHER                     -> tail

(* Whatever the peer sends, well formed or not, and however it is cut:     *)
(* every byte goes from the network to the consumer and from there to one  *)
(* component, in order.  A step moves bytes from one to the next, or it    *)
(* takes a whole message and leaves all behind it as it was; until the     *)
(* connection is given up none is lost, used twice or overtaken            *)
(* (ihtp_parser.c:669, ihtp_body_decoder.c:112-117 and 245,                *)
(* bench_extended_contract.c:192-197 and 243-247).                         *)
BytesConserved ==
  [][ \/ at' = "closed" \/ Refused'
      \/ (Used \o Held \o unread)' = Used \o Held \o unread
      \/ /\ log' = Append(log, Entry(body))
         /\ (Used \o Held \o unread)' = Held \o unread ]_vars

(* Unless the connection is lost every message that is to arrive does, and *)
(* the connection comes to its end: no component waits for bytes that are  *)
(* not coming (ihtp_body_decoder.c:221 and 248-251, ihtp_parser.c:528).    *)
EveryMessageArrives ==
  <>(lost \/ (at \in {"closed", "handed"} /\ DOMAIN log = Arriving))
=============================================================================
