---------------------------- MODULE MessageParser ----------------------------
(***************************************************************************)
(* The incremental message parser, src/ihtp_parser.c: one                  *)
(* ihtp_parser_state_t and its outputs, driven over an accumulated buffer  *)
(* that grows between calls.  Parse begins a call of one of the stateful   *)
(* entry points; StartLine is its start-line phase and every iteration of  *)
(* parse_header_block's loop is one action.  A stateless caller uses the   *)
(* wrappers instead, which initialise state and outputs in every call.     *)
(*                                                                         *)
(* A symbol is a class of bytes the parser tells apart: "t" a token        *)
(* character, "SP", "HT", ":" , "CR", "LF" themselves, "CTL" any other     *)
(* control byte; and three literals: "V11" and "V10" the version texts     *)
(* HTTP/1.1 and HTTP/1.0, "D" a status code from 100 to 599.  Words are    *)
(* further literals, which to the parser are tokens or status codes like   *)
(* these.  Lengths and limits are counted in symbols; offsets are from 0.  *)
(***************************************************************************)
EXTENDS Integers, Sequences

CONSTANTS
  Modes,          \* modes a parser may be initialised with
  Policies,       \* ihtp_policy_t values the caller may pass
  Words,          \* token texts that only the layers above tell apart
  MaxHeaders(_),  \* IHTP_MAX_HEADERS, or the places of the caller's array in headers mode
  MaxRequestLine, \* IHTP_MAX_REQUEST_LINE
  MaxHeaderLine,  \* IHTP_MAX_HEADER_LINE
  Stateless,      \* callers: whether they use the stateless wrappers
  Slices(_, _),   \* what may arrive between two calls, in a mode, stateless or not
  MaxBuffer(_, _) \* bound: symbols in the accumulated buffer, likewise

CR == "CR"
LF == "LF"
SP == "SP"

Token   == {"t", "D"} \cup Words
Version == {"V11", "V10"}
Code    == {"D", "101", "204", "200"} \cap Token
Lws     == {SP, "HT"}
Bytes   == Token \cup Version \cup Lws \cup {":", "CTL", CR, LF}

REQUEST  == "REQUEST"
RESPONSE == "RESPONSE"
HEADERS  == "HEADERS"

START_LINE == "START_LINE"
DONE       == "DONE"
ERROR      == "ERROR"

IHTP_OK                     == 0
IHTP_ERROR                  == -1
IHTP_INCOMPLETE             == -2
IHTP_ERROR_TOO_LONG         == -3
IHTP_ERROR_TOO_MANY_HEADERS == -4

Policy == [reject_obs_fold : BOOLEAN, reject_bare_lf : BOOLEAN, allow_spaces_in_uri : BOOLEAN]

ASSUME ParserAssumption ==
  /\ Modes \subseteq {REQUEST, RESPONSE, HEADERS}
  /\ Policies \subseteq Policy
  /\ MaxRequestLine \in Nat /\ MaxHeaderLine \in Nat
  /\ Stateless \subseteq BOOLEAN
  /\ {SP, "HT", ":", "CTL", CR, LF, "V11", "V10"} \cap Words = {}
  /\ \A m \in Modes, s \in Stateless : Slices(m, s) \subseteq Seq(Bytes)
  /\ \A m \in Modes, s \in Stateless : MaxBuffer(m, s) \in Nat
  /\ \A m \in Modes : MaxHeaders(m) \in Nat

Span == [at : Nat, len : Nat]

NoSpan   == [at |-> 0, len |-> 0]
NoHeader == [name |-> NoSpan, value |-> NoSpan]

(* The start-line outputs: cleared, parsed, or whatever a refused line     *)
(* left in them (callers do not read them after an error).                 *)
Cleared == [kind |-> "cleared"]
Torn    == [kind |-> "torn"]

VARIABLES
  \* ihtp_parser_state_t
  mode, phase, cursor,
  \* ihtp_request_t or ihtp_response_t (in headers mode only the last two)
  start, headers, num_headers,
  \* the caller: its accumulated buffer, its policy, its choice of entry point,
  \* and the places for headers it has told the call of
  buf, policy, stateless, max_headers,
  \* the call: where it is, and pos and count of parse_header_block
  pc, pos, count,
  \* what the last call returned
  status, bytes_consumed,
  \* history: how much of buf the last call looked at
  seen

state   == <<mode, phase, cursor>>
outputs == <<start, headers, num_headers>>
caller  == <<buf, policy, stateless, max_headers>>
call    == <<pc, pos, count>>
result  == <<status, bytes_consumed>>
vars    == <<state, outputs, caller, call, result, seen>>

len == Len(buf)

-----------------------------------------------------------------------------
(* memchr for LF from offset p: the offset of the first one, as a set.     *)
FirstLF(p) == {i \in p..len - 1 : buf[i + 1] = LF /\ \A j \in p..i - 1 : buf[j + 1] # LF}

(* Where the line from p to the LF at i ends, its CR excluded.             *)
IsCRLF(p, i)   == i > p /\ buf[i] = CR
line_end(p, i) == IF IsCRLF(p, i) THEN i - 1 ELSE i

field_text_is_valid(p, q)     == \A i \in p + 1..q : buf[i] \notin {CR, LF, "CTL"}
request_target_is_valid(p, q) ==
  \A i \in p + 1..q : /\ buf[i] \notin {CR, LF, "CTL", "HT"}
                      /\ buf[i] = SP => policy.allow_spaces_in_uri

IsToken(p, q) == \A i \in p + 1..q : buf[i] \in Token

span(p, q) == [at |-> p, len |-> q - p]

(* The line from p to q as METHOD SP request-target SP HTTP-version: the   *)
(* one way to read it, or none.  The target runs to the last space.        *)
RequestLine(p, q) ==
  { [kind |-> REQUEST, method |-> span(p, s), path |-> span(s + 1, q - 2),
     version |-> buf[q]] :
    s \in {s \in p + 1..q - 4 :
             /\ IsToken(p, s) /\ buf[s + 1] = SP
             /\ buf[q - 1] = SP /\ buf[q] \in Version
             /\ request_target_is_valid(s + 1, q - 2)} }

(* The line from p to q as HTTP-version SP status-code SP reason-phrase.   *)
StatusLine(p, q) ==
  IF /\ q - p >= 4
     /\ buf[p + 1] \in Version /\ buf[p + 2] = SP
     /\ buf[p + 3] \in Code /\ buf[p + 4] = SP
     /\ field_text_is_valid(p + 4, q)
  THEN { [kind |-> RESPONSE, version |-> buf[p + 1], status_code |-> buf[p + 3],
          reason |-> span(p + 4, q)] }
  ELSE {}

(* find_header_name_colon on the line from p to q.                         *)
NameColon(p, q) == {c \in p + 1..q - 1 : IsToken(p, c) /\ buf[c + 1] = ":"}

(* trim_and_validate_field_value: the text from p to q less the white      *)
(* space around it.                                                        *)
Trimmed(p, q) ==
  IF \A i \in p + 1..q : buf[i] \in Lws
  THEN { span(q, q) }
  ELSE { span(a, b) : a \in {a \in p..q - 1 : /\ buf[a + 1] \notin Lws
                                              /\ \A i \in p + 1..a : buf[i] \in Lws},
                      b \in {b \in p + 1..q : /\ buf[b] \notin Lws
                                              /\ \A i \in b + 1..q : buf[i] \in Lws} }

-----------------------------------------------------------------------------
FirstPhase(m) == IF m = HEADERS THEN HEADERS ELSE START_LINE

NoHeaders == [k \in 1..MaxHeaders(mode) |-> NoHeader]

(* More bytes arrive: all that come between two calls are one slice.  The  *)
(* caller stops reading after an error.                                    *)
Receive(slice) ==
  /\ pc = "ready" /\ phase # ERROR
  /\ phase = DONE \/ seen = len
  /\ len + Len(slice) <= MaxBuffer(mode, stateless)
  /\ buf' = buf \o slice
  /\ UNCHANGED <<state, outputs, policy, stateless, max_headers, call, result, seen>>

Return(st, consumed) ==
  /\ pc' = "ready"
  /\ status' = st
  /\ bytes_consumed' = consumed
  /\ UNCHANGED seen

(* The call parses on from phase ph with so many headers already parsed,   *)
(* into an array of so many places.                                        *)
Enter(ph, num, places) ==
  /\ pc' = ph
  /\ pos' = 0
  /\ count' = num
  /\ max_headers' = places
  /\ bytes_consumed' = 0
  /\ seen' = len
  /\ UNCHANGED <<buf, policy, stateless, status>>

(* A call of the stateful entry point for mode m.                          *)
ParseStateful(m) ==
  /\ pc = "ready" /\ ~stateless
  /\ \/ /\ m # mode
        /\ Return(IHTP_ERROR, bytes_consumed)
        /\ UNCHANGED <<state, outputs, caller, pos, count>>
     \/ /\ m = mode /\ phase = ERROR
        /\ Return(IHTP_ERROR, 0)
        /\ UNCHANGED <<state, outputs, caller, pos, count>>
     \/ /\ m = mode /\ phase = DONE
        /\ Return(IHTP_OK, cursor)
        /\ UNCHANGED <<state, outputs, caller, pos, count>>
     \/ /\ m = mode /\ phase \in {START_LINE, HEADERS}
        /\ Enter(phase, num_headers, MaxHeaders(mode))
        /\ UNCHANGED <<state, outputs>>

(* ihtp_parse_headers() reads the capacity from *num_headers and writes    *)
(* the count there: a caller may set it again before it retries, or not.   *)
Places == IF mode = HEADERS THEN {MaxHeaders(mode), num_headers} ELSE {MaxHeaders(mode)}

(* Slip: the wrapper counts on from the headers of the call before.        *)
ParseStatelessKeepsCount ==
  /\ pc = "ready" /\ stateless
  /\ phase' = FirstPhase(mode)
  /\ cursor' = 0
  /\ start' = Cleared
  /\ \E places \in Places : Enter(FirstPhase(mode), num_headers, places)
  /\ UNCHANGED <<mode, headers, num_headers>>

(* A call of the stateless wrapper: outputs cleared, a fresh state.  In    *)
(* headers mode only the count is cleared, the array is the caller's.      *)
ParseStateless ==
  /\ pc = "ready" /\ stateless
  /\ phase' = FirstPhase(mode)
  /\ cursor' = 0
  /\ start' = Cleared
  /\ headers' = IF mode = HEADERS THEN headers ELSE NoHeaders
  /\ num_headers' = 0
  /\ \E places \in Places : Enter(FirstPhase(mode), 0, places)
  /\ UNCHANGED mode

(* ihtp_parser_state_reset, by a caller that clears the outputs and goes   *)
(* on with the bytes of next.                                              *)
ResetTo(next) ==
  /\ pc = "ready"
  /\ phase' = FirstPhase(mode)
  /\ cursor' = 0
  /\ start' = Cleared
  /\ headers' = NoHeaders
  /\ num_headers' = 0
  /\ buf' = next
  /\ status' = IHTP_INCOMPLETE
  /\ bytes_consumed' = 0
  /\ seen' = 0
  /\ UNCHANGED <<mode, policy, stateless, max_headers, call>>

(* After a complete message its bytes are dropped from the buffer.         *)
Reset == ResetTo(IF phase = DONE THEN SubSeq(buf, cursor + 1, len) ELSE buf)

(* An error latches; what the call has written so far stays.               *)
Fail(st) ==
  /\ phase' = ERROR
  /\ Return(st, bytes_consumed)
  /\ UNCHANGED <<mode, cursor, num_headers, caller, pos, count>>

-----------------------------------------------------------------------------
ParsedLine(q) == IF mode = REQUEST THEN RequestLine(cursor, q) ELSE StatusLine(cursor, q)

(* Only the request line has a limit.                                      *)
LineTooLong(n) == mode = REQUEST /\ n > MaxRequestLine

(* parse_request_line or parse_status_line                                 *)
StartLinePartial ==
  /\ pc = START_LINE /\ FirstLF(cursor) = {}
  /\ UNCHANGED <<start, headers>>
  /\ \/ LineTooLong(len - cursor) /\ Fail(IHTP_ERROR_TOO_LONG)
     \/ /\ ~LineTooLong(len - cursor)
        /\ Return(IHTP_INCOMPLETE, bytes_consumed)
        /\ UNCHANGED <<state, num_headers, caller, pos, count>>

(* Slip: the header block is looked for where the start line begins.       *)
StartLineParsedKeepsCursor(q, lf) ==
  /\ start' \in ParsedLine(q)
  /\ phase' = HEADERS
  /\ pc' = HEADERS
  /\ UNCHANGED <<mode, cursor, headers, num_headers, caller, pos, count, result, seen>>

StartLineParsed(q, lf) ==
  /\ start' \in ParsedLine(q)
  /\ cursor' = lf + 1
  /\ phase' = HEADERS
  /\ pc' = HEADERS
  /\ UNCHANGED <<mode, headers, num_headers, caller, pos, count, result, seen>>

StartLine ==
  /\ pc = START_LINE
  /\ \E lf \in FirstLF(cursor) :
       LET q == line_end(cursor, lf) IN
       \/ /\ ~IsCRLF(cursor, lf) /\ policy.reject_bare_lf
          /\ Fail(IHTP_ERROR) /\ UNCHANGED <<start, headers>>
       \/ /\ IsCRLF(cursor, lf) \/ ~policy.reject_bare_lf
          /\ \/ /\ LineTooLong(q - cursor)
                /\ Fail(IHTP_ERROR_TOO_LONG) /\ UNCHANGED <<start, headers>>
             \/ /\ ~LineTooLong(q - cursor) /\ ParsedLine(q) = {}
                /\ Fail(IHTP_ERROR) /\ start' = Torn /\ UNCHANGED headers
             \/ ~LineTooLong(q - cursor) /\ StartLineParsed(q, lf)

-----------------------------------------------------------------------------
(* Offset in buf of the header line the loop is at.                        *)
line_start == cursor + pos

is_continuation == line_start < len /\ buf[line_start + 1] \in Lws

FoldRejected == is_continuation /\ policy.reject_obs_fold

(* What the block has so far is kept for the next call.                    *)
KeepParsed(end) ==
  /\ num_headers' = count
  /\ cursor' = end
  /\ UNCHANGED <<start, headers>>

(* Slips: the cursor is set to the length of the block, not moved by it;   *)
(* what was parsed is reported as consumed.                                *)
HeadersPartialAssigns ==
  /\ pc = HEADERS
  /\ FirstLF(line_start) = {} /\ ~FoldRejected
  /\ len - line_start <= MaxHeaderLine
  /\ KeepParsed(pos)
  /\ Return(IHTP_INCOMPLETE, bytes_consumed)
  /\ UNCHANGED <<mode, phase, caller, pos, count>>

HeadersPartialReports ==
  /\ pc = HEADERS
  /\ FirstLF(line_start) = {} /\ ~FoldRejected
  /\ len - line_start <= MaxHeaderLine
  /\ KeepParsed(line_start)
  /\ Return(IHTP_INCOMPLETE, line_start)
  /\ UNCHANGED <<mode, phase, caller, pos, count>>

HeadersPartial ==
  /\ pc = HEADERS
  /\ FirstLF(line_start) = {} /\ ~FoldRejected
  /\ len - line_start <= MaxHeaderLine
  /\ KeepParsed(line_start)
  /\ Return(IHTP_INCOMPLETE, bytes_consumed)
  /\ UNCHANGED <<mode, phase, caller, pos, count>>

HeadersDone(q, lf) ==
  /\ q = line_start
  /\ KeepParsed(lf + 1)
  /\ phase' = DONE
  /\ Return(IHTP_OK, lf + 1)
  /\ UNCHANGED <<mode, caller, pos, count>>

(* Slip: one byte too far.                                                 *)
NextLineFar(lf) ==
  /\ pos' = lf + 2 - cursor
  /\ UNCHANGED <<state, start, num_headers, caller, pc, result, seen>>

NextLine(lf) ==
  /\ pos' = lf + 1 - cursor
  /\ UNCHANGED <<state, start, num_headers, caller, pc, result, seen>>

(* Slip: measured from the name.                                           *)
StretchFromName(q) == q - headers[count].name.at

(* obs-fold: the last value is stretched to the end of this line.          *)
Stretch(q) == q - headers[count].value.at

(* Slip: the loop goes round without moving past the folded line.          *)
ContinuationStays(q, lf) ==
  /\ is_continuation /\ q > line_start
  /\ \/ /\ count = 0 \/ ~field_text_is_valid(line_start, q)
        /\ Fail(IHTP_ERROR) /\ UNCHANGED <<start, headers>>
     \/ /\ count # 0 /\ field_text_is_valid(line_start, q)
        /\ headers' = [headers EXCEPT ![count].value.len = Stretch(q)]
        /\ UNCHANGED <<state, start, num_headers, caller, call, result, seen>>

Continuation(q, lf) ==
  /\ is_continuation /\ q > line_start
  /\ \/ /\ count = 0 \/ ~field_text_is_valid(line_start, q)
        /\ Fail(IHTP_ERROR) /\ UNCHANGED <<start, headers>>
     \/ /\ count # 0 /\ field_text_is_valid(line_start, q)
        /\ headers' = [headers EXCEPT ![count].value.len = Stretch(q)]
        /\ NextLine(lf)
        /\ UNCHANGED count

(* field-name ":" OWS field-value OWS, into the next free header.          *)
Field(q, lf, c, v) ==
  LET valid == field_text_is_valid(v.at, v.at + v.len)
      name  == span(line_start, c)
  IN  /\ headers' = [headers EXCEPT ![count + 1] =
                       [name |-> name, value |-> IF valid THEN v ELSE @.value]]
      /\ \/ valid /\ count' = count + 1 /\ NextLine(lf)
         \/ ~valid /\ Fail(IHTP_ERROR) /\ UNCHANGED start

(* Slip: one header too many.                                              *)
HeaderFitsLate == count <= max_headers

HeaderFits == count < max_headers

HeaderField(q, lf) ==
  /\ ~is_continuation /\ q > line_start
  /\ \/ /\ NameColon(line_start, q) = {}
        /\ Fail(IHTP_ERROR) /\ UNCHANGED <<start, headers>>
     \/ /\ NameColon(line_start, q) # {} /\ ~HeaderFits
        /\ Fail(IHTP_ERROR_TOO_MANY_HEADERS) /\ UNCHANGED <<start, headers>>
     \/ /\ HeaderFits
        /\ \E c \in NameColon(line_start, q) : \E v \in Trimmed(c + 1, q) : Field(q, lf, c, v)

(* A line that cannot be taken: folded, too long, or ended by a bare LF.   *)
LineRefused ==
  /\ pc = HEADERS
  /\ UNCHANGED <<start, headers>>
  /\ \/ FoldRejected /\ Fail(IHTP_ERROR)
     \/ /\ ~FoldRejected /\ FirstLF(line_start) = {} /\ len - line_start > MaxHeaderLine
        /\ Fail(IHTP_ERROR_TOO_LONG)
     \/ /\ ~FoldRejected /\ policy.reject_bare_lf
        /\ \E lf \in FirstLF(line_start) : ~IsCRLF(line_start, lf)
        /\ Fail(IHTP_ERROR)
     \/ /\ ~FoldRejected
        /\ \E lf \in FirstLF(line_start) :
             /\ IsCRLF(line_start, lf) \/ ~policy.reject_bare_lf
             /\ line_end(line_start, lf) - line_start > MaxHeaderLine
        /\ Fail(IHTP_ERROR_TOO_LONG)

HeaderLine ==
  /\ pc = HEADERS /\ ~FoldRejected
  /\ \E lf \in FirstLF(line_start) :
       LET q == line_end(line_start, lf) IN
       /\ IsCRLF(line_start, lf) \/ ~policy.reject_bare_lf
       /\ q - line_start <= MaxHeaderLine
       /\ HeadersDone(q, lf) \/ Continuation(q, lf) \/ HeaderField(q, lf)

-----------------------------------------------------------------------------
Init ==
  /\ mode \in Modes /\ policy \in Policies /\ stateless \in Stateless
  /\ phase = FirstPhase(mode) /\ cursor = 0
  /\ start = Cleared /\ headers = NoHeaders /\ num_headers = 0
  /\ buf = <<>> /\ max_headers = MaxHeaders(mode)
  /\ pc = "ready" /\ pos = 0 /\ count = 0
  /\ status = IHTP_INCOMPLETE /\ bytes_consumed = 0 /\ seen = 0

Step == StartLinePartial \/ StartLine \/ HeadersPartial \/ LineRefused \/ HeaderLine

Next == \/ Step
        \/ \E slice \in Slices(mode, stateless) : Receive(slice)
        \/ \E m \in {REQUEST, RESPONSE, HEADERS} : ParseStateful(m)
        \/ ParseStateless
        \/ Reset

Spec == Init /\ [][Next]_vars

(* A call that has begun runs on: the parser is plain sequential code.     *)
FairSpec == Spec /\ WF_vars(Step)

-----------------------------------------------------------------------------
StartOutputs ==
  {Cleared, Torn}
    \cup [kind : {REQUEST}, method : Span, path : Span, version : Version]
    \cup [kind : {RESPONSE}, version : Version, status_code : Code, reason : Span]

Header == [name : Span, value : Span]

TypeOK ==
  /\ mode \in {REQUEST, RESPONSE, HEADERS}
  /\ phase \in {START_LINE, HEADERS, DONE, ERROR}
  /\ cursor \in Nat
  /\ start \in StartOutputs
  /\ headers \in [1..MaxHeaders(mode) -> Header]
  /\ num_headers \in 0..max_headers /\ max_headers \in 0..MaxHeaders(mode)
  /\ buf \in Seq(Bytes) /\ policy \in Policy /\ stateless \in BOOLEAN
  /\ pc \in {"ready", START_LINE, HEADERS}
  /\ pos \in Nat /\ count \in 0..max_headers
  /\ status \in {IHTP_OK, IHTP_ERROR, IHTP_INCOMPLETE, IHTP_ERROR_TOO_LONG,
                 IHTP_ERROR_TOO_MANY_HEADERS}
  /\ bytes_consumed \in Nat /\ seen \in Nat

(* Parsing never runs past the bytes it was given, in whichever phase a    *)
(* call stopped and the next one resumed (lines 640, 648, 654-657): the    *)
(* unsigned subtraction len - cursor cannot wrap.                          *)
InsideBuffer ==
  /\ cursor <= seen /\ seen <= len
  /\ pc # "ready" => seen = len /\ phase = pc
  /\ pc = HEADERS => line_start <= len

(* How far the headers parsed so far reach, and how many there are.        *)
parsed_end   == IF pc = HEADERS THEN line_start ELSE cursor
parsed_count == IF pc = HEADERS THEN count ELSE num_headers

End(s) == s.at + s.len

(* The header spans lie in the parsed part of the buffer, in the order of  *)
(* the fields, each value after its name and before the next name, also    *)
(* when a folded line in a later call stretches the last value             *)
(* (lines 558 and 574-586).                                                *)
SpansOrdered ==
  phase # ERROR =>
    \A k \in 1..parsed_count :
      /\ headers[k].name.len > 0
      /\ End(headers[k].name) < headers[k].value.at
      /\ End(headers[k].value) <= parsed_end
      /\ k < parsed_count => End(headers[k].value) < headers[k + 1].name.at

(* A start line is reported exactly when the header block has been reached *)
(* and its spans lie before the first header, so that rescanning never     *)
(* starts inside it (lines 648-649, 704-705).                              *)
StartLineKept ==
  /\ phase = START_LINE => start = Cleared /\ cursor = 0 /\ num_headers = 0
  /\ phase \in {HEADERS, DONE} /\ mode = REQUEST =>
       /\ start.kind = REQUEST
       /\ start.method.at = 0 /\ start.method.len > 0 /\ start.path.len > 0
       /\ End(start.method) < start.path.at /\ End(start.path) < cursor
  /\ phase \in {HEADERS, DONE} /\ mode = RESPONSE =>
       start.kind = RESPONSE /\ End(start.reason) < cursor
  /\ mode = HEADERS => phase # START_LINE /\ start = Cleared

(* ihtp_parser.h:43-44: bytes_consumed is non-zero only once the message   *)
(* is complete, and is then the length of the message, also when a         *)
(* finished parser is called again.                                        *)
ConsumedOnlyWhenDone ==
  bytes_consumed # 0 => phase = DONE /\ bytes_consumed = cursor

(* Errors latch and progress is never undone: short of a reset, a parser   *)
(* that failed stays failed, one that finished stays finished, and the     *)
(* cursor never moves back over accepted bytes.                            *)
Progress ==
  [][ \/ Reset
      \/ stateless
      \/ /\ cursor' >= cursor
         /\ phase \in {DONE, ERROR} => UNCHANGED <<phase, cursor, outputs>>
         /\ phase = HEADERS => phase' # START_LINE /\ start' = start ]_vars

(* Every call comes back: each iteration of the header loop moves on.      *)
CallReturns == pc # "ready" ~> pc = "ready"
=============================================================================
