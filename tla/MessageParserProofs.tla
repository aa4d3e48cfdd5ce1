------------------------- MODULE MessageParserProofs -------------------------
(***************************************************************************)
(* Proofs about the incremental message parser, for every buffer, every    *)
(* cut of it into slices, every policy and limit, and both kinds of        *)
(* caller: its invariants first, then that it is where one look at the     *)
(* whole buffer puts it.                                                   *)
(***************************************************************************)
EXTENDS ParserReference, SequenceTheorems, FiniteSetTheorems, TLAPS

(* The caller is one of those the parser was set up for, and a call enters *)
(* the start-line phase with an empty header block.                        *)
CallerKept ==
  /\ mode \in Modes /\ stateless \in Stateless
  /\ pc = START_LINE => pos = 0 /\ count = 0

(* A value ends before the line after it begins: at least an LF lies in    *)
(* between.                                                                *)
ValuesEndBefore ==
  phase # ERROR => \A k \in 1..parsed_count : End(headers[k].value) < parsed_end

IInv ==
  /\ TypeOK /\ CallerKept /\ InsideBuffer /\ SpansOrdered /\ ValuesEndBefore
  /\ StartLineKept /\ ConsumedOnlyWhenDone

-----------------------------------------------------------------------------
(* The modes, phases and statuses are told apart.                          *)
LEMMA Distinct ==
  /\ REQUEST # RESPONSE /\ REQUEST # HEADERS /\ RESPONSE # HEADERS
  /\ START_LINE # HEADERS /\ START_LINE # DONE /\ START_LINE # ERROR
  /\ HEADERS # DONE /\ HEADERS # ERROR /\ DONE # ERROR
  /\ START_LINE # "ready" /\ HEADERS # "ready"
  BY DEF REQUEST, RESPONSE, HEADERS, START_LINE, DONE, ERROR

LEMMA Places0 ==
  ASSUME CallerKept
  PROVE  MaxHeaders(mode) \in Nat
  BY ParserAssumption DEF CallerKept

LEMMA NoHeadersTyped ==
  ASSUME CallerKept
  PROVE  NoHeaders \in [1..MaxHeaders(mode) -> Header]
  BY DEF NoHeaders, NoHeader, NoSpan, Header, Span

LEMMA BufferLength ==
  ASSUME TypeOK
  PROVE  len \in Nat
  BY LenProperties DEF TypeOK, len

(* The line from p to the LF at lf: its text ends at or before the LF.     *)
LEMMA LineInside ==
  ASSUME TypeOK, NEW p \in Nat, NEW lf \in FirstLF(p)
  PROVE  /\ lf \in Nat /\ p <= lf /\ lf < len
         /\ line_end(p, lf) \in Nat /\ p <= line_end(p, lf) /\ line_end(p, lf) <= lf
<1>1. lf \in p..len - 1 /\ len \in Nat
  BY BufferLength DEF FirstLF
<1> QED BY <1>1 DEF line_end, IsCRLF

LEMMA SpanTyped ==
  ASSUME NEW p \in Nat, NEW q \in Nat, p <= q
  PROVE  span(p, q) \in Span /\ span(p, q).at = p /\ span(p, q).len = q - p /\ End(span(p, q)) = q
  BY DEF span, Span, End

-----------------------------------------------------------------------------
LEMMA InitIInv == Init => IInv
<1> SUFFICES ASSUME Init PROVE IInv
  OBVIOUS
<1>1. CallerKept
  BY Distinct DEF Init, CallerKept
<1>2. MaxHeaders(mode) \in Nat /\ mode \in {REQUEST, RESPONSE, HEADERS}
  BY <1>1, Places0, ParserAssumption DEF CallerKept
<1>3. TypeOK
  <2>1. headers \in [1..MaxHeaders(mode) -> Header]
    BY <1>1, NoHeadersTyped DEF Init
  <2>2. policy \in Policy /\ stateless \in BOOLEAN
    BY ParserAssumption DEF Init
  <2>3. phase \in {START_LINE, HEADERS, DONE, ERROR}
    BY DEF Init, FirstPhase
  <2> QED BY <1>2, <2>1, <2>2, <2>3 DEF Init, TypeOK, StartOutputs
<1>4. InsideBuffer
  BY Distinct DEF Init, InsideBuffer, len
<1>5. SpansOrdered /\ ValuesEndBefore
  BY Distinct DEF Init, SpansOrdered, ValuesEndBefore, parsed_count
<1>6. StartLineKept
  BY <1>2, Distinct DEF Init, StartLineKept, FirstPhase
<1>7. ConsumedOnlyWhenDone
  BY DEF Init, ConsumedOnlyWhenDone
<1> QED BY <1>1, <1>3, <1>4, <1>5, <1>6, <1>7 DEF IInv

(* A step of the caller that leaves the parser and its outputs alone, in   *)
(* front of more bytes or not.                                             *)
LEMMA ReceivePreserves ==
  ASSUME IInv, NEW slice \in Slices(mode, stateless), Receive(slice)
  PROVE  IInv'
<1> USE DEF Receive, state, outputs, call, result
<1>1. slice \in Seq(Bytes)
  BY ParserAssumption DEF IInv, CallerKept
<1>2. buf' \in Seq(Bytes) /\ len' = len + Len(slice) /\ Len(slice) \in Nat
  BY <1>1, ConcatProperties, LenProperties DEF IInv, TypeOK, len
<1>3. TypeOK' /\ CallerKept'
  BY <1>2 DEF IInv, TypeOK, CallerKept
<1>4. InsideBuffer'
  <2>1. len \in Nat /\ seen \in Nat
    BY BufferLength DEF IInv, TypeOK
  <2> QED BY <1>2, <2>1, Distinct DEF IInv, TypeOK, InsideBuffer
<1>5. SpansOrdered' /\ ValuesEndBefore'
  BY DEF IInv, SpansOrdered, ValuesEndBefore, parsed_count, parsed_end, line_start
<1>6. StartLineKept' /\ ConsumedOnlyWhenDone'
  BY DEF IInv, StartLineKept, ConsumedOnlyWhenDone
<1> QED BY <1>3, <1>4, <1>5, <1>6 DEF IInv

LEMMA StatefulPreserves ==
  ASSUME IInv, NEW m \in {REQUEST, RESPONSE, HEADERS}, ParseStateful(m)
  PROVE  IInv'
<1>1. pc = "ready"
  BY DEF ParseStateful
<1>2. ASSUME NEW st \in {IHTP_ERROR, IHTP_OK}, NEW c, Return(st, c),
             c = 0 \/ c = bytes_consumed \/ (phase = DONE /\ c = cursor),
             UNCHANGED <<state, outputs, caller, pos, count>>
      PROVE  IInv'
  <2> USE <1>1, <1>2 DEF Return, state, outputs, caller
  <2>1. bytes_consumed' \in Nat /\ status' \in {IHTP_OK, IHTP_ERROR} /\ pc' = pc
    BY DEF IInv, TypeOK
  <2>2. TypeOK' /\ CallerKept'
    BY <2>1, Distinct DEF IInv, TypeOK, CallerKept
  <2>3. InsideBuffer'
    BY Distinct DEF IInv, InsideBuffer, len, line_start
  <2>4. SpansOrdered' /\ ValuesEndBefore'
    BY <2>1 DEF IInv, SpansOrdered, ValuesEndBefore, parsed_count, parsed_end, line_start
  <2>5. StartLineKept' /\ ConsumedOnlyWhenDone'
    BY DEF IInv, StartLineKept, ConsumedOnlyWhenDone
  <2> QED BY <2>2, <2>3, <2>4, <2>5 DEF IInv
<1>3. CASE /\ m = mode /\ phase \in {START_LINE, HEADERS}
           /\ Enter(phase, num_headers, MaxHeaders(mode))
           /\ UNCHANGED <<state, outputs>>
  <2> USE <1>1, <1>3 DEF Enter, state, outputs
  <2>1. MaxHeaders(mode) \in Nat /\ len \in Nat /\ num_headers \in 0..MaxHeaders(mode)
        /\ cursor \in Nat /\ cursor <= len
    BY Places0, BufferLength DEF IInv, TypeOK, InsideBuffer
  <2>2. TypeOK'
    BY <2>1 DEF IInv, TypeOK
  <2>3. CallerKept'
    BY Distinct DEF IInv, CallerKept, StartLineKept
  <2>4. InsideBuffer'
    BY <2>1 DEF InsideBuffer, len, line_start
  <2>5. parsed_count' = parsed_count /\ parsed_end' = parsed_end
    <3>1. CASE phase = HEADERS
      BY <2>1, <3>1, Distinct DEF parsed_count, parsed_end, line_start
    <3>2. CASE phase = START_LINE
      BY <2>1, <3>2, Distinct DEF parsed_count, parsed_end, line_start
    <3> QED BY <3>1, <3>2
  <2>6. SpansOrdered' /\ ValuesEndBefore'
    BY <2>5 DEF IInv, SpansOrdered, ValuesEndBefore
  <2>7. StartLineKept' /\ ConsumedOnlyWhenDone'
    BY DEF IInv, StartLineKept, ConsumedOnlyWhenDone
  <2> QED BY <2>2, <2>3, <2>4, <2>6, <2>7 DEF IInv
<1>4. CASE m # mode /\ Return(IHTP_ERROR, bytes_consumed) /\ UNCHANGED <<state, outputs, caller, pos, count>>
  BY <1>2, <1>4
<1>5. CASE phase = ERROR /\ Return(IHTP_ERROR, 0) /\ UNCHANGED <<state, outputs, caller, pos, count>>
  BY <1>2, <1>5
<1>6. CASE phase = DONE /\ Return(IHTP_OK, cursor) /\ UNCHANGED <<state, outputs, caller, pos, count>>
  BY <1>2, <1>6
<1> QED BY <1>3, <1>4, <1>5, <1>6 DEF ParseStateful

LEMMA StatelessPreserves ==
  ASSUME IInv, ParseStateless
  PROVE  IInv'
<1> USE DEF ParseStateless, Enter
<1>1. /\ MaxHeaders(mode) \in Nat /\ len \in Nat /\ mode' = mode
      /\ max_headers' \in 0..MaxHeaders(mode)
      /\ phase' \in {START_LINE, HEADERS} /\ pc' = phase'
  BY Places0, BufferLength DEF IInv, TypeOK, Places, FirstPhase
<1>2. headers' \in [1..MaxHeaders(mode) -> Header]
  BY NoHeadersTyped DEF IInv, TypeOK
<1>3. TypeOK'
  BY <1>1, <1>2 DEF IInv, TypeOK, StartOutputs
<1>4. CallerKept'
  BY DEF IInv, CallerKept
<1>5. InsideBuffer'
  BY <1>1 DEF InsideBuffer, len, line_start
<1>6. SpansOrdered' /\ ValuesEndBefore'
  BY DEF SpansOrdered, ValuesEndBefore, parsed_count
<1>7. StartLineKept'
  BY <1>1, Distinct DEF StartLineKept, FirstPhase
<1>8. ConsumedOnlyWhenDone'
  BY DEF ConsumedOnlyWhenDone
<1> QED BY <1>3, <1>4, <1>5, <1>6, <1>7, <1>8 DEF IInv

LEMMA ResetPreserves ==
  ASSUME IInv, Reset
  PROVE  IInv'
<1> USE DEF Reset, ResetTo, call
<1>1. buf' \in Seq(Bytes) /\ len \in Nat
  <2>1. len \in Nat /\ cursor \in Nat /\ \A i \in cursor + 1..len : buf[i] \in Bytes
    BY BufferLength, LenProperties DEF IInv, TypeOK, len
  <2>2. SubSeq(buf, cursor + 1, len) \in Seq(Bytes)
    BY <2>1, SubSeqProperties
  <2> QED BY <2>1, <2>2 DEF IInv, TypeOK
<1>2. headers' \in [1..MaxHeaders(mode) -> Header] /\ MaxHeaders(mode) \in Nat
  BY NoHeadersTyped, Places0 DEF IInv
<1>3. phase' \in {START_LINE, HEADERS} /\ len' \in Nat /\ pc' = "ready" /\ mode' = mode
  BY <1>1, LenProperties DEF FirstPhase, len
<1>4. TypeOK'
  BY <1>1, <1>2, <1>3 DEF IInv, TypeOK, StartOutputs
<1>5. CallerKept'
  BY Distinct DEF IInv, CallerKept
<1>6. InsideBuffer'
  BY <1>3, Distinct DEF InsideBuffer
<1>7. SpansOrdered' /\ ValuesEndBefore'
  BY <1>3, Distinct DEF SpansOrdered, ValuesEndBefore, parsed_count
<1>8. StartLineKept'
  BY <1>3, Distinct DEF StartLineKept, FirstPhase
<1>9. ConsumedOnlyWhenDone'
  BY DEF ConsumedOnlyWhenDone
<1> QED BY <1>4, <1>5, <1>6, <1>7, <1>8, <1>9 DEF IInv

-----------------------------------------------------------------------------
(* A call that refuses its input, whatever it left in the header places    *)
(* and, out of a start line, in the start-line outputs.                    *)
LEMMA FailPreserves ==
  ASSUME IInv, pc \in {START_LINE, HEADERS},
         NEW st \in {IHTP_ERROR, IHTP_ERROR_TOO_LONG, IHTP_ERROR_TOO_MANY_HEADERS},
         Fail(st),
         start' = start \/ (pc = START_LINE /\ start' = Torn),
         headers' \in [1..MaxHeaders(mode) -> Header]
  PROVE  IInv'
<1> USE DEF Fail, Return, caller
<1>1. phase = pc /\ bytes_consumed = 0
  BY Distinct DEF IInv, InsideBuffer, ConsumedOnlyWhenDone
<1>2. TypeOK'
  BY DEF IInv, TypeOK, StartOutputs
<1>3. CallerKept'
  BY Distinct DEF IInv, CallerKept
<1>4. InsideBuffer'
  BY Distinct DEF IInv, InsideBuffer, len
<1>5. SpansOrdered' /\ ValuesEndBefore'
  BY DEF SpansOrdered, ValuesEndBefore
<1>6. StartLineKept'
  BY <1>1, Distinct DEF IInv, StartLineKept
<1>7. ConsumedOnlyWhenDone'
  BY <1>1 DEF ConsumedOnlyWhenDone
<1> QED BY <1>2, <1>3, <1>4, <1>5, <1>6, <1>7 DEF IInv

LEMMA StartLinePartialPreserves ==
  ASSUME IInv, StartLinePartial
  PROVE  IInv'
<1> USE DEF StartLinePartial
<1>1. CASE Fail(IHTP_ERROR_TOO_LONG)
  BY <1>1, FailPreserves DEF IInv, TypeOK
<1>2. CASE /\ Return(IHTP_INCOMPLETE, bytes_consumed)
           /\ UNCHANGED <<state, num_headers, caller, pos, count>>
  <2> USE <1>2 DEF Return, state, caller
  <2>1. phase = START_LINE /\ count = 0 /\ num_headers = 0
    BY Distinct DEF IInv, InsideBuffer, CallerKept, StartLineKept
  <2>2. TypeOK'
    BY DEF IInv, TypeOK
  <2>3. CallerKept'
    BY Distinct DEF IInv, CallerKept
  <2>4. InsideBuffer'
    BY Distinct DEF IInv, InsideBuffer, len
  <2>5. SpansOrdered' /\ ValuesEndBefore'
    BY <2>1, Distinct DEF SpansOrdered, ValuesEndBefore, parsed_count
  <2>6. StartLineKept' /\ ConsumedOnlyWhenDone'
    BY DEF IInv, StartLineKept, ConsumedOnlyWhenDone
  <2> QED BY <2>2, <2>3, <2>4, <2>5, <2>6 DEF IInv
<1> QED BY <1>1, <1>2

(* What a request line or a status line that is taken reports.             *)
LEMMA ParsedLineReported ==
  ASSUME IInv, pc = START_LINE, NEW q \in Nat, q <= len, NEW line \in ParsedLine(q)
  PROVE  /\ line \in StartOutputs
         /\ mode = REQUEST =>
              /\ line.kind = REQUEST
              /\ line.method.at = 0 /\ line.method.len > 0 /\ line.path.len > 0
              /\ End(line.method) < line.path.at /\ End(line.path) = q - 2
         /\ mode # REQUEST => line.kind = RESPONSE /\ End(line.reason) = q
<1>1. cursor = 0
  BY Distinct DEF IInv, InsideBuffer, StartLineKept
<1>2. CASE mode = REQUEST
  <2>1. PICK s \in 1..q - 4 :
          /\ line = [kind |-> REQUEST, method |-> span(0, s), path |-> span(s + 1, q - 2),
                     version |-> buf[q]]
          /\ buf[q] \in Version
    BY <1>1, <1>2 DEF ParsedLine, RequestLine
  <2>2. /\ span(0, s) \in Span /\ span(0, s).at = 0 /\ span(0, s).len = s /\ End(span(0, s)) = s
        /\ span(s + 1, q - 2) \in Span /\ span(s + 1, q - 2).at = s + 1
        /\ span(s + 1, q - 2).len = q - 2 - (s + 1) /\ End(span(s + 1, q - 2)) = q - 2
    BY <2>1, SpanTyped
  <2>3. line \in StartOutputs
    BY <2>1, <2>2 DEF StartOutputs
  <2> QED BY <1>2, <2>1, <2>2, <2>3
<1>3. CASE mode # REQUEST
  <2>1. /\ line = [kind |-> RESPONSE, version |-> buf[1], status_code |-> buf[3], reason |-> span(4, q)]
        /\ q >= 4 /\ buf[1] \in Version /\ buf[3] \in Code
    BY <1>1, <1>3 DEF ParsedLine, StatusLine
  <2>2. span(4, q) \in Span /\ End(span(4, q)) = q
    BY <2>1, SpanTyped
  <2>3. line \in StartOutputs
    BY <2>1, <2>2 DEF StartOutputs
  <2> QED BY <1>3, <2>1, <2>2, <2>3
<1> QED BY <1>2, <1>3

LEMMA StartLinePreserves ==
  ASSUME IInv, StartLine
  PROVE  IInv'
<1>1. PICK lf \in FirstLF(cursor) :
        \/ \E st \in {IHTP_ERROR, IHTP_ERROR_TOO_LONG} :
             Fail(st) /\ (start' = start \/ start' = Torn) /\ UNCHANGED headers
        \/ StartLineParsed(line_end(cursor, lf), lf)
  BY DEF StartLine
<1>2. pc = START_LINE /\ phase = START_LINE /\ cursor = 0 /\ pos = 0 /\ count = 0 /\ num_headers = 0
      /\ mode # HEADERS /\ bytes_consumed = 0
  BY Distinct DEF StartLine, IInv, InsideBuffer, CallerKept, StartLineKept, ConsumedOnlyWhenDone
<1> DEFINE q == line_end(cursor, lf)
<1>3. lf \in Nat /\ lf < len /\ q \in Nat /\ q <= lf /\ len \in Nat
  BY LineInside, BufferLength DEF IInv, TypeOK
<1> HIDE DEF q
<1>4. CASE \E st \in {IHTP_ERROR, IHTP_ERROR_TOO_LONG} :
             Fail(st) /\ (start' = start \/ start' = Torn) /\ UNCHANGED headers
  BY <1>2, <1>4, FailPreserves DEF IInv, TypeOK
<1>5. CASE StartLineParsed(q, lf)
  <2> USE <1>5 DEF StartLineParsed, caller, result
  <2>1. /\ start' \in StartOutputs
        /\ mode = REQUEST =>
             /\ start'.kind = REQUEST
             /\ start'.method.at = 0 /\ start'.method.len > 0 /\ start'.path.len > 0
             /\ End(start'.method) < start'.path.at /\ End(start'.path) = q - 2
        /\ mode # REQUEST => start'.kind = RESPONSE /\ End(start'.reason) = q
    BY <1>2, <1>3, ParsedLineReported
  <2>2. TypeOK'
    BY <1>3, <2>1 DEF IInv, TypeOK
  <2>3. CallerKept'
    BY Distinct DEF IInv, CallerKept
  <2>4. InsideBuffer'
    BY <1>2, <1>3, Distinct DEF IInv, TypeOK, InsideBuffer, len, line_start
  <2>5. SpansOrdered' /\ ValuesEndBefore'
    BY <1>2 DEF SpansOrdered, ValuesEndBefore, parsed_count
  <2>6. StartLineKept'
    <3>1. cursor' = lf + 1 /\ phase' = HEADERS /\ mode' = mode
      OBVIOUS
    <3>2. /\ mode = REQUEST => End(start'.path) < cursor'
          /\ mode # REQUEST => End(start'.reason) < cursor'
      BY <1>3, <2>1, <3>1
    <3> QED BY <1>2, <2>1, <3>1, <3>2, Distinct, Zenon DEF StartLineKept, End
  <2>7. ConsumedOnlyWhenDone'
    BY <1>2 DEF ConsumedOnlyWhenDone
  <2> QED BY <2>2, <2>3, <2>4, <2>5, <2>6, <2>7 DEF IInv
<1> QED BY <1>1, <1>4, <1>5 DEF q

-----------------------------------------------------------------------------
(* The first n headers of hs lie in order before offset e.                 *)
Ordered(hs, n, e) ==
  \A k \in 1..n :
    /\ hs[k].name.len > 0
    /\ End(hs[k].name) < hs[k].value.at
    /\ End(hs[k].value) < e
    /\ k < n => End(hs[k].value) < hs[k + 1].name.at

LEMMA SpanEnd ==
  ASSUME NEW s \in Span
  PROVE  s.at \in Nat /\ s.len \in Nat /\ End(s) \in Nat /\ s.at <= End(s)
  BY DEF Span, End

LEMMA HeaderSpans ==
  ASSUME NEW hs, NEW n \in Nat, hs \in [1..n -> Header], NEW k \in 1..n
  PROVE  hs[k].name \in Span /\ hs[k].value \in Span
  BY DEF Header

LEMMA StartEnds ==
  ASSUME TypeOK
  PROVE  /\ start.kind = REQUEST => End(start.path) \in Nat
         /\ start.kind = RESPONSE => End(start.reason) \in Nat
<1>1. CASE start \in {Cleared, Torn}
  BY <1>1 DEF Cleared, Torn, REQUEST, RESPONSE
<1>2. CASE start \in [kind : {REQUEST}, method : Span, path : Span, version : Version]
  BY <1>2, SpanEnd, Distinct
<1>3. CASE start \in [kind : {RESPONSE}, version : Version, status_code : Code, reason : Span]
  BY <1>3, SpanEnd, Distinct
<1> QED BY <1>1, <1>2, <1>3 DEF TypeOK, StartOutputs

(* In the header loop.                                                     *)
LEMMA InBlock ==
  ASSUME IInv, pc = HEADERS
  PROVE  /\ phase = HEADERS /\ bytes_consumed = 0 /\ seen = len /\ len \in Nat
         /\ cursor \in Nat /\ pos \in Nat /\ line_start \in Nat /\ line_start <= len
         /\ MaxHeaders(mode) \in Nat /\ max_headers \in 0..MaxHeaders(mode)
         /\ count \in 0..max_headers
         /\ headers \in [1..MaxHeaders(mode) -> Header]
         /\ Ordered(headers, count, line_start)
<1>1. /\ phase = HEADERS /\ bytes_consumed = 0 /\ seen = len
      /\ parsed_end = line_start /\ parsed_count = count
  BY Distinct DEF IInv, InsideBuffer, ConsumedOnlyWhenDone, parsed_end, parsed_count
<1>2. Ordered(headers, count, line_start)
  BY <1>1, Distinct DEF IInv, SpansOrdered, ValuesEndBefore, Ordered
<1> QED BY <1>1, <1>2, BufferLength, Places0 DEF IInv, TypeOK, InsideBuffer, line_start

(* The block's headers in order before the end of what is parsed: what the *)
(* invariant says of them.                                                 *)
LEMMA OrderedNext ==
  ASSUME NEW n \in Nat, NEW e \in Nat, headers' \in [1..n -> Header],
         parsed_count' \in 0..n, parsed_end' = e, Ordered(headers', parsed_count', e)
  PROVE  SpansOrdered' /\ ValuesEndBefore'
<1>1. \A k \in 1..parsed_count' : End(headers'[k].value) \in Nat
  BY SpanEnd, HeaderSpans
<1>2. \A k \in 1..parsed_count' : /\ headers'[k].name.len > 0
                                  /\ End(headers'[k].name) < headers'[k].value.at
                                  /\ End(headers'[k].value) < e
                                  /\ k < parsed_count' => End(headers'[k].value) < headers'[k + 1].name.at
  BY DEF Ordered
<1>3. \A k \in 1..parsed_count' : End(headers'[k].value) <= e
  BY <1>1, <1>2
<1> QED BY <1>2, <1>3 DEF SpansOrdered, ValuesEndBefore, End

LEMMA OrderedFurther ==
  ASSUME NEW n \in Nat, NEW hs \in [1..n -> Header], NEW c \in 0..n, NEW e \in Nat,
         NEW f \in Nat, e <= f, Ordered(hs, c, e)
  PROVE  Ordered(hs, c, f)
<1>1. \A k \in 1..c : End(hs[k].value) \in Nat
  BY SpanEnd, HeaderSpans
<1> QED BY <1>1 DEF Ordered

-----------------------------------------------------------------------------
(* The call keeps what the block has up to offset end, and either waits    *)
(* for more or has found the end of the block.                             *)
LEMMA KeepParsedPreserves ==
  ASSUME IInv, pc = HEADERS, NEW end \in Nat, line_start <= end, end <= len,
         KeepParsed(end), UNCHANGED <<mode, caller, pos, count>>,
         \/ Return(IHTP_INCOMPLETE, bytes_consumed) /\ phase' = phase
         \/ Return(IHTP_OK, end) /\ phase' = DONE
  PROVE  IInv'
<1> USE InBlock DEF KeepParsed, caller, Return
<1>1. TypeOK'
  BY DEF IInv, TypeOK
<1>2. CallerKept'
  BY Distinct DEF IInv, CallerKept
<1>3. InsideBuffer'
  BY Distinct DEF InsideBuffer, len
<1>4. SpansOrdered' /\ ValuesEndBefore'
  <2>1. parsed_count' = count /\ parsed_end' = end
    BY Distinct DEF parsed_count, parsed_end
  <2>2. Ordered(headers, count, end)
    BY OrderedFurther
  <2> QED BY <2>1, <2>2, OrderedNext
<1>5. StartLineKept'
  <2>1. cursor <= end /\ cursor' = end /\ phase' \in {HEADERS, DONE} /\ mode' = mode /\ start' = start
    BY DEF line_start
  <2>2. /\ mode = REQUEST => End(start.path) < end
        /\ mode = RESPONSE => End(start.reason) < end
    BY <2>1, StartEnds DEF IInv, StartLineKept
  <2> QED BY <2>1, <2>2, Distinct, Zenon DEF IInv, StartLineKept, End
<1>6. ConsumedOnlyWhenDone'
  BY DEF ConsumedOnlyWhenDone
<1> QED BY <1>1, <1>2, <1>3, <1>4, <1>5, <1>6 DEF IInv

LEMMA HeadersPartialPreserves ==
  ASSUME IInv, HeadersPartial
  PROVE  IInv'
  BY InBlock, KeepParsedPreserves DEF HeadersPartial

LEMMA LineRefusedPreserves ==
  ASSUME IInv, LineRefused
  PROVE  IInv'
<1>1. /\ pc = HEADERS /\ start' = start /\ headers' = headers
      /\ Fail(IHTP_ERROR) \/ Fail(IHTP_ERROR_TOO_LONG)
  BY DEF LineRefused
<1> QED BY <1>1, FailPreserves DEF IInv, TypeOK

(* The loop goes on to the line after the LF at lf.                        *)
LEMMA NextLinePreserves ==
  ASSUME IInv, pc = HEADERS, NEW lf \in FirstLF(line_start), NextLine(lf),
         count' \in 0..max_headers, headers' \in [1..MaxHeaders(mode) -> Header],
         Ordered(headers', count', lf + 1)
  PROVE  IInv'
<1> USE InBlock DEF NextLine, caller, result, state
<1>1. lf \in Nat /\ line_start <= lf /\ lf < len /\ cursor <= lf
  <2>1. lf \in Nat /\ line_start <= lf /\ lf < len
    BY LineInside DEF IInv
  <2> QED BY <2>1 DEF line_start
<1>2. line_start' = lf + 1 /\ pos' \in Nat
  BY <1>1 DEF line_start
<1>3. TypeOK'
  BY <1>2 DEF IInv, TypeOK
<1>4. CallerKept'
  BY Distinct DEF IInv, CallerKept
<1>5. InsideBuffer'
  BY <1>1, <1>2, Distinct DEF IInv, InsideBuffer, len
<1>6. SpansOrdered' /\ ValuesEndBefore'
  <2>1. parsed_count' = count' /\ parsed_end' = lf + 1 /\ lf + 1 \in Nat /\ count' \in 0..MaxHeaders(mode)
    BY <1>1, <1>2 DEF parsed_count, parsed_end
  <2> QED BY <2>1, OrderedNext
<1>7. StartLineKept'
  BY DEF IInv, StartLineKept
<1>8. ConsumedOnlyWhenDone'
  BY DEF ConsumedOnlyWhenDone
<1> QED BY <1>3, <1>4, <1>5, <1>6, <1>7, <1>8 DEF IInv

LEMMA TrimmedInside ==
  ASSUME NEW p \in Nat, NEW q \in Nat, p <= q, NEW v \in Trimmed(p, q)
  PROVE  v \in Span /\ p <= v.at /\ End(v) <= q
<1>1. CASE \A i \in p + 1..q : buf[i] \in Lws
  <2>1. v = span(q, q)
    BY <1>1 DEF Trimmed
  <2> QED BY <2>1, SpanTyped
<1>2. CASE ~\A i \in p + 1..q : buf[i] \in Lws
  <2>1. PICK a \in p..q - 1, b \in p + 1..q :
          v = span(a, b) /\ buf[a + 1] \notin Lws /\ \A i \in b + 1..q : buf[i] \in Lws
    BY <1>2 DEF Trimmed
  <2>2. a <= b
    <3>1. a + 1 \notin b + 1..q
      BY <2>1
    <3> QED BY <3>1
  <2> QED BY <2>1, <2>2, SpanTyped
<1> QED BY <1>1, <1>2

(* A folded line stretches the last value to its own end.                  *)
LEMMA ContinuationPreserves ==
  ASSUME IInv, pc = HEADERS, NEW lf \in FirstLF(line_start),
         Continuation(line_end(line_start, lf), lf)
  PROVE  IInv'
<1> DEFINE q == line_end(line_start, lf)
<1>1. lf \in Nat /\ q \in Nat /\ q <= lf /\ q > line_start
  BY InBlock, LineInside DEF IInv, Continuation
<1>2. \/ Fail(IHTP_ERROR) /\ UNCHANGED <<start, headers>>
      \/ /\ count # 0 /\ NextLine(lf) /\ count' = count
         /\ headers' = [headers EXCEPT ![count].value.len = q - headers[count].value.at]
  BY DEF Continuation, Stretch
<1> HIDE DEF q
<1>3. CASE Fail(IHTP_ERROR) /\ UNCHANGED <<start, headers>>
  BY <1>3, FailPreserves DEF IInv, TypeOK
<1>4. CASE /\ count # 0 /\ NextLine(lf) /\ count' = count
           /\ headers' = [headers EXCEPT ![count].value.len = q - headers[count].value.at]
  <2> DEFINE at == headers[count].value.at
  <2>1. count \in 1..MaxHeaders(mode) /\ headers \in [1..MaxHeaders(mode) -> Header]
    BY <1>4, InBlock
  <2>2. headers[count].name \in Span /\ headers[count].value \in Span
    BY <2>1, InBlock, HeaderSpans
  <2>3. at \in Nat /\ at < q
    <3>1. at \in Nat /\ End(headers[count].value) \in Nat /\ at <= End(headers[count].value)
      BY <2>2, SpanEnd
    <3>2. End(headers[count].value) < line_start /\ line_start \in Nat
      BY <1>4, InBlock DEF Ordered
    <3> QED BY <1>1, <3>1, <3>2
  <2>4. /\ headers'[count].name = headers[count].name
        /\ headers'[count].value = [at |-> at, len |-> q - at]
        /\ headers' = [headers EXCEPT ![count] = headers'[count]]
        /\ \A k \in 1..MaxHeaders(mode) : k # count => headers'[k] = headers[k]
    BY <1>4, <2>1, <2>2 DEF Header, Span
  <2>5. [at |-> at, len |-> q - at] \in Span /\ End([at |-> at, len |-> q - at]) = q
    BY <1>1, <2>3 DEF Span, End
  <2>6. headers' \in [1..MaxHeaders(mode) -> Header]
    <3>1. headers'[count] \in Header
      BY <1>4, <2>1, <2>2, <2>3, <1>1 DEF Header, Span
    <3> QED BY <2>1, <2>4, <3>1
  <2>7. Ordered(headers', count, lf + 1)
    <3> SUFFICES ASSUME NEW k \in 1..count
                 PROVE  /\ headers'[k].name.len > 0
                        /\ End(headers'[k].name) < headers'[k].value.at
                        /\ End(headers'[k].value) < lf + 1
                        /\ k < count => End(headers'[k].value) < headers'[k + 1].name.at
      BY DEF Ordered
    <3>1. /\ headers[k].name.len > 0
          /\ End(headers[k].name) < headers[k].value.at
          /\ End(headers[k].value) < line_start
          /\ k < count => End(headers[k].value) < headers[k + 1].name.at
      BY InBlock DEF Ordered
    <3>2. CASE k = count
      BY <1>1, <2>3, <2>4, <2>5, <3>1, <3>2
    <3>3. CASE k # count
      <4>1. k \in 1..MaxHeaders(mode) /\ k + 1 \in 1..MaxHeaders(mode) /\ k < count
        BY <2>1, <3>3, InBlock
      <4>2. headers'[k] = headers[k] /\ headers'[k + 1].name = headers[k + 1].name
        BY <2>4, <3>3, <4>1
      <4>3. End(headers[k].value) \in Nat /\ line_start \in Nat /\ line_start < lf + 1
        BY <1>1, <4>1, InBlock, HeaderSpans, SpanEnd
      <4> QED BY <1>1, <3>1, <4>1, <4>2, <4>3
    <3> QED BY <3>2, <3>3
  <2> QED BY <1>4, <2>6, <2>7, InBlock, NextLinePreserves
<1> QED BY <1>2, <1>3, <1>4

(* A field goes into the next free place.                                  *)
LEMMA FieldPreserves ==
  ASSUME IInv, pc = HEADERS, NEW lf \in FirstLF(line_start), HeaderFits,
         NEW c \in NameColon(line_start, line_end(line_start, lf)),
         NEW v \in Trimmed(c + 1, line_end(line_start, lf)),
         Field(line_end(line_start, lf), lf, c, v)
  PROVE  IInv'
<1> DEFINE q    == line_end(line_start, lf)
           name == span(line_start, c)
           n    == MaxHeaders(mode)
<1>1. lf \in Nat /\ q \in Nat /\ q <= lf /\ c \in Nat /\ line_start < c /\ c < q /\ line_start \in Nat
  BY InBlock, LineInside DEF IInv, NameColon
<1>2. /\ name \in Span /\ name.at = line_start /\ name.len > 0 /\ End(name) = c
      /\ v \in Span /\ c + 1 <= v.at /\ End(v) <= q /\ v.at \in Nat /\ End(v) \in Nat
  <2>1. name \in Span /\ name.at = line_start /\ name.len > 0 /\ End(name) = c
    <3>1. line_start \in Nat /\ c \in Nat /\ line_start <= c
      BY <1>1
    <3>2. /\ span(line_start, c) \in Span /\ span(line_start, c).at = line_start
          /\ span(line_start, c).len = c - line_start /\ End(span(line_start, c)) = c
      BY <3>1, SpanTyped
    <3> QED BY <1>1, <3>2
  <2>2. v \in Span /\ c + 1 <= v.at /\ End(v) <= q
    BY <1>1, TrimmedInside
  <2> QED BY <2>1, <2>2, SpanEnd
<1>3. /\ count + 1 \in 1..n /\ count \in Nat /\ n \in Nat /\ max_headers \in 0..n /\ count + 1 \in 0..max_headers
      /\ headers \in [1..n -> Header]
  BY InBlock DEF HeaderFits
<1>4. \E w \in {v, headers[count + 1].value} :
         /\ headers' = [headers EXCEPT ![count + 1] = [name |-> name, value |-> w]]
         /\ \/ w = v /\ count' = count + 1 /\ NextLine(lf)
            \/ Fail(IHTP_ERROR) /\ UNCHANGED start
  BY <1>3 DEF Field
<1> HIDE DEF q, name, n
<1>5. PICK w \in {v, headers[count + 1].value} :
         /\ headers' = [headers EXCEPT ![count + 1] = [name |-> name, value |-> w]]
         /\ \/ w = v /\ count' = count + 1 /\ NextLine(lf)
            \/ Fail(IHTP_ERROR) /\ UNCHANGED start
  BY <1>4
<1>6. headers' \in [1..n -> Header]
  BY <1>2, <1>3, <1>5 DEF Header
<1>7. CASE Fail(IHTP_ERROR) /\ UNCHANGED start
  BY <1>6, <1>7, FailPreserves DEF n
<1>8. CASE w = v /\ count' = count + 1 /\ NextLine(lf)
  <2>1. /\ headers'[count + 1] = [name |-> name, value |-> v]
        /\ \A k \in 1..count : headers'[k] = headers[k]
    BY <1>3, <1>5, <1>8
  <2>2. Ordered(headers', count + 1, lf + 1)
    <3> SUFFICES ASSUME NEW k \in 1..count + 1
                 PROVE  /\ headers'[k].name.len > 0
                        /\ End(headers'[k].name) < headers'[k].value.at
                        /\ End(headers'[k].value) < lf + 1
                        /\ k < count + 1 => End(headers'[k].value) < headers'[k + 1].name.at
      BY DEF Ordered
    <3>1. CASE k = count + 1
      BY <1>1, <1>2, <2>1, <3>1, <1>3
    <3>2. CASE k # count + 1
      <4>1. k \in 1..count /\ k \in 1..n
        BY <1>3, <3>2
      <4>2. headers'[k] = headers[k]
        BY <2>1, <4>1
      <4>3. /\ headers[k].name.len > 0
            /\ End(headers[k].name) < headers[k].value.at
            /\ End(headers[k].value) < line_start
            /\ k < count => End(headers[k].value) < headers[k + 1].name.at
        BY <4>1, InBlock DEF Ordered
      <4>4. End(headers[k].value) \in Nat
        BY <1>3, <4>1, HeaderSpans, SpanEnd
      <4>5. k < count => k + 1 \in 1..count
        BY <1>3, <4>1
      <4>6. CASE k < count
        BY <1>1, <2>1, <4>2, <4>3, <4>4, <4>5, <4>6
      <4>7. CASE k = count
        BY <1>1, <1>2, <2>1, <4>2, <4>3, <4>4, <4>7, <1>3
      <4> QED BY <1>3, <4>1, <4>6, <4>7
    <3> QED BY <3>1, <3>2
  <2> QED BY <1>3, <1>6, <1>8, <2>2, NextLinePreserves DEF n
<1> QED BY <1>5, <1>7, <1>8

LEMMA HeaderLinePreserves ==
  ASSUME IInv, HeaderLine
  PROVE  IInv'
<1>1. pc = HEADERS
  BY DEF HeaderLine
<1>2. PICK lf \in FirstLF(line_start) :
        \/ HeadersDone(line_end(line_start, lf), lf)
        \/ Continuation(line_end(line_start, lf), lf)
        \/ HeaderField(line_end(line_start, lf), lf)
  BY DEF HeaderLine
<1>3. CASE HeadersDone(line_end(line_start, lf), lf)
  <2>1. lf + 1 \in Nat /\ line_start <= lf + 1 /\ lf + 1 <= len
    BY <1>1, InBlock, LineInside DEF IInv
  <2> QED BY <1>1, <1>3, <2>1, KeepParsedPreserves DEF HeadersDone
<1>4. CASE Continuation(line_end(line_start, lf), lf)
  BY <1>1, <1>4, ContinuationPreserves
<1>5. CASE HeaderField(line_end(line_start, lf), lf)
  <2>1. CASE /\ Fail(IHTP_ERROR) \/ Fail(IHTP_ERROR_TOO_MANY_HEADERS)
             /\ UNCHANGED <<start, headers>>
    BY <1>1, <2>1, FailPreserves DEF IInv, TypeOK
  <2>2. CASE /\ HeaderFits
             /\ \E c \in NameColon(line_start, line_end(line_start, lf)) :
                \E v \in Trimmed(c + 1, line_end(line_start, lf)) :
                   Field(line_end(line_start, lf), lf, c, v)
    BY <1>1, <2>2, FieldPreserves
  <2> QED BY <1>5, <2>1, <2>2 DEF HeaderField
<1> QED BY <1>2, <1>3, <1>4, <1>5

LEMMA NextIInv ==
  ASSUME IInv, [Next]_vars
  PROVE  IInv'
<1>1. CASE Step
  BY <1>1, StartLinePartialPreserves, StartLinePreserves, HeadersPartialPreserves,
     LineRefusedPreserves, HeaderLinePreserves DEF Step
<1>2. CASE \E slice \in Slices(mode, stateless) : Receive(slice)
  BY <1>2, ReceivePreserves
<1>3. CASE \E m \in {REQUEST, RESPONSE, HEADERS} : ParseStateful(m)
  BY <1>3, StatefulPreserves
<1>4. CASE ParseStateless
  BY <1>4, StatelessPreserves
<1>5. CASE Reset
  BY <1>5, ResetPreserves
<1>6. CASE UNCHANGED vars
  BY <1>6 DEF vars, state, outputs, caller, call, result, IInv, TypeOK, CallerKept, InsideBuffer,
     SpansOrdered, ValuesEndBefore, StartLineKept, ConsumedOnlyWhenDone, parsed_end, parsed_count,
     line_start, len
<1> QED BY <1>1, <1>2, <1>3, <1>4, <1>5, <1>6 DEF Next

-----------------------------------------------------------------------------
(* The inductive invariant holds throughout: all that follows is read off  *)
(* it.                                                                     *)
THEOREM Invariance == Spec => []IInv
  BY InitIInv, NextIInv, PTL DEF Spec

(* The parser's state, its outputs and the call's locals keep their types: *)
(* the header count never passes the places the caller gave, in whichever  *)
(* call of a resumed parse it grew (lines 559-566).                        *)
THEOREM TypeCorrect == Spec => []TypeOK
<1>1. IInv => TypeOK
  BY DEF IInv
<1> QED BY <1>1, Invariance, PTL

(* A resumed parse never reads or measures past the accumulated buffer     *)
(* (lines 640, 648, 654-657), however the bytes were cut into slices.      *)
THEOREM ParsesInsideBuffer == Spec => []InsideBuffer
<1>1. IInv => InsideBuffer
  BY DEF IInv
<1> QED BY <1>1, Invariance, PTL

(* The header spans reported lie in order in the parsed part of the        *)
(* buffer, folded values included (lines 558 and 574-586).                 *)
THEOREM HeaderSpansOrdered == Spec => []SpansOrdered
<1>1. IInv => SpansOrdered
  BY DEF IInv
<1> QED BY <1>1, Invariance, PTL

(* The start line is reported exactly when the header block is reached and *)
(* lies before it (lines 648-649, 704-705).                                *)
THEOREM StartLineReported == Spec => []StartLineKept
<1>1. IInv => StartLineKept
  BY DEF IInv
<1> QED BY <1>1, Invariance, PTL

(* bytes_consumed is the length of a complete message or zero              *)
(* (ihtp_parser.h:43-44).                                                  *)
THEOREM ConsumedWhenDone == Spec => []ConsumedOnlyWhenDone
<1>1. IInv => ConsumedOnlyWhenDone
  BY DEF IInv
<1> QED BY <1>1, Invariance, PTL

-----------------------------------------------------------------------------
LEMMA StepProgress ==
  ASSUME IInv, Step
  PROVE  /\ cursor' >= cursor /\ phase \notin {DONE, ERROR}
         /\ phase = HEADERS => phase' # START_LINE /\ start' = start
<1>1. pc \in {START_LINE, HEADERS} /\ phase = pc
  BY Distinct DEF Step, StartLinePartial, StartLine, HeadersPartial, LineRefused, HeaderLine,
     IInv, InsideBuffer
<1>2. phase \notin {DONE, ERROR} /\ cursor \in Nat
  BY <1>1, Distinct DEF IInv, TypeOK
<1>3. CASE StartLinePartial
  BY <1>1, <1>2, <1>3, Distinct DEF StartLinePartial, Fail, state
<1>4. CASE StartLine
  <2>1. phase = START_LINE /\ cursor = 0 /\ cursor' \in Nat
    <3>1. phase = START_LINE /\ cursor = 0
      BY <1>1, <1>4, Distinct DEF StartLine, IInv, StartLineKept
    <3>2. cursor' \in Nat
      BY <1>4, StartLinePreserves DEF IInv, TypeOK
    <3> QED BY <3>1, <3>2
  <2> QED BY <1>2, <2>1, Distinct
<1>5. CASE HeadersPartial
  <2>1. cursor' = line_start /\ phase' = phase /\ start' = start /\ pc = HEADERS
    BY <1>5 DEF HeadersPartial, KeepParsed
  <2> QED BY <1>1, <1>2, <2>1, InBlock, Distinct DEF line_start
<1>6. CASE LineRefused
  BY <1>1, <1>2, <1>6, Distinct DEF LineRefused, Fail
<1>7. CASE HeaderLine
  <2>1. pc = HEADERS /\ phase = HEADERS
    BY <1>1, <1>7 DEF HeaderLine
  <2>2. PICK lf \in FirstLF(line_start) :
          \/ HeadersDone(line_end(line_start, lf), lf)
          \/ Continuation(line_end(line_start, lf), lf)
          \/ HeaderField(line_end(line_start, lf), lf)
    BY <1>7 DEF HeaderLine
  <2>3. lf \in Nat /\ cursor <= lf + 1
    <3>1. lf \in Nat /\ line_start <= lf
      BY <2>1, InBlock, LineInside DEF IInv
    <3> QED BY <2>1, <3>1, InBlock DEF line_start
  <2>4. CASE HeadersDone(line_end(line_start, lf), lf)
    BY <1>2, <2>3, <2>4, Distinct DEF HeadersDone, KeepParsed
  <2>5. CASE \/ Continuation(line_end(line_start, lf), lf)
             \/ HeaderField(line_end(line_start, lf), lf)
    <3>1. start' = start /\ cursor' = cursor /\ phase' \in {phase, ERROR}
      BY <2>5 DEF Continuation, HeaderField, Field, Fail, NextLine, state
    <3> QED BY <1>2, <2>1, <3>1, Distinct
  <2> QED BY <2>2, <2>4, <2>5
<1> QED BY <1>3, <1>4, <1>5, <1>6, <1>7 DEF Step

(* Errors latch, a finished message stays finished and the cursor never    *)
(* moves back, in a stateful parser that is not reset (lines 640-657,      *)
(* 690-705): for every input and every sequence of calls.                  *)
THEOREM ProgressKept == Spec => Progress
<1> DEFINE A == \/ Reset
                \/ stateless
                \/ /\ cursor' >= cursor
                   /\ phase \in {DONE, ERROR} => UNCHANGED <<phase, cursor, outputs>>
                   /\ phase = HEADERS => phase' # START_LINE /\ start' = start
<1>1. ASSUME IInv, [Next]_vars PROVE [A]_vars
  <2>1. CASE Step
    BY <1>1, <2>1, StepProgress
  <2>2. CASE \E slice \in Slices(mode, stateless) : Receive(slice)
    BY <1>1, <2>2, Distinct DEF Receive, state, outputs, IInv, TypeOK
  <2>3. CASE \E m \in {REQUEST, RESPONSE, HEADERS} : ParseStateful(m)
    BY <1>1, <2>3, Distinct DEF ParseStateful, state, outputs, IInv, TypeOK
  <2>4. CASE ParseStateless
    BY <2>4 DEF ParseStateless
  <2> QED BY <1>1, <2>1, <2>2, <2>3, <2>4 DEF Next
<1> QED BY <1>1, Invariance, PTL DEF Spec, Progress

-----------------------------------------------------------------------------
(* A stateful caller always gives the same places.                         *)
Capacity == ~stateless => max_headers = MaxHeaders(mode)

(* Inside a call, the lines before the one the parser is at are plain and  *)
(* the outputs are what they say.                                          *)
InCall ==
  pc # "ready" =>
    \E b, n \in Nat : b = parsed_end /\ n = parsed_count /\ Reached(b) /\ Agree(b, n)

SInv == IInv /\ Capacity /\ InCall /\ SplitIndependent

-----------------------------------------------------------------------------
(* What a line or a field is, in terms of the buffer alone.                *)
text == <<buf, mode, policy, max_headers>>

(* The buffer goes on from its first n symbols.                            *)
SamePrefix(n) ==
  /\ buf \in Seq(Bytes) /\ buf' \in Seq(Bytes)
  /\ n <= len /\ n <= len'
  /\ \A i \in 1..n : buf'[i] = buf[i]
  /\ mode' = mode /\ policy' = policy /\ max_headers' = max_headers

LEMMA SameLine ==
  ASSUME NEW n \in Nat, SamePrefix(n), NEW b \in 0..n
  PROVE  /\ b \in Begins' <=> b \in Begins
         /\ IsStartLine(b)' <=> IsStartLine(b)
         /\ b < n => (Folded(b)' <=> Folded(b))
         /\ \A lf \in 0..n - 1 : lf \in FirstLF(b)' <=> lf \in FirstLF(b)
         /\ \A lf \in 0..n - 1 : /\ IsCRLF(b, lf)' <=> IsCRLF(b, lf)
                                 /\ line_end(b, lf)' = line_end(b, lf)
<1>1. len \in Nat /\ len' \in Nat /\ n <= len /\ n <= len'
  BY LenProperties DEF SamePrefix, len
<1>2. b \in Begins' <=> b \in Begins
  BY <1>1 DEF SamePrefix, Begins
<1>3. IsStartLine(b)' <=> IsStartLine(b)
  BY DEF SamePrefix, IsStartLine
<1>4. b < n => (Folded(b)' <=> Folded(b))
  BY DEF SamePrefix, Folded
<1>5. \A lf \in 0..n - 1 : lf \in FirstLF(b)' <=> lf \in FirstLF(b)
  <2> SUFFICES ASSUME NEW lf \in 0..n - 1 PROVE lf \in FirstLF(b)' <=> lf \in FirstLF(b)
    OBVIOUS
  <2>1. \A j \in b..lf : j + 1 \in 1..n
    OBVIOUS
  <2>2. \A j \in b..lf : buf'[j + 1] = buf[j + 1]
    BY <2>1 DEF SamePrefix
  <2>3. b <= lf => lf \in b..len - 1
    <3>1. lf <= n - 1 /\ lf \in Int /\ b \in Int /\ len - 1 \in Int /\ n - 1 <= len - 1
      BY <1>1
    <3> QED BY <3>1
  <2>4. b <= lf => lf \in b..len' - 1
    <3>1. lf <= n - 1 /\ lf \in Int /\ b \in Int /\ len' - 1 \in Int /\ n - 1 <= len' - 1
      BY <1>1 DEF len
    <3> QED BY <3>1
  <2>5. lf \in FirstLF(b) <=> b <= lf /\ buf[lf + 1] = LF /\ \A j \in b..lf - 1 : buf[j + 1] # LF
    BY <2>3 DEF FirstLF
  <2>6. lf \in FirstLF(b)' <=> b <= lf /\ buf'[lf + 1] = LF /\ \A j \in b..lf - 1 : buf'[j + 1] # LF
    BY <2>4 DEF FirstLF
  <2> QED BY <2>2, <2>5, <2>6
<1>6. \A lf \in 0..n - 1 : /\ IsCRLF(b, lf)' <=> IsCRLF(b, lf)
                           /\ line_end(b, lf)' = line_end(b, lf)
  BY <1>1 DEF SamePrefix, IsCRLF, line_end
<1> QED BY <1>2, <1>3, <1>4, <1>5, <1>6

(* What the text from p to q is depends on its symbols only.               *)
LEMMA SameText ==
  ASSUME NEW n \in Nat, SamePrefix(n), NEW p \in Nat, NEW q \in 0..n
  PROVE  /\ field_text_is_valid(p, q)' <=> field_text_is_valid(p, q)
         /\ request_target_is_valid(p, q)' <=> request_target_is_valid(p, q)
         /\ IsToken(p, q)' <=> IsToken(p, q)
<1>1. \A i \in p + 1..q : buf'[i] = buf[i]
  BY DEF SamePrefix
<1>2. policy' = policy
  BY DEF SamePrefix
<1> QED BY <1>1, <1>2 DEF field_text_is_valid, request_target_is_valid, IsToken

LEMMA SameColon ==
  ASSUME NEW n \in Nat, SamePrefix(n), NEW p \in Nat, NEW q \in 0..n
  PROVE  NameColon(p, q)' = NameColon(p, q)
<1> SUFFICES ASSUME NEW c \in p + 1..q - 1
             PROVE  /\ IsToken(p, c)' <=> IsToken(p, c)
                    /\ buf'[c + 1] = buf[c + 1]
  BY DEF NameColon
<1>1. c \in 0..n /\ c + 1 \in 1..n
  OBVIOUS
<1> QED BY <1>1, SameText DEF SamePrefix

LEMMA SameTrimmed ==
  ASSUME NEW n \in Nat, SamePrefix(n), NEW p \in Nat, NEW q \in 0..n
  PROVE  Trimmed(p, q)' = Trimmed(p, q)
<1>1. \A i \in p + 1..q : buf'[i] = buf[i]
  BY DEF SamePrefix
<1>2. (\A i \in p + 1..q : buf'[i] \in Lws) <=> (\A i \in p + 1..q : buf[i] \in Lws)
  BY <1>1
<1> DEFINE A == {a \in p..q - 1 : /\ buf[a + 1] \notin Lws
                                 /\ \A i \in p + 1..a : buf[i] \in Lws}
           B == {b \in p + 1..q : /\ buf[b] \notin Lws
                                 /\ \A i \in b + 1..q : buf[i] \in Lws}
<1>3. A' = A
  <2>1. \A a \in p..q - 1 : a + 1 \in p + 1..q /\ \A i \in p + 1..a : i \in p + 1..q
    OBVIOUS
  <2> QED BY <1>1, <2>1
<1>4. B' = B
  <2>1. \A b \in p + 1..q : \A i \in b + 1..q : i \in p + 1..q
    OBVIOUS
  <2> QED BY <1>1, <2>1
<1>5. Trimmed(p, q) = IF \A i \in p + 1..q : buf[i] \in Lws THEN {span(q, q)}
                      ELSE {span(a, b) : a \in A, b \in B}
  BY DEF Trimmed
<1>6. Trimmed(p, q)' = IF \A i \in p + 1..q : buf'[i] \in Lws THEN {span(q, q)}
                       ELSE {span(a, b) : a \in A', b \in B'}
  BY DEF Trimmed, span, Lws, SP
<1> HIDE DEF A, B
<1> QED BY <1>2, <1>3, <1>4, <1>5, <1>6

LEMMA SameStart ==
  ASSUME NEW n \in Nat, SamePrefix(n), NEW q \in 0..n
  PROVE  StartOf(q)' = StartOf(q)
<1>1. mode' = mode /\ policy' = policy /\ \A i \in 1..n : buf'[i] = buf[i]
  BY DEF SamePrefix
<1>2. RequestLine(0, q)' = RequestLine(0, q)
  <2> DEFINE S == {s \in 0 + 1..q - 4 :
                     /\ IsToken(0, s) /\ buf[s + 1] = SP
                     /\ buf[q - 1] = SP /\ buf[q] \in Version
                     /\ request_target_is_valid(s + 1, q - 2)}
  <2>1. S' = S
    <3> SUFFICES ASSUME NEW s \in 0 + 1..q - 4
                 PROVE  /\ IsToken(0, s)' <=> IsToken(0, s)
                        /\ buf'[s + 1] = buf[s + 1] /\ buf'[q - 1] = buf[q - 1] /\ buf'[q] = buf[q]
                        /\ request_target_is_valid(s + 1, q - 2)' <=> request_target_is_valid(s + 1, q - 2)
      OBVIOUS
    <3>1. s \in 0..n /\ s + 1 \in 1..n /\ q - 1 \in 1..n /\ q \in 1..n /\ q - 2 \in 0..n /\ s + 1 \in Nat /\ 0 \in Nat
      OBVIOUS
    <3> QED BY <1>1, <3>1, SameText
  <2>2. \A s \in S : buf'[q] = buf[q]
    <3>1. \A s \in S : q \in 1..n
      OBVIOUS
    <3> QED BY <1>1, <3>1
  <2>3. RequestLine(0, q) = {[kind |-> REQUEST, method |-> span(0, s), path |-> span(s + 1, q - 2), version |-> buf[q]] : s \in S}
    BY DEF RequestLine
  <2>4. RequestLine(0, q)' = {[kind |-> REQUEST, method |-> span(0, s), path |-> span(s + 1, q - 2), version |-> buf'[q]] : s \in S'}
    BY DEF RequestLine, span, REQUEST
  <2> HIDE DEF S
  <2> QED BY <2>1, <2>2, <2>3, <2>4
<1>3. StatusLine(0, q)' = StatusLine(0, q)
  <2>1. CASE q - 0 >= 4
    <3>1. 4 \in Nat /\ 1 \in 1..n /\ 2 \in 1..n /\ 3 \in 1..n /\ 4 \in 1..n
      BY <2>1
    <3>2. field_text_is_valid(4, q)' <=> field_text_is_valid(4, q)
      BY <3>1, SameText
    <3>3. buf'[1] = buf[1] /\ buf'[2] = buf[2] /\ buf'[3] = buf[3] /\ buf'[4] = buf[4]
      BY <1>1, <3>1
    <3> QED BY <3>2, <3>3 DEF StatusLine, span, RESPONSE
  <2>2. CASE ~(q - 0 >= 4)
    BY <2>2 DEF StatusLine
  <2> QED BY <2>1, <2>2
<1> QED BY <1>1, <1>2, <1>3 DEF StartOf, REQUEST

(* The line from b ends before the next one begins.                        *)
LEMMA LineBefore ==
  ASSUME buf \in Seq(Bytes), NEW c \in Begins, NEW b \in Begins, c < b, NEW lf \in FirstLF(c)
  PROVE  c \in Nat /\ lf \in Nat /\ c <= lf /\ lf < b /\ b <= len
<1>1. len \in Nat
  BY LenProperties DEF len
<1>2. b \in Nat /\ c \in Nat /\ buf[b] = LF /\ b <= len
  BY <1>1 DEF Begins
<1>3. lf \in Nat /\ c <= lf /\ \A j \in c..lf - 1 : buf[j + 1] # LF
  BY <1>1, <1>2 DEF FirstLF
<1>4. b - 1 \notin c..lf - 1
  BY <1>2, <1>3
<1> QED BY <1>2, <1>3, <1>4

LEMMA SameFields ==
  ASSUME NEW n \in Nat, SamePrefix(n), NEW b \in 0..n
  PROVE  FieldsBefore(b)' = FieldsBefore(b)
<1>1. len \in Nat /\ len' \in Nat
  BY LenProperties DEF SamePrefix, len
<1>2. ASSUME NEW f
      PROVE  f \in FieldsBefore(b)' <=> f \in FieldsBefore(b)
  <2>1. CASE f \in 0..n /\ f < b
    <3>1. /\ f \in Begins' <=> f \in Begins
          /\ IsStartLine(f)' <=> IsStartLine(f)
          /\ Folded(f)' <=> Folded(f)
      BY <2>1, SameLine
    <3> QED BY <2>1, <3>1 DEF FieldsBefore
  <2>2. CASE ~(f \in 0..n /\ f < b)
    BY <1>1, <2>2 DEF FieldsBefore, Begins
  <2> QED BY <2>1, <2>2
<1> QED BY <1>2

LEMMA SameBad ==
  ASSUME NEW n \in Nat, SamePrefix(n), NEW b \in 0..n, NEW lf \in 0..n - 1, b <= lf
  PROVE  /\ Blank(b, lf)' <=> Blank(b, lf)
         /\ BadLine(b, lf)' <=> BadLine(b, lf)
<1> DEFINE q == line_end(b, lf)
<1>1. q' = q /\ q \in 0..n /\ b < n
  <2>1. q' = q
    BY SameLine
  <2>2. q \in 0..n
    BY DEF line_end, IsCRLF
  <2> QED BY <2>1, <2>2
<1>2. /\ IsStartLine(b)' <=> IsStartLine(b)
      /\ Folded(b)' <=> Folded(b)
      /\ IsCRLF(b, lf)' <=> IsCRLF(b, lf)
  BY <1>1, SameLine
<1>3. mode' = mode /\ policy' = policy /\ max_headers' = max_headers
  BY DEF SamePrefix
<1>4. Blank(b, lf)' <=> Blank(b, lf)
  BY <1>1, <1>2 DEF Blank
<1>5. BareLF(b, lf)' <=> BareLF(b, lf)
  BY <1>2, <1>3 DEF BareLF
<1>6. ASSUME NEW r \in 0..n
      PROVE  BadStartLine(r)' <=> BadStartLine(r)
  <2>1. StartOf(r)' = StartOf(r)
    BY <1>6, SameStart
  <2> QED BY <1>3, <2>1 DEF BadStartLine, REQUEST
<1>7. ASSUME NEW r \in 0..n
      PROVE  BadFold(b, r)' <=> BadFold(b, r)
  <2>1. FieldsBefore(b)' = FieldsBefore(b)
    BY SameFields
  <2>2. field_text_is_valid(b, r)' <=> field_text_is_valid(b, r)
    BY <1>7, SameText
  <2> QED BY <1>3, <2>1, <2>2 DEF BadFold
<1>8. ASSUME NEW r \in 0..n
      PROVE  BadField(b, r)' <=> BadField(b, r)
  <2>1. FieldsBefore(b)' = FieldsBefore(b)
    BY SameFields
  <2>2. NameColon(b, r)' = NameColon(b, r)
    BY <1>8, SameColon
  <2>3. ASSUME NEW c \in NameColon(b, r)
        PROVE  \A x \in c + 2..r : buf'[x] = buf[x]
    BY <2>3, <1>8 DEF NameColon, SamePrefix
  <2> QED BY <1>3, <2>1, <2>2, <2>3 DEF BadField
<1>9. BadLine(b, lf)' <=> BadLine(b, lf)
  <2>1. /\ BadStartLine(q)' <=> BadStartLine(q)
        /\ BadFold(b, q)' <=> BadFold(b, q)
        /\ BadField(b, q)' <=> BadField(b, q)
    BY <1>1, <1>6, <1>7, <1>8
  <2> QED BY <1>1, <1>2, <1>5, <2>1 DEF BadLine
<1> QED BY <1>4, <1>9

LEMMA SameRest ==
  ASSUME NEW n \in Nat, SamePrefix(n), NEW b \in 0..n, NEW m \in 0..n
  PROVE  BadRest(b, m)' <=> BadRest(b, m)
<1>1. mode' = mode /\ policy' = policy
  BY DEF SamePrefix
<1>2. IsStartLine(b)' <=> IsStartLine(b)
  BY SameLine
<1>3. m > b => (Folded(b)' <=> Folded(b))
  BY SameLine
<1> QED BY <1>1, <1>2, <1>3 DEF BadRest

LEMMA SameReached ==
  ASSUME NEW n \in Nat, SamePrefix(n), NEW b \in 0..n
  PROVE  Reached(b)' <=> Reached(b)
<1>1. len \in Nat /\ len' \in Nat
  BY LenProperties DEF SamePrefix, len
<1>2. b \in Begins' <=> b \in Begins
  BY SameLine
<1>3. ASSUME b \in Begins, NEW c \in 0..n, c < b, c \in Begins
      PROVE  Plain(c)' <=> Plain(c)
  <2>1. c \in Begins' /\ b \in Begins'
    BY <1>3, SameLine
  <2>2. ASSUME NEW lf \in FirstLF(c)
        PROVE  lf \in 0..n - 1 /\ c <= lf
    BY <1>3, <2>2, LineBefore DEF SamePrefix
  <2>3. ASSUME NEW lf \in FirstLF(c)'
        PROVE  lf \in 0..n - 1 /\ c <= lf
    <3>1. b \in Nat /\ c \in Nat /\ buf'[b] = LF
      BY <1>3, <2>1, <1>1 DEF Begins
    <3>2. lf \in Nat /\ c <= lf /\ \A j \in c..lf - 1 : buf'[j + 1] # LF
      BY <1>1, <2>3, <3>1 DEF FirstLF
    <3>3. b - 1 \notin c..lf - 1
      BY <1>3, <3>1, <3>2
    <3> QED BY <1>3, <3>1, <3>2, <3>3
  <2>4. ASSUME NEW lf \in 0..n - 1, c <= lf
        PROVE  /\ lf \in FirstLF(c)' <=> lf \in FirstLF(c)
               /\ Blank(c, lf)' <=> Blank(c, lf)
               /\ BadLine(c, lf)' <=> BadLine(c, lf)
    BY <2>4, <1>3, SameLine, SameBad
  <2> QED BY <2>2, <2>3, <2>4 DEF Plain
<1>4. \A c : c \in Begins /\ c < b => c \in 0..n
  BY <1>1 DEF Begins
<1>5. \A c : c \in Begins' /\ c < b => c \in 0..n
  BY <1>1 DEF Begins
<1>6. \A c \in 0..n : c \in Begins' <=> c \in Begins
  BY SameLine
<1> QED BY <1>2, <1>3, <1>4, <1>5, <1>6 DEF Reached

LEMMA SameFolds ==
  ASSUME NEW n \in Nat, SamePrefix(n), NEW b \in 0..n, NEW f \in 0..n
  PROVE  Folds(f, b)' = Folds(f, b)
<1>1. len \in Nat /\ len' \in Nat
  BY LenProperties DEF SamePrefix, len
<1>2. \A g : g \in Begins /\ g < b => g \in 0..n
  BY <1>1 DEF Begins
<1>3. \A g : g \in Begins' /\ g < b => g \in 0..n
  BY <1>1 DEF Begins
<1>4. \A g \in 0..n : g < b => /\ g \in Begins' <=> g \in Begins
                               /\ Folded(g)' <=> Folded(g)
  BY SameLine
<1>5. ASSUME NEW g \in 0..n, g < b
      PROVE  (\A x \in Begins' : f < x /\ x <= g => Folded(x)')
               <=> (\A x \in Begins : f < x /\ x <= g => Folded(x))
  <2>1. \A x : x \in Begins /\ x <= g => x < b /\ x \in 0..n
    BY <1>1, <1>5 DEF Begins
  <2>2. \A x : x \in Begins' /\ x <= g => x < b /\ x \in 0..n
    BY <1>1, <1>5 DEF Begins
  <2> QED BY <1>4, <2>1, <2>2
<1>6. ASSUME NEW g
      PROVE  g \in Folds(f, b)' <=> g \in Folds(f, b)
  BY <1>2, <1>3, <1>4, <1>5 DEF Folds
<1> QED BY <1>6

LEMMA SameEnd ==
  ASSUME NEW n \in Nat, SamePrefix(n), NEW b \in 0..n, b \in Begins,
         NEW g \in 0..n, g < b, g \in Begins
  PROVE  /\ FirstLF(g)' = FirstLF(g)
         /\ \A lf \in FirstLF(g) : /\ line_end(g, lf)' = line_end(g, lf)
                                   /\ line_end(g, lf) \in 0..n
<1>1. len \in Nat /\ len' \in Nat /\ buf \in Seq(Bytes) /\ buf' \in Seq(Bytes) /\ b \in Begins'
  BY LenProperties, SameLine DEF SamePrefix, len
<1>2. ASSUME NEW lf \in FirstLF(g)
      PROVE  lf \in 0..n - 1 /\ g <= lf
  BY <1>1, <1>2, LineBefore
<1>3. ASSUME NEW lf \in FirstLF(g)'
      PROVE  lf \in 0..n - 1
  <2>1. b \in Nat /\ g \in Nat /\ buf'[b] = LF
    BY <1>1 DEF Begins
  <2>2. lf \in Nat /\ g <= lf /\ \A j \in g..lf - 1 : buf'[j + 1] # LF
    BY <1>1, <1>3, <2>1 DEF FirstLF
  <2>3. b - 1 \notin g..lf - 1
    BY <2>1, <2>2
  <2> QED BY <2>1, <2>2, <2>3
<1>4. \A lf \in 0..n - 1 : /\ lf \in FirstLF(g)' <=> lf \in FirstLF(g)
                           /\ line_end(g, lf)' = line_end(g, lf)
  BY SameLine
<1>5. \A lf \in FirstLF(g) : line_end(g, lf) \in 0..n
  BY <1>2 DEF line_end, IsCRLF
<1> QED BY <1>2, <1>3, <1>4, <1>5

LEMMA SameField ==
  ASSUME NEW n \in Nat, SamePrefix(n), NEW b \in 0..n, b \in Begins, NEW f \in FieldsBefore(b)
  PROVE  FieldAt(f, b)' = FieldAt(f, b)
<1>1. len \in Nat /\ len' \in Nat /\ buf \in Seq(Bytes) /\ buf' \in Seq(Bytes) /\ b \in Begins'
  BY LenProperties, SameLine DEF SamePrefix, len
<1>2. f \in 0..n /\ f < b /\ f \in Begins /\ f \in Begins'
  <2>1. f \in 0..n /\ f < b /\ f \in Begins
    BY <1>1 DEF FieldsBefore, Begins
  <2> QED BY <2>1, SameLine
<1>3. Folds(f, b)' = Folds(f, b)
  BY <1>2, SameFolds
<1>4. ASSUME NEW g \in 0..n, g < b, g \in Begins
      PROVE  /\ FirstLF(g)' = FirstLF(g)
             /\ \A lf \in FirstLF(g) : /\ line_end(g, lf)' = line_end(g, lf)
                                       /\ line_end(g, lf) \in 0..n
  BY <1>4, SameEnd
<1>5. ASSUME NEW q \in 0..n
      PROVE  /\ NameColon(f, q)' = NameColon(f, q)
             /\ \A c \in NameColon(f, q) : Trimmed(c + 1, q)' = Trimmed(c + 1, q)
  <2>1. NameColon(f, q)' = NameColon(f, q)
    BY <1>2, <1>5, SameColon
  <2>2. \A c \in NameColon(f, q) : c + 1 \in Nat
    BY <1>2, <1>5 DEF NameColon
  <2> QED BY <1>5, <2>1, <2>2, SameTrimmed
<1>6. ASSUME NEW h
      PROVE  h \in FieldAt(f, b)' <=> h \in FieldAt(f, b)
  <2>1. \A g \in Folds(f, b) : g \in 0..n /\ g < b /\ g \in Begins
    BY <1>1, <1>2 DEF Folds, Begins
  <2>2. (\A g \in Folds(f, b)' : (\A x \in Folds(f, b)' : x <= g) =>
             \E e \in FirstLF(g)' : End(h.value) = line_end(g, e)')
         <=> (\A g \in Folds(f, b) : (\A x \in Folds(f, b) : x <= g) =>
               \E e \in FirstLF(g) : End(h.value) = line_end(g, e))
    BY <1>3, <1>4, <2>1
  <2> DEFINE Rest == \A g \in Folds(f, b) : (\A x \in Folds(f, b) : x <= g) =>
                       \E e \in FirstLF(g) : End(h.value) = line_end(g, e)
  <2>3. h \in FieldAt(f, b) <=>
          /\ h \in Header
          /\ \E lf \in FirstLF(f) : \E c \in NameColon(f, line_end(f, lf)) :
             \E v \in Trimmed(c + 1, line_end(f, lf)) :
               h.name = span(f, c) /\ h.value.at = v.at /\ (Folds(f, b) = {} => h.value = v) /\ Rest
    BY DEF FieldAt
  <2>4. h \in FieldAt(f, b)' <=>
          /\ h \in Header
          /\ \E lf \in FirstLF(f)' : \E c \in NameColon(f, line_end(f, lf))' :
             \E v \in Trimmed(c + 1, line_end(f, lf))' :
               h.name = span(f, c) /\ h.value.at = v.at /\ (Folds(f, b)' = {} => h.value = v) /\ Rest'
    BY DEF FieldAt, Header, span, Span
  <2>5. Rest' <=> Rest
    BY <2>2 DEF End
  <2>6. /\ FirstLF(f)' = FirstLF(f)
        /\ \A lf \in FirstLF(f) :
             /\ NameColon(f, line_end(f, lf))' = NameColon(f, line_end(f, lf))
             /\ \A c \in NameColon(f, line_end(f, lf)) :
                  Trimmed(c + 1, line_end(f, lf))' = Trimmed(c + 1, line_end(f, lf))
    BY <1>2, <1>4, <1>5
  <2> HIDE DEF Rest
  <2> QED BY <1>3, <2>3, <2>4, <2>5, <2>6
<1> QED BY <1>6

(* What the outputs have to be depends on the lines before b only.         *)
LEMMA SameAgree ==
  ASSUME NEW n \in Nat, SamePrefix(n), NEW b \in 0..n, b \in Begins, NEW num
  PROVE  Agree(b, num)' <=>
           /\ mode # HEADERS /\ b # 0 => \E lf \in FirstLF(0) : start' \in StartOf(line_end(0, lf))
           /\ Lists(headers', b, num)
<1>1. FieldsBefore(b)' = FieldsBefore(b) /\ \A f \in FieldsBefore(b) : FieldAt(f, b)' = FieldAt(f, b)
  BY SameFields, SameField
<1>2. Lists(headers, b, num)' <=> Lists(headers', b, num)
  BY <1>1 DEF Lists
<1>3. mode' = mode /\ (HEADERS)' = HEADERS
  BY DEF SamePrefix, HEADERS
<1>4. ASSUME b # 0
      PROVE  (\E lf \in FirstLF(0) : start \in StartOf(line_end(0, lf)))'
               <=> (\E lf \in FirstLF(0) : start' \in StartOf(line_end(0, lf)))
  <2>1. 0 \in 0..n /\ 0 < b /\ 0 \in Begins
    BY <1>4, LenProperties DEF Begins, SamePrefix, len
  <2>2. FirstLF(0)' = FirstLF(0)
    BY <2>1, SameEnd
  <2>3. \A lf \in FirstLF(0) : line_end(0, lf)' = line_end(0, lf) /\ line_end(0, lf) \in 0..n
    BY <2>1, SameEnd
  <2>4. \A lf \in FirstLF(0) : StartOf(line_end(0, lf))' = StartOf(line_end(0, lf))
    BY <2>3, SameStart
  <2> QED BY <2>2, <2>4
<1> QED BY <1>2, <1>3, <1>4 DEF Agree

-----------------------------------------------------------------------------
(* The line from b to the LF at lf is the last one before lf + 1.          *)
LEMMA NextBegins ==
  ASSUME buf \in Seq(Bytes), NEW b \in Begins, NEW lf \in FirstLF(b)
  PROVE  /\ lf + 1 \in Begins /\ lf \in Nat /\ b \in Nat /\ b <= lf /\ lf < len
         /\ \A c \in Begins : c < lf + 1 <=> c <= b
<1>1. len \in Nat
  BY LenProperties DEF len
<1>2. b \in Nat /\ lf \in Nat /\ b <= lf /\ lf < len /\ buf[lf + 1] = LF
  BY <1>1 DEF FirstLF, Begins
<1>3. \A j \in b..lf - 1 : buf[j + 1] # LF
  BY DEF FirstLF
<1>4. lf + 1 \in Begins
  BY <1>1, <1>2 DEF Begins
<1>5. ASSUME NEW c \in Begins, c < lf + 1, ~(c <= b)
      PROVE  FALSE
  <2>1. c \in Nat /\ buf[c] = LF
    BY <1>2, <1>1, <1>5 DEF Begins
  <2>2. c - 1 \in b..lf - 1
    BY <1>2, <1>5, <2>1
  <2> QED BY <1>3, <2>1, <2>2
<1>6. \A c \in Begins : c \in Nat
  BY <1>1 DEF Begins
<1> QED BY <1>2, <1>4, <1>5, <1>6

LEMMA NextReached ==
  ASSUME buf \in Seq(Bytes), NEW b, Reached(b), NEW lf \in FirstLF(b), ~Blank(b, lf), ~BadLine(b, lf)
  PROVE  Reached(lf + 1)
<1>1. b \in Begins /\ \A c \in Begins : c < b => Plain(c)
  BY DEF Reached
<1>2. Plain(b)
  BY DEF Plain
<1>3. /\ lf + 1 \in Begins /\ lf \in Nat /\ b \in Nat
      /\ \A c \in Begins : c < lf + 1 <=> c <= b
  BY <1>1, NextBegins
<1>4. \A c \in Begins : c \in Nat
  BY LenProperties DEF Begins, len
<1> QED BY <1>1, <1>2, <1>3, <1>4 DEF Reached

LEMMA FieldsFinite ==
  ASSUME buf \in Seq(Bytes), NEW b \in Nat
  PROVE  IsFiniteSet(FieldsBefore(b)) /\ Cardinality(FieldsBefore(b)) \in Nat
<1>1. \A f \in Begins : f \in Nat
  BY LenProperties DEF Begins, len
<1>2. FieldsBefore(b) \in SUBSET (0..b)
  BY <1>1 DEF FieldsBefore
<1>3. IsFiniteSet(0..b)
  BY FS_Interval
<1>4. IsFiniteSet(FieldsBefore(b))
  BY <1>2, <1>3, FS_Subset
<1> QED BY <1>4, FS_CardinalityType

(* The line at b begins a field or not.                                    *)
LEMMA NextFields ==
  ASSUME buf \in Seq(Bytes), NEW b \in Begins, NEW lf \in FirstLF(b)
  PROVE  FieldsBefore(lf + 1) =
           FieldsBefore(b) \cup (IF ~IsStartLine(b) /\ ~Folded(b) THEN {b} ELSE {})
<1>1. /\ lf \in Nat /\ b \in Nat
      /\ \A c \in Begins : c < lf + 1 <=> c <= b
  BY NextBegins
<1>2. \A c \in Begins : c \in Nat
  BY LenProperties DEF Begins, len
<1>3. \A c \in Begins : c < lf + 1 <=> c < b \/ c = b
  BY <1>1, <1>2
<1> QED BY <1>1, <1>3 DEF FieldsBefore

(* The line at b is folded into the field at f, or not.                    *)
LEMMA NextFolds ==
  ASSUME buf \in Seq(Bytes), NEW b \in Begins, NEW lf \in FirstLF(b), NEW f \in Begins, f < b
  PROVE  /\ ~Folded(b) => Folds(f, lf + 1) = Folds(f, b)
         /\ (\E x \in Begins : f < x /\ x < b /\ ~Folded(x)) => Folds(f, lf + 1) = Folds(f, b)
         /\ (\A x \in Begins : f < x /\ x <= b => Folded(x)) =>
              Folds(f, lf + 1) = Folds(f, b) \cup {b}
<1>1. /\ lf \in Nat /\ b \in Nat
      /\ \A c \in Begins : c < lf + 1 <=> c <= b
  BY NextBegins
<1>2. \A c \in Begins : c \in Nat
  BY LenProperties DEF Begins, len
<1>3. \A c \in Begins : c < lf + 1 <=> c < b \/ c = b
  BY <1>1, <1>2
<1> DEFINE All(g) == \A x \in Begins : f < x /\ x <= g => Folded(x)
<1>4. \A e : Folds(f, e) = {g \in Begins : f < g /\ g < e /\ All(g)}
  BY DEF Folds
<1>5. /\ ~Folded(b) => ~All(b)
      /\ (\E x \in Begins : f < x /\ x < b /\ ~Folded(x)) => ~All(b)
  BY <1>1, <1>2
<1>6. (\A x \in Begins : f < x /\ x <= b => Folded(x)) <=> All(b)
  OBVIOUS
<1> HIDE DEF All
<1> QED BY <1>3, <1>4, <1>5, <1>6

LEMMA NoFoldsYet ==
  ASSUME buf \in Seq(Bytes), NEW b \in Begins, NEW lf \in FirstLF(b)
  PROVE  Folds(b, lf + 1) = {}
<1>1. /\ lf \in Nat /\ b \in Nat
      /\ \A c \in Begins : c < lf + 1 <=> c <= b
  BY NextBegins
<1>2. \A c \in Begins : c \in Nat
  BY LenProperties DEF Begins, len
<1>3. \A g \in Begins : ~(b < g /\ g < lf + 1)
  BY <1>1, <1>2
<1> QED BY <1>3 DEF Folds

LEMMA FieldStays ==
  ASSUME NEW f, NEW b, NEW e, Folds(f, e) = Folds(f, b)
  PROVE  FieldAt(f, e) = FieldAt(f, b)
  BY DEF FieldAt

LEMMA FieldNamed ==
  ASSUME NEW f, NEW b, NEW h \in FieldAt(f, b)
  PROVE  h \in Header /\ h.name.at = f
<1>1. h \in Header /\ \E c : h.name = span(f, c)
  BY DEF FieldAt
<1> QED BY <1>1 DEF span

-----------------------------------------------------------------------------
(* No field before the header block.                                       *)
LEMMA ListsNone ==
  ASSUME NEW b, FieldsBefore(b) = {}, NEW hs
  PROVE  Lists(hs, b, 0)
<1>1. Cardinality({}) = 0
  BY FS_EmptySet
<1>2. {hs[k].name.at : k \in 1..0} = {}
  OBVIOUS
<1>3. 1..0 = {}
  OBVIOUS
<1> QED BY <1>1, <1>2, <1>3 DEF Lists

(* The line at b is a field, put into the place after the others.          *)
LEMMA ListsField ==
  ASSUME buf \in Seq(Bytes), NEW b \in Begins, NEW lf \in FirstLF(b),
         ~IsStartLine(b), ~Folded(b),
         NEW num \in Nat, NEW hs, Lists(hs, b, num),
         NEW c \in NameColon(b, line_end(b, lf)), NEW v \in Trimmed(c + 1, line_end(b, lf)),
         NEW hs2, \A k \in 1..num : hs2[k] = hs[k],
         hs2[num + 1] = [name |-> span(b, c), value |-> v], hs2[num + 1] \in Header
  PROVE  Lists(hs2, lf + 1, num + 1)
<1>1. /\ num = Cardinality(FieldsBefore(b))
      /\ {hs[k].name.at : k \in 1..num} = FieldsBefore(b)
      /\ \A j, k \in 1..num : j < k => hs[j].name.at < hs[k].name.at
      /\ \A k \in 1..num : \E f \in FieldsBefore(b) : hs[k] \in FieldAt(f, b)
  BY DEF Lists
<1>2. FieldsBefore(lf + 1) = FieldsBefore(b) \cup {b}
  BY NextFields
<1>3. b \in Nat /\ lf \in Nat /\ \A f \in FieldsBefore(b) : f \in Begins /\ f < b /\ f \in Nat
  BY NextBegins, LenProperties DEF FieldsBefore, Begins, len
<1>4. num + 1 = Cardinality(FieldsBefore(lf + 1))
  <2>1. IsFiniteSet(FieldsBefore(b)) /\ b \notin FieldsBefore(b)
    BY <1>3, FieldsFinite
  <2> QED BY <1>1, <1>2, <2>1, FS_AddElement
<1>5. \A k \in 1..num + 1 : k \in 1..num \/ k = num + 1
  OBVIOUS
<1>6. hs2[num + 1].name.at = b
  BY DEF span
<1>7. \A k \in 1..num : hs2[k].name.at \in FieldsBefore(b)
  BY <1>1
<1>8. {hs2[k].name.at : k \in 1..num + 1} = FieldsBefore(lf + 1)
  <2>1. ASSUME NEW f \in FieldsBefore(b)
        PROVE  \E k \in 1..num + 1 : f = hs2[k].name.at
    <3>1. PICK k \in 1..num : f = hs[k].name.at
      BY <1>1
    <3> QED BY <3>1
  <2>2. num + 1 \in 1..num + 1
    OBVIOUS
  <2> QED BY <1>2, <1>5, <1>6, <1>7, <2>1, <2>2
<1>9. ASSUME NEW j \in 1..num + 1, NEW k \in 1..num + 1, j < k
      PROVE  hs2[j].name.at < hs2[k].name.at
  <2>1. j \in 1..num
    BY <1>9
  <2>2. CASE k \in 1..num
    BY <1>1, <1>9, <2>1, <2>2
  <2>3. CASE k = num + 1
    BY <1>3, <1>6, <1>7, <2>1, <2>3
  <2> QED BY <1>5, <2>2, <2>3
<1>10. ASSUME NEW k \in 1..num + 1
       PROVE  \E f \in FieldsBefore(lf + 1) : hs2[k] \in FieldAt(f, lf + 1)
  <2>1. CASE k \in 1..num
    <3>1. PICK f \in FieldsBefore(b) : hs[k] \in FieldAt(f, b)
      BY <1>1, <2>1
    <3>2. Folds(f, lf + 1) = Folds(f, b)
      BY <1>3, <3>1, NextFolds
    <3>3. FieldAt(f, lf + 1) = FieldAt(f, b)
      BY <3>2, FieldStays
    <3> QED BY <1>2, <2>1, <3>1, <3>3
  <2>2. CASE k = num + 1
    <3>1. Folds(b, lf + 1) = {}
      BY NoFoldsYet
    <3>2. hs2[num + 1].name = span(b, c) /\ hs2[num + 1].value = v /\ hs2[num + 1].value.at = v.at
      OBVIOUS
    <3>3. hs2[num + 1] \in FieldAt(b, lf + 1)
      BY <3>1, <3>2 DEF FieldAt
    <3> QED BY <1>2, <2>2, <3>3
  <2> QED BY <1>5, <2>1, <2>2
<1> QED BY <1>4, <1>8, <1>9, <1>10 DEF Lists

(* The line at b is folded into the last field.                            *)
LEMMA ListsFold ==
  ASSUME buf \in Seq(Bytes), NEW b \in Begins, NEW lf \in FirstLF(b),
         ~IsStartLine(b), Folded(b),
         NEW num \in Nat \ {0}, NEW hs, Lists(hs, b, num),
         NEW hs2, \A k \in 1..num : k # num => hs2[k] = hs[k],
         hs2[num].name = hs[num].name, hs2[num].value.at = hs[num].value.at,
         End(hs2[num].value) = line_end(b, lf), hs2[num] \in Header
  PROVE  Lists(hs2, lf + 1, num)
<1>1. /\ num = Cardinality(FieldsBefore(b))
      /\ {hs[k].name.at : k \in 1..num} = FieldsBefore(b)
      /\ \A j, k \in 1..num : j < k => hs[j].name.at < hs[k].name.at
      /\ \A k \in 1..num : \E f \in FieldsBefore(b) : hs[k] \in FieldAt(f, b)
  BY DEF Lists
<1>2. FieldsBefore(lf + 1) = FieldsBefore(b)
  BY NextFields
<1>3. b \in Nat /\ lf \in Nat /\ \A f \in FieldsBefore(b) : f \in Begins /\ f < b /\ f \in Nat /\ ~Folded(f)
  BY NextBegins, LenProperties DEF FieldsBefore, Begins, len
<1>4. num \in 1..num /\ \A k \in 1..num : hs2[k].name = hs[k].name
  OBVIOUS
<1>5. {hs2[k].name.at : k \in 1..num} = FieldsBefore(lf + 1)
  <2>1. {hs2[k].name.at : k \in 1..num} = {hs[k].name.at : k \in 1..num}
    BY <1>4
  <2> QED BY <1>1, <1>2, <2>1
<1>6. \A j, k \in 1..num : j < k => hs2[j].name.at < hs2[k].name.at
  BY <1>1, <1>4
<1>7. ASSUME NEW k \in 1..num, k # num
      PROVE  \E f \in FieldsBefore(lf + 1) : hs2[k] \in FieldAt(f, lf + 1)
  <2>1. PICK f \in FieldsBefore(b) : hs[k] \in FieldAt(f, b)
    BY <1>1, <1>7
  <2>2. f = hs[k].name.at
    BY <2>1, FieldNamed
  <2>3. hs[num].name.at \in FieldsBefore(b) /\ f < hs[num].name.at
    <3>1. k < num
      BY <1>7
    <3>2. hs[num].name.at \in {hs[i].name.at : i \in 1..num}
      BY <1>4
    <3> QED BY <1>1, <1>4, <1>7, <2>2, <3>1, <3>2
  <2>4. \E x \in Begins : f < x /\ x < b /\ ~Folded(x)
    BY <1>3, <2>3
  <2>5. Folds(f, lf + 1) = Folds(f, b)
    BY <1>3, <2>1, <2>4, NextFolds
  <2>6. FieldAt(f, lf + 1) = FieldAt(f, b)
    BY <2>5, FieldStays
  <2> QED BY <1>2, <1>7, <2>1, <2>6
<1>8. \E f \in FieldsBefore(lf + 1) : hs2[num] \in FieldAt(f, lf + 1)
  <2>1. PICK f \in FieldsBefore(b) : hs[num] \in FieldAt(f, b)
    BY <1>1, <1>4
  <2>2. f = hs[num].name.at /\ f \in Begins /\ f < b /\ f \in Nat
    BY <1>3, <2>1, FieldNamed
  <2>3. ASSUME NEW x \in Begins, f < x, x <= b, ~Folded(x)
        PROVE  FALSE
    <3>1. x \in Nat /\ x < b
      BY <1>3, <2>3, LenProperties DEF Begins, len
    <3>2. x \in FieldsBefore(b)
      BY <2>2, <2>3, <3>1 DEF FieldsBefore, IsStartLine
    <3>3. PICK j \in 1..num : x = hs[j].name.at
      BY <1>1, <3>2
    <3>4. j < num \/ j = num
      BY <3>3
    <3>5. hs[j].name.at <= hs[num].name.at
      <4>1. hs[j].name.at \in Nat /\ hs[num].name.at \in Nat
        BY <2>2, <3>1, <3>3
      <4>2. j < num => hs[j].name.at < hs[num].name.at
        BY <1>1, <1>4, <3>3
      <4> QED BY <3>4, <4>1, <4>2
    <3> QED BY <2>2, <2>3, <3>1, <3>3, <3>5
  <2>4. Folds(f, lf + 1) = Folds(f, b) \cup {b}
    BY <2>2, <2>3, NextFolds
  <2>5. \A g \in Folds(f, lf + 1) : (\A x \in Folds(f, lf + 1) : x <= g) => g = b
    <3> SUFFICES ASSUME NEW g \in Folds(f, lf + 1), \A x \in Folds(f, lf + 1) : x <= g
                 PROVE  g = b
      OBVIOUS
    <3>1. b <= g
      BY <2>4
    <3>2. g \in Folds(f, b) => g \in Nat /\ g < b
      BY LenProperties DEF Folds, Begins, len
    <3> QED BY <1>3, <2>4, <3>1, <3>2
  <2>6. PICK l \in FirstLF(f) : \E c \in NameColon(f, line_end(f, l)) :
          \E v \in Trimmed(c + 1, line_end(f, l)) : hs[num].name = span(f, c) /\ hs[num].value.at = v.at
    BY <2>1 DEF FieldAt
  <2>7. hs2[num] \in FieldAt(f, lf + 1)
    BY <2>4, <2>5, <2>6 DEF FieldAt
  <2> QED BY <1>2, <2>1, <2>7
<1>9. num = Cardinality(FieldsBefore(lf + 1))
  BY <1>1, <1>2
<1>10. \A k \in 1..num : \E f \in FieldsBefore(lf + 1) : hs2[k] \in FieldAt(f, lf + 1)
  BY <1>7, <1>8
<1> QED BY <1>5, <1>6, <1>9, <1>10 DEF Lists

-----------------------------------------------------------------------------
(* The classes of bytes a header line is made of.                          *)
LEMMA Classes ==
  /\ ":" \notin Token /\ LF \notin Token /\ CR \notin Token
  /\ CR \notin Lws /\ LF \notin Lws /\ "CTL" \notin Lws /\ CR # LF
  BY ParserAssumption DEF Token, Lws, SP, CR, LF

(* A field name ends at the first colon of its line.                       *)
LEMMA OneColon ==
  ASSUME NEW p \in Nat, NEW q \in Nat, NEW c \in NameColon(p, q), NEW d \in NameColon(p, q)
  PROVE  c = d
<1>1. /\ c \in p + 1..q - 1 /\ buf[c + 1] = ":" /\ \A i \in p + 1..c : buf[i] \in Token
      /\ d \in p + 1..q - 1 /\ buf[d + 1] = ":" /\ \A i \in p + 1..d : buf[i] \in Token
  BY DEF NameColon, IsToken
<1>2. c + 1 \notin p + 1..d /\ d + 1 \notin p + 1..c
  BY <1>1, Classes
<1> QED BY <1>1, <1>2

(* Trimming drops white space only: the value is valid text when the text  *)
(* it was cut from is.                                                     *)
LEMMA ValueText ==
  ASSUME NEW p \in Nat, NEW q \in Nat, p <= q, NEW v \in Trimmed(p, q),
         \A i \in p + 1..q : buf[i] # LF
  PROVE  field_text_is_valid(v.at, v.at + v.len) <=> ~\E x \in p + 1..q : buf[x] \in {CR, "CTL"}
<1>1. CASE \A i \in p + 1..q : buf[i] \in Lws
  <2>1. v = span(q, q)
    BY <1>1 DEF Trimmed
  <2>2. v.at = q /\ v.at + v.len = q
    BY <2>1 DEF span
  <2>3. field_text_is_valid(q, q)
    BY DEF field_text_is_valid
  <2> QED BY <1>1, <2>2, <2>3, Classes
<1>2. CASE ~\A i \in p + 1..q : buf[i] \in Lws
  <2>1. PICK a \in p..q - 1, b \in p + 1..q :
          /\ v = span(a, b) /\ buf[a + 1] \notin Lws
          /\ \A i \in p + 1..a : buf[i] \in Lws
          /\ \A i \in b + 1..q : buf[i] \in Lws
    BY <1>2 DEF Trimmed
  <2>2. v.at = a /\ v.at + v.len = b
    BY <2>1 DEF span
  <2>3. \A x \in p + 1..q : x \in p + 1..a \/ x \in a + 1..b \/ x \in b + 1..q
    BY <2>1
  <2>4. \A x \in a + 1..b : x \in p + 1..q
    BY <2>1
  <2>5. field_text_is_valid(a, b) <=> \A x \in a + 1..b : buf[x] \notin {CR, "CTL"}
    BY <2>4 DEF field_text_is_valid
  <2> QED BY <2>1, <2>2, <2>3, <2>4, <2>5, Classes
<1> QED BY <1>1, <1>2

-----------------------------------------------------------------------------
LEMMA SameStop ==
  ASSUME NEW n \in Nat, SamePrefix(n), NEW b \in 0..n, NEW m \in 0..n, NEW ph, NEW end
  PROVE  Stops(b, ph, end, m)' <=> Stops(b, ph, end, m)
<1> DEFINE lfs == {lf \in FirstLF(b) : lf < m}
<1>1. len \in Nat /\ len' \in Nat
  BY LenProperties DEF SamePrefix, len
<1>2. lfs' = lfs /\ \A lf \in lfs : lf \in 0..n - 1 /\ b <= lf
  <2>1. \A lf \in FirstLF(b) : lf \in Nat /\ b <= lf
    BY <1>1 DEF FirstLF
  <2>2. \A lf \in FirstLF(b)' : lf \in Nat /\ b <= lf
    BY <1>1 DEF FirstLF
  <2>3. \A lf \in 0..n - 1 : lf \in FirstLF(b)' <=> lf \in FirstLF(b)
    BY SameLine
  <2> QED BY <2>1, <2>2, <2>3
<1>3. ASSUME NEW lf \in lfs
      PROVE  /\ Blank(b, lf)' <=> Blank(b, lf)
             /\ BadLine(b, lf)' <=> BadLine(b, lf)
  BY <1>2, <1>3, SameBad
<1>4. BadRest(b, m)' <=> BadRest(b, m)
  BY SameRest
<1>5. Stops(b, ph, end, m) <=>
        \/ ph = DONE /\ \E lf \in lfs : Blank(b, lf) /\ ~BadLine(b, lf) /\ end = lf + 1
        \/ ph = ERROR /\ \E lf \in lfs : BadLine(b, lf)
        \/ ph = ERROR /\ lfs = {} /\ BadRest(b, m)
        \/ ph \notin {DONE, ERROR} /\ lfs = {} /\ ~BadRest(b, m) /\ end = b
  BY DEF Stops
<1>6. Stops(b, ph, end, m)' <=>
        \/ ph = DONE /\ \E lf \in lfs' : Blank(b, lf)' /\ ~BadLine(b, lf)' /\ end = lf + 1
        \/ ph = ERROR /\ \E lf \in lfs' : BadLine(b, lf)'
        \/ ph = ERROR /\ lfs' = {} /\ BadRest(b, m)'
        \/ ph \notin {DONE, ERROR} /\ lfs' = {} /\ ~BadRest(b, m)' /\ end = b
  BY DEF Stops, DONE, ERROR
<1> HIDE DEF lfs
<1> QED BY <1>2, <1>3, <1>4, <1>5, <1>6

(* The start line and the headers that the state has after the step.       *)
AgreeNext(b) ==
  /\ mode # HEADERS /\ b # 0 => \E lf \in FirstLF(0) : start' \in StartOf(line_end(0, lf))
  /\ Lists(headers', b, num_headers')

(* A call has come back, or nothing but the rest of the buffer has         *)
(* changed: what the lines seen so far have to be for the state it left.   *)
LEMMA SplitNext ==
  ASSUME NEW n \in Nat, SamePrefix(n), seen' \in 0..n, NEW b \in 0..n, Reached(b), b <= seen',
         Stops(b, phase', cursor', seen'), phase' # ERROR => AgreeNext(b)
  PROVE  SplitIndependent'
<1>1. b \in Begins /\ b \in Begins' /\ Reached(b)'
  BY SameLine, SameReached DEF Reached
<1>2. Stops(b, phase, cursor, seen)'
  <2>1. PICK m \in 0..n : m = seen'
    OBVIOUS
  <2>2. PICK ph, end : ph = phase' /\ end = cursor'
    OBVIOUS
  <2>3. Stops(b, ph, end, m)' <=> Stops(b, ph, end, m)
    BY SameStop
  <2>4. Stops(b, phase, cursor, seen)' <=> Stops(b, ph, end, m)'
    BY <2>1, <2>2 DEF Stops, BadRest
  <2> QED BY <2>1, <2>2, <2>3, <2>4
<1>3. phase' # ERROR => Agree(b, num_headers)'
  <2>1. PICK num : num = num_headers'
    OBVIOUS
  <2>2. Agree(b, num_headers)' <=> Agree(b, num)'
    BY <2>1 DEF Agree, Lists
  <2> QED BY <1>1, <2>1, <2>2, SameAgree DEF AgreeNext
<1> QED BY <1>1, <1>2, <1>3 DEF SplitIndependent, ERROR

LEMMA Unchanged ==
  ASSUME IInv, UNCHANGED text
  PROVE  SamePrefix(len) /\ len \in Nat /\ len' = len
<1>1. buf' = buf /\ mode' = mode /\ policy' = policy /\ max_headers' = max_headers
  BY DEF text
<1>2. len \in Nat /\ len' = len /\ buf \in Seq(Bytes)
  BY <1>1, BufferLength DEF IInv, TypeOK, len
<1> QED BY <1>1, <1>2 DEF SamePrefix

(* The line a call is at.                                                  *)
LEMMA AtLine ==
  ASSUME SInv, pc # "ready"
  PROVE  /\ buf \in Seq(Bytes) /\ len \in Nat /\ seen = len /\ phase = pc
         /\ parsed_end \in 0..len /\ parsed_end \in Begins
         /\ Reached(parsed_end) /\ Agree(parsed_end, parsed_count)
<1>1. PICK b, n \in Nat : b = parsed_end /\ n = parsed_count /\ Reached(b) /\ Agree(b, n)
  BY DEF SInv, InCall
<1>2. buf \in Seq(Bytes) /\ len \in Nat /\ seen = len /\ phase = pc
  BY BufferLength DEF SInv, IInv, TypeOK, InsideBuffer
<1>3. b \in Begins /\ b \in 0..len
  BY <1>1, <1>2 DEF Reached, Begins
<1> QED BY <1>1, <1>2, <1>3

LEMMA AtHeader ==
  ASSUME SInv, pc = HEADERS
  PROVE  /\ parsed_end = line_start /\ parsed_count = count /\ ~IsStartLine(line_start)
         /\ Reached(line_start) /\ line_start \in Begins /\ line_start \in 0..len
         /\ Agree(line_start, count) /\ count \in Nat
         /\ count = Cardinality(FieldsBefore(line_start))
         /\ Lists(headers, line_start, count)
<1>1. parsed_end = line_start /\ parsed_count = count
  BY DEF parsed_end, parsed_count
<1>2. /\ Reached(line_start) /\ line_start \in Begins /\ line_start \in 0..len
      /\ Agree(line_start, count)
  BY <1>1, AtLine, Distinct
<1>3. IInv /\ phase = HEADERS /\ cursor \in Nat /\ count \in Nat /\ line_start \in Nat /\ pos \in Nat
  BY InBlock DEF SInv
<1>4. mode # HEADERS => cursor > 0
  <2>1. mode \in {REQUEST, RESPONSE, HEADERS}
    BY <1>3 DEF IInv, TypeOK
  <2>2. /\ mode = REQUEST => start.kind = REQUEST /\ End(start.path) < cursor
        /\ mode = RESPONSE => start.kind = RESPONSE /\ End(start.reason) < cursor
    BY <1>3 DEF IInv, StartLineKept
  <2>3. /\ mode = REQUEST => End(start.path) \in Nat
        /\ mode = RESPONSE => End(start.reason) \in Nat
    BY <1>3, <2>2, StartEnds DEF IInv
  <2> QED BY <1>3, <2>1, <2>2, <2>3
<1>5. ~IsStartLine(line_start)
  BY <1>3, <1>4 DEF IsStartLine, line_start
<1> QED BY <1>1, <1>2, <1>3, <1>5 DEF Agree, Lists

LEMMA AtStart ==
  ASSUME SInv, pc = START_LINE
  PROVE  /\ parsed_end = 0 /\ parsed_count = 0 /\ cursor = 0 /\ num_headers = 0
         /\ count = 0 /\ pos = 0 /\ mode # HEADERS
         /\ Reached(0) /\ 0 \in Begins /\ IsStartLine(0)
<1>1. /\ cursor = 0 /\ num_headers = 0 /\ count = 0 /\ pos = 0 /\ mode # HEADERS
  BY Distinct DEF SInv, IInv, InsideBuffer, StartLineKept, CallerKept
<1>2. parsed_end = 0 /\ parsed_count = 0
  BY <1>1, Distinct DEF parsed_end, parsed_count
<1> QED BY <1>1, <1>2, AtLine, Distinct DEF IsStartLine

(* A call that refuses the line it is at.                                  *)
LEMMA FailSplit ==
  ASSUME SInv, pc # "ready", NEW st, Fail(st),
         \/ \E lf \in FirstLF(parsed_end) : BadLine(parsed_end, lf)
         \/ FirstLF(parsed_end) = {} /\ BadRest(parsed_end, len)
  PROVE  SplitIndependent' /\ InCall' /\ Capacity'
<1> DEFINE b == parsed_end
<1>1. pc' = "ready" /\ phase' = ERROR /\ seen' = seen /\ UNCHANGED text /\ stateless' = stateless
  BY DEF Fail, Return, caller, text
<1>2. SamePrefix(len) /\ len \in Nat
  BY <1>1, Unchanged DEF SInv
<1>3. b \in 0..len /\ Reached(b) /\ seen = len /\ buf \in Seq(Bytes)
  BY AtLine
<1>4. \A lf \in FirstLF(b) : lf < len
  BY <1>2, <1>3 DEF FirstLF
<1>5. Stops(b, phase', cursor', seen')
  <2>1. {lf \in FirstLF(b) : lf < len} = FirstLF(b)
    BY <1>4
  <2> QED BY <1>1, <1>3, <2>1 DEF Stops
<1> HIDE DEF b
<1>6. SplitIndependent'
  BY <1>1, <1>2, <1>3, <1>5, SplitNext
<1>7. InCall'
  BY <1>1 DEF InCall
<1>8. Capacity'
  BY <1>1 DEF SInv, Capacity, text
<1> QED BY <1>6, <1>7, <1>8

(* A call that goes on, with n fields of the lines before b.               *)
LEMMA GoOn ==
  ASSUME SInv, UNCHANGED text, stateless' = stateless, pc' # "ready",
         NEW b \in 0..len, NEW n \in Nat, parsed_end' = b, parsed_count' = n, Reached(b),
         mode # HEADERS /\ b # 0 => \E lf \in FirstLF(0) : start' \in StartOf(line_end(0, lf)),
         Lists(headers', b, n)
  PROVE  SplitIndependent' /\ InCall' /\ Capacity'
<1>1. SamePrefix(len) /\ len \in Nat
  BY Unchanged DEF SInv
<1>2. b \in Begins /\ b \in Nat
  BY <1>1 DEF Reached
<1>3. Reached(b)'
  BY <1>1, SameReached
<1>4. Agree(b, n)'
  BY <1>1, <1>2, SameAgree
<1>5. InCall'
  BY <1>2, <1>3, <1>4 DEF InCall
<1>6. Capacity'
  BY DEF SInv, Capacity, text
<1> QED BY <1>5, <1>6 DEF SplitIndependent

(* A call that comes back with the lines before the one it is at.          *)
LEMMA WaitSplit ==
  ASSUME SInv, pc # "ready", NEW st, NEW c, Return(st, c),
         UNCHANGED <<mode, phase, caller, start, headers>>,
         cursor' = parsed_end, num_headers' = parsed_count,
         FirstLF(parsed_end) = {}, ~BadRest(parsed_end, len)
  PROVE  SplitIndependent' /\ InCall' /\ Capacity'
<1> DEFINE b == parsed_end
<1>1. /\ pc' = "ready" /\ phase' = phase /\ seen' = seen /\ UNCHANGED text /\ stateless' = stateless
      /\ phase \notin {DONE, ERROR}
  <2>1. phase \notin {DONE, ERROR}
    BY AtLine, Distinct DEF SInv, IInv, TypeOK
  <2> QED BY <2>1 DEF Return, caller, text
<1>2. SamePrefix(len) /\ len \in Nat
  BY <1>1, Unchanged DEF SInv
<1>3. b \in 0..len /\ Reached(b) /\ seen = len /\ Agree(b, parsed_count)
  BY AtLine
<1>4. AgreeNext(b)
  BY <1>3 DEF Agree, AgreeNext
<1>5. Stops(b, phase', cursor', seen')
  BY <1>1, <1>3 DEF Stops
<1> HIDE DEF b
<1>6. SplitIndependent'
  BY <1>1, <1>2, <1>3, <1>4, <1>5, SplitNext
<1>7. InCall' /\ Capacity'
  BY <1>1 DEF SInv, InCall, Capacity, text
<1> QED BY <1>6, <1>7

-----------------------------------------------------------------------------
LEMMA StartLinePartialSplit ==
  ASSUME SInv, StartLinePartial
  PROVE  SplitIndependent' /\ InCall' /\ Capacity'
<1>1. pc = START_LINE /\ pc # "ready" /\ len \in Nat
  BY AtLine, Distinct DEF StartLinePartial
<1>2. parsed_end = 0 /\ cursor = 0 /\ num_headers = 0 /\ parsed_count = 0 /\ FirstLF(0) = {}
  BY <1>1, AtStart DEF StartLinePartial
<1>3. BadRest(0, len) <=> LineTooLong(len - cursor)
  BY <1>1, <1>2, AtStart DEF BadRest, LineTooLong
<1>4. CASE LineTooLong(len - cursor) /\ Fail(IHTP_ERROR_TOO_LONG)
  BY <1>1, <1>2, <1>3, <1>4, FailSplit
<1>5. CASE /\ ~LineTooLong(len - cursor) /\ UNCHANGED <<start, headers>>
           /\ Return(IHTP_INCOMPLETE, bytes_consumed)
           /\ UNCHANGED <<state, num_headers, caller, pos, count>>
  <2>1. UNCHANGED <<mode, phase, caller, start, headers>> /\ cursor' = 0 /\ num_headers' = 0
    BY <1>2, <1>5 DEF state
  <2> QED BY <1>1, <1>2, <1>3, <1>5, <2>1, WaitSplit
<1> QED BY <1>4, <1>5 DEF StartLinePartial

LEMMA StartLineSplit ==
  ASSUME SInv, StartLine
  PROVE  SplitIndependent' /\ InCall' /\ Capacity'
<1>1. pc = START_LINE /\ pc # "ready" /\ len \in Nat /\ buf \in Seq(Bytes)
  BY AtLine, Distinct DEF StartLine
<1>2. /\ parsed_end = 0 /\ cursor = 0 /\ num_headers = 0 /\ parsed_count = 0 /\ mode # HEADERS
      /\ pos = 0 /\ count = 0 /\ Reached(0) /\ 0 \in Begins /\ IsStartLine(0)
  BY <1>1, AtStart
<1>3. PICK lf \in FirstLF(0) :
        \/ /\ ~IsCRLF(0, lf) /\ policy.reject_bare_lf /\ Fail(IHTP_ERROR)
        \/ /\ IsCRLF(0, lf) \/ ~policy.reject_bare_lf
           /\ \/ LineTooLong(line_end(0, lf) - 0) /\ Fail(IHTP_ERROR_TOO_LONG)
              \/ /\ ~LineTooLong(line_end(0, lf) - 0) /\ ParsedLine(line_end(0, lf)) = {}
                 /\ Fail(IHTP_ERROR)
              \/ ~LineTooLong(line_end(0, lf) - 0) /\ StartLineParsed(line_end(0, lf), lf)
  BY <1>2 DEF StartLine
<1> DEFINE q == line_end(0, lf)
<1>4. lf \in Nat /\ lf < len /\ q \in Nat /\ lf + 1 \in 0..len /\ lf + 1 # 0 /\ q - 0 = q
  BY <1>1, <1>2, <1>3, LineInside DEF SInv, IInv
<1>5. ParsedLine(q) = StartOf(q)
  BY <1>2 DEF ParsedLine, StartOf
<1>6. BadLine(0, lf) <=> BareLF(0, lf) \/ LineTooLong(q) \/ StartOf(q) = {}
  BY <1>2 DEF BadLine, BadStartLine, LineTooLong
<1> HIDE DEF q
<1>7. BareLF(0, lf) <=> ~IsCRLF(0, lf) /\ policy.reject_bare_lf
  BY DEF BareLF
<1>8. CASE BadLine(0, lf) /\ \E st : Fail(st)
  BY <1>1, <1>2, <1>3, <1>8, FailSplit
<1>9. CASE ~BareLF(0, lf) /\ ~LineTooLong(q) /\ StartLineParsed(q, lf)
  <2>1. /\ start' \in StartOf(q) /\ cursor' = lf + 1 /\ pc' = HEADERS /\ pos' = 0 /\ count' = 0
        /\ headers' = headers /\ stateless' = stateless /\ UNCHANGED text
    BY <1>2, <1>5, <1>9 DEF StartLineParsed, caller, text
  <2>2. ~BadLine(0, lf) /\ ~Blank(0, lf)
    BY <1>2, <1>6, <1>9, <2>1 DEF Blank
  <2>3. Reached(lf + 1)
    BY <1>1, <1>2, <1>3, <2>2, NextReached
  <2>4. FieldsBefore(lf + 1) = {}
    <3>1. FieldsBefore(0) = {}
      BY <1>1, <1>2 DEF FieldsBefore, Begins
    <3> QED BY <1>1, <1>2, <1>3, <3>1, NextFields
  <2>5. Lists(headers', lf + 1, 0)
    BY <2>4, ListsNone
  <2>6. parsed_end' = lf + 1 /\ parsed_count' = 0 /\ pc' # "ready"
    BY <1>4, <2>1, Distinct DEF parsed_end, parsed_count, line_start
  <2>7. \E l \in FirstLF(0) : start' \in StartOf(line_end(0, l))
    BY <1>3, <2>1 DEF q
  <2> QED BY <1>4, <2>1, <2>3, <2>5, <2>6, <2>7, GoOn
<1> QED BY <1>3, <1>4, <1>5, <1>6, <1>7, <1>8, <1>9 DEF q

-----------------------------------------------------------------------------
(* The fields before the line the header loop is at.                       *)
LEMMA CountZero ==
  ASSUME SInv, pc = HEADERS
  PROVE  count = 0 <=> FieldsBefore(line_start) = {}
<1>1. count = Cardinality(FieldsBefore(line_start)) /\ line_start \in Nat /\ buf \in Seq(Bytes)
  BY AtHeader, AtLine, Distinct
<1>2. IsFiniteSet(FieldsBefore(line_start))
  BY <1>1, FieldsFinite
<1> QED BY <1>1, <1>2, FS_EmptySet

(* A header line that has ended, as the loop measures it.                  *)
LEMMA HeaderLineText ==
  ASSUME SInv, pc = HEADERS, NEW lf \in FirstLF(line_start)
  PROVE  /\ lf \in Nat /\ lf < len /\ line_start <= lf /\ lf + 1 \in 0..len
         /\ line_end(line_start, lf) \in Nat /\ line_start <= line_end(line_start, lf)
         /\ line_end(line_start, lf) <= lf
         /\ is_continuation <=> Folded(line_start)
         /\ Folded(line_start) => line_end(line_start, lf) > line_start
         /\ \A i \in line_start + 1..line_end(line_start, lf) : buf[i] # LF
<1> DEFINE b == line_start
           q == line_end(b, lf)
<1>1. /\ lf \in Nat /\ lf < len /\ b <= lf /\ q \in Nat /\ b <= q /\ q <= lf /\ b \in Nat /\ len \in Nat
  BY InBlock, LineInside DEF SInv, IInv
<1>2. is_continuation <=> Folded(b)
  BY <1>1 DEF is_continuation, Folded
<1>3. buf[lf + 1] = LF /\ \A j \in b..lf - 1 : buf[j + 1] # LF
  BY DEF FirstLF
<1>4. Folded(b) => q > b
  <2>1. ASSUME Folded(b), q = b
        PROVE  FALSE
    <3>1. buf[b + 1] \in Lws
      BY <2>1 DEF Folded
    <3>2. lf = b \/ (lf = b + 1 /\ buf[lf] = CR)
      BY <1>1, <2>1 DEF line_end, IsCRLF
    <3> QED BY <1>3, <3>1, <3>2, Classes
  <2> QED BY <1>1, <2>1
<1>5. \A i \in b + 1..q : buf[i] # LF
  <2> SUFFICES ASSUME NEW i \in b + 1..q PROVE buf[i] # LF
    OBVIOUS
  <2>1. i - 1 \in b..lf - 1 /\ i - 1 + 1 = i
    BY <1>1
  <2> QED BY <1>3, <2>1
<1> QED BY <1>1, <1>2, <1>4, <1>5

LEMMA BadHeaderLine ==
  ASSUME SInv, pc = HEADERS, NEW lf \in FirstLF(line_start)
  PROVE  BadLine(line_start, lf) <=>
           \/ ~IsCRLF(line_start, lf) /\ policy.reject_bare_lf
           \/ /\ line_end(line_start, lf) > line_start
              /\ \/ line_end(line_start, lf) - line_start > MaxHeaderLine
                 \/ is_continuation /\ BadFold(line_start, line_end(line_start, lf))
                 \/ ~is_continuation /\ BadField(line_start, line_end(line_start, lf))
<1> DEFINE b == line_start
           q == line_end(b, lf)
<1>1. ~IsStartLine(b)
  BY AtHeader
<1>2. q > b <=> q # b
  BY HeaderLineText, InBlock DEF SInv
<1>3. is_continuation <=> Folded(b)
  BY HeaderLineText
<1> QED BY <1>1, <1>2, <1>3 DEF BadLine, BareLF

LEMMA HeadersPartialSplit ==
  ASSUME SInv, HeadersPartial
  PROVE  SplitIndependent' /\ InCall' /\ Capacity'
<1>1. pc = HEADERS /\ pc # "ready"
  BY Distinct DEF HeadersPartial
<1>2. /\ parsed_end = line_start /\ parsed_count = count /\ ~IsStartLine(line_start)
      /\ line_start \in Nat /\ len \in Nat
  BY <1>1, AtHeader, InBlock DEF SInv
<1>3. ~BadRest(line_start, len)
  <2>1. ~(len > line_start /\ Folded(line_start) /\ policy.reject_obs_fold)
    BY <1>2 DEF HeadersPartial, FoldRejected, is_continuation, Folded
  <2>2. ~(len - line_start > MaxHeaderLine)
    BY <1>2, ParserAssumption DEF HeadersPartial
  <2> QED BY <1>2, <2>1, <2>2 DEF BadRest
<1>4. /\ Return(IHTP_INCOMPLETE, bytes_consumed) /\ UNCHANGED <<mode, phase, caller, start, headers>>
      /\ cursor' = line_start /\ num_headers' = count /\ FirstLF(line_start) = {}
  BY DEF HeadersPartial, KeepParsed
<1> QED BY <1>1, <1>2, <1>3, <1>4, WaitSplit

LEMMA LineRefusedSplit ==
  ASSUME SInv, LineRefused
  PROVE  SplitIndependent' /\ InCall' /\ Capacity'
<1>1. pc = HEADERS /\ pc # "ready" /\ \E st : Fail(st)
  BY Distinct DEF LineRefused
<1>2. /\ parsed_end = line_start /\ ~IsStartLine(line_start) /\ line_start \in Nat /\ len \in Nat
  BY <1>1, AtHeader, InBlock DEF SInv
<1>3. CASE FoldRejected
  <2>1. len > line_start /\ Folded(line_start) /\ is_continuation /\ policy.reject_obs_fold
    BY <1>2, <1>3 DEF FoldRejected, is_continuation, Folded
  <2>2. BadRest(line_start, len)
    BY <1>2, <2>1 DEF BadRest
  <2>3. \A lf \in FirstLF(line_start) : BadLine(line_start, lf)
    BY <1>1, <2>1, HeaderLineText, BadHeaderLine DEF BadFold
  <2> QED BY <1>1, <1>2, <2>2, <2>3, FailSplit
<1>4. CASE FirstLF(line_start) = {} /\ len - line_start > MaxHeaderLine
  <2>1. BadRest(line_start, len)
    BY <1>2, <1>4 DEF BadRest
  <2> QED BY <1>1, <1>2, <1>4, <2>1, FailSplit
<1>5. CASE /\ policy.reject_bare_lf
           /\ \E lf \in FirstLF(line_start) : ~IsCRLF(line_start, lf)
  BY <1>1, <1>2, <1>5, BadHeaderLine, FailSplit
<1>6. CASE \E lf \in FirstLF(line_start) : line_end(line_start, lf) - line_start > MaxHeaderLine
  <2>1. PICK lf \in FirstLF(line_start) : line_end(line_start, lf) - line_start > MaxHeaderLine
    BY <1>6
  <2>2. line_end(line_start, lf) > line_start
    BY <1>1, <1>2, <2>1, HeaderLineText, ParserAssumption
  <2>3. BadLine(line_start, lf)
    BY <1>1, <2>1, <2>2, BadHeaderLine
  <2> QED BY <1>1, <1>2, <2>1, <2>3, FailSplit
<1> QED BY <1>3, <1>4, <1>5, <1>6 DEF LineRefused

(* The loop goes on behind a line that was taken.                          *)
LEMMA NextLineSplit ==
  ASSUME SInv, pc = HEADERS, NEW lf \in FirstLF(line_start), NextLine(lf),
         line_end(line_start, lf) > line_start, ~BadLine(line_start, lf),
         NEW n \in Nat, count' = n, Lists(headers', lf + 1, n)
  PROVE  SplitIndependent' /\ InCall' /\ Capacity'
<1>1. /\ ~IsStartLine(line_start) /\ Reached(line_start) /\ line_start \in Begins
      /\ Agree(line_start, count) /\ buf \in Seq(Bytes) /\ len \in Nat /\ cursor \in Nat
      /\ lf \in Nat /\ lf + 1 \in 0..len /\ line_start \in Nat
  BY AtHeader, AtLine, InBlock, HeaderLineText, Distinct DEF SInv
<1>2. Reached(lf + 1)
  BY <1>1, NextReached DEF Blank
<1>3. /\ UNCHANGED text /\ stateless' = stateless /\ pc' = HEADERS /\ cursor' = cursor /\ start' = start
      /\ pos' = lf + 1 - cursor
  BY DEF NextLine, caller, text, state
<1>4. parsed_end' = lf + 1 /\ parsed_count' = n /\ pc' # "ready"
  BY <1>1, <1>3, Distinct DEF parsed_end, parsed_count, line_start
<1>5. mode # HEADERS => \E l \in FirstLF(0) : start' \in StartOf(line_end(0, l))
  <2>1. mode # HEADERS => line_start # 0
    BY <1>1 DEF IsStartLine
  <2> QED BY <1>1, <1>3, <2>1 DEF Agree
<1> QED BY <1>1, <1>2, <1>3, <1>4, <1>5, GoOn

LEMMA HeadersDoneSplit ==
  ASSUME SInv, pc = HEADERS, NEW lf \in FirstLF(line_start),
         IsCRLF(line_start, lf) \/ ~policy.reject_bare_lf,
         HeadersDone(line_end(line_start, lf), lf)
  PROVE  SplitIndependent' /\ InCall' /\ Capacity'
<1>1. /\ line_end(line_start, lf) = line_start /\ num_headers' = count /\ cursor' = lf + 1
      /\ start' = start /\ headers' = headers /\ phase' = DONE /\ pc' = "ready" /\ seen' = seen
      /\ UNCHANGED text /\ stateless' = stateless
  BY DEF HeadersDone, KeepParsed, Return, caller, text
<1>2. /\ ~IsStartLine(line_start) /\ Reached(line_start) /\ Agree(line_start, count)
      /\ seen = len /\ len \in Nat /\ line_start \in 0..len /\ lf < len /\ lf \in Nat
  BY AtHeader, InBlock, HeaderLineText DEF SInv
<1>3. Blank(line_start, lf) /\ ~BadLine(line_start, lf)
  <2>1. ~(line_end(line_start, lf) > line_start)
    BY <1>1, <1>2
  <2>2. ~BadLine(line_start, lf)
    BY <2>1, BadHeaderLine
  <2> QED BY <1>1, <1>2, <2>2 DEF Blank
<1>4. SamePrefix(len)
  BY <1>1, Unchanged DEF SInv
<1>5. AgreeNext(line_start)
  BY <1>1, <1>2 DEF Agree, AgreeNext
<1>6. Stops(line_start, phase', cursor', seen')
  BY <1>1, <1>2, <1>3, Distinct DEF Stops
<1>7. SplitIndependent'
  <2>1. seen' \in 0..len /\ line_start <= seen'
    BY <1>1, <1>2
  <2> QED BY <1>2, <1>4, <1>5, <1>6, <2>1, SplitNext
<1>8. InCall' /\ Capacity'
  BY <1>1 DEF SInv, InCall, Capacity, text
<1> QED BY <1>7, <1>8

LEMMA ContinuationSplit ==
  ASSUME SInv, pc = HEADERS, ~FoldRejected, NEW lf \in FirstLF(line_start),
         IsCRLF(line_start, lf) \/ ~policy.reject_bare_lf,
         line_end(line_start, lf) - line_start <= MaxHeaderLine,
         Continuation(line_end(line_start, lf), lf)
  PROVE  SplitIndependent' /\ InCall' /\ Capacity'
<1> DEFINE q == line_end(line_start, lf)
<1>1. is_continuation /\ q > line_start /\ ~policy.reject_obs_fold /\ Folded(line_start)
  BY HeaderLineText DEF Continuation, FoldRejected
<1>2. /\ parsed_end = line_start /\ line_start \in Begins /\ ~IsStartLine(line_start)
      /\ Lists(headers, line_start, count) /\ count \in Nat /\ line_start \in Nat
      /\ q \in Nat /\ q <= lf /\ lf \in Nat /\ buf \in Seq(Bytes) /\ pc # "ready"
  BY AtHeader, InBlock, HeaderLineText, AtLine, Distinct DEF SInv
<1>3. BadFold(line_start, q) <=> count = 0 \/ ~field_text_is_valid(line_start, q)
  BY <1>1, CountZero DEF BadFold
<1>4. BadLine(line_start, lf) <=> BadFold(line_start, q)
  <2>1. ~(q - line_start > MaxHeaderLine)
    BY <1>2, ParserAssumption
  <2> QED BY <1>1, <2>1, BadHeaderLine
<1>5. CASE (count = 0 \/ ~field_text_is_valid(line_start, q)) /\ Fail(IHTP_ERROR)
  BY <1>2, <1>3, <1>4, <1>5, FailSplit
<1>6. CASE /\ count # 0 /\ field_text_is_valid(line_start, q) /\ NextLine(lf) /\ count' = count
           /\ headers' = [headers EXCEPT ![count].value.len = Stretch(q)]
  <2> DEFINE at == headers[count].value.at
  <2>1. /\ count \in 1..MaxHeaders(mode) /\ headers \in [1..MaxHeaders(mode) -> Header]
        /\ MaxHeaders(mode) \in Nat
    BY <1>6, InBlock DEF SInv
  <2>2. headers[count].name \in Span /\ headers[count].value \in Span
    BY <2>1, HeaderSpans
  <2>3. at \in Nat /\ at < q
    <3>1. at \in Nat /\ End(headers[count].value) \in Nat /\ at <= End(headers[count].value)
      BY <2>2, SpanEnd
    <3>2. End(headers[count].value) < line_start
      BY <1>6, InBlock DEF SInv, Ordered
    <3> QED BY <1>1, <1>2, <3>1, <3>2
  <2>4. /\ headers'[count].name = headers[count].name
        /\ headers'[count].value = [at |-> at, len |-> q - at]
        /\ headers'[count] = [name |-> headers[count].name, value |-> [at |-> at, len |-> q - at]]
        /\ \A k \in 1..MaxHeaders(mode) : k # count => headers'[k] = headers[k]
    <3> HIDE DEF q
    <3> QED BY <1>6, <2>1, <2>2 DEF Header, Span, Stretch
  <2>5. /\ [at |-> at, len |-> q - at] \in Span /\ End([at |-> at, len |-> q - at]) = q
        /\ [at |-> at, len |-> q - at].at = at
    <3>1. q \in Nat /\ at \in Nat /\ at < q
      BY <1>2, <2>3
    <3> HIDE DEF q, at
    <3> QED BY <3>1 DEF Span, End
  <2>6. headers'[count] \in Header
    BY <2>2, <2>4, <2>5 DEF Header
  <2>7. /\ headers'[count].value.at = headers[count].value.at
        /\ End(headers'[count].value) = q
        /\ \A k \in 1..count : k # count => headers'[k] = headers[k]
        /\ count \in Nat \ {0}
    BY <1>2, <1>6, <2>1, <2>4, <2>5
  <2>8. Lists(headers', lf + 1, count)
    BY <1>1, <1>2, <2>4, <2>6, <2>7, ListsFold
  <2>9. ~BadLine(line_start, lf)
    BY <1>3, <1>4, <1>6
  <2> QED BY <1>1, <1>2, <1>6, <2>8, <2>9, NextLineSplit
<1> QED BY <1>5, <1>6 DEF Continuation

LEMMA HeaderFieldSplit ==
  ASSUME SInv, pc = HEADERS, ~FoldRejected, NEW lf \in FirstLF(line_start),
         IsCRLF(line_start, lf) \/ ~policy.reject_bare_lf,
         line_end(line_start, lf) - line_start <= MaxHeaderLine,
         HeaderField(line_end(line_start, lf), lf)
  PROVE  SplitIndependent' /\ InCall' /\ Capacity'
<1> DEFINE b == line_start
           q == line_end(b, lf)
<1>1. ~is_continuation /\ q > b /\ ~Folded(b)
  BY HeaderLineText DEF HeaderField
<1>2. /\ parsed_end = b /\ b \in Begins /\ ~IsStartLine(b) /\ count = Cardinality(FieldsBefore(b))
      /\ Lists(headers, b, count) /\ count \in Nat /\ b \in Nat /\ max_headers \in Nat
      /\ q \in Nat /\ q <= lf /\ lf \in Nat /\ buf \in Seq(Bytes) /\ pc # "ready"
  BY AtHeader, InBlock, HeaderLineText, AtLine, Distinct DEF SInv
<1>3. \A i \in b + 1..q : buf[i] # LF
  BY HeaderLineText
<1>4. BadLine(b, lf) <=> BadField(b, q)
  <2>1. ~(q - b > MaxHeaderLine)
    BY <1>2, ParserAssumption
  <2> QED BY <1>1, <2>1, BadHeaderLine
<1>5. BadField(b, q) <=>
        \/ ~HeaderFits
        \/ \A c \in NameColon(b, q) : \E x \in c + 2..q : buf[x] \in {CR, "CTL"}
  BY <1>2 DEF BadField, HeaderFits
<1>6. CASE (NameColon(b, q) = {} \/ ~HeaderFits) /\ \E st : Fail(st)
  BY <1>2, <1>4, <1>5, <1>6, FailSplit
<1>7. CASE HeaderFits /\ \E c \in NameColon(b, q) : \E v \in Trimmed(c + 1, q) : Field(q, lf, c, v)
  <2>1. PICK c \in NameColon(b, q) : \E v \in Trimmed(c + 1, q) : Field(q, lf, c, v)
    BY <1>7
  <2>2. PICK v \in Trimmed(c + 1, q) : Field(q, lf, c, v)
    BY <2>1
  <2> DEFINE valid == field_text_is_valid(v.at, v.at + v.len)
  <2>3. c \in Nat /\ b < c /\ c + 1 <= q /\ c + 1 \in Nat /\ c + 1 + 1 = c + 2
    BY <1>2, <2>1 DEF NameColon
  <2>4. valid <=> ~\E x \in c + 2..q : buf[x] \in {CR, "CTL"}
    <3>1. \A i \in c + 1 + 1..q : buf[i] # LF
      BY <1>2, <1>3, <2>3
    <3> HIDE DEF q
    <3>2. valid <=> ~\E x \in c + 1 + 1..q : buf[x] \in {CR, "CTL"}
      BY <1>2, <2>2, <2>3, <3>1, ValueText
    <3> QED BY <2>3, <3>2
  <2>5. BadField(b, q) <=> ~valid
    <3>1. \A d \in NameColon(b, q) : d = c
      BY <1>2, <2>1, OneColon
    <3> HIDE DEF valid
    <3> QED BY <1>5, <1>7, <2>1, <2>4, <3>1
  <2>6. /\ headers' = [headers EXCEPT ![count + 1] =
                         [name |-> span(b, c), value |-> IF valid THEN v ELSE @.value]]
        /\ \/ valid /\ count' = count + 1 /\ NextLine(lf)
           \/ ~valid /\ Fail(IHTP_ERROR)
    BY <2>2 DEF Field
  <2> HIDE DEF valid
  <2>7. CASE ~valid /\ Fail(IHTP_ERROR)
    BY <1>2, <1>4, <2>5, <2>7, FailSplit
  <2>8. CASE valid /\ count' = count + 1 /\ NextLine(lf)
    <3>1. /\ count + 1 \in 1..MaxHeaders(mode) /\ headers \in [1..MaxHeaders(mode) -> Header]
          /\ MaxHeaders(mode) \in Nat
      BY <1>7, InBlock DEF SInv, HeaderFits
    <3>2. /\ headers'[count + 1] = [name |-> span(b, c), value |-> v]
          /\ \A k \in 1..count : headers'[k] = headers[k]
      BY <1>2, <2>6, <2>8, <3>1
    <3>3. headers'[count + 1] \in Header
      <4>1. span(b, c) \in Span
        BY <1>2, <2>3, SpanTyped
      <4>2. v \in Span
        BY <1>2, <2>2, <2>3, TrimmedInside
      <4> QED BY <3>2, <4>1, <4>2 DEF Header
    <3>4. Lists(headers', lf + 1, count + 1)
      BY <1>1, <1>2, <2>1, <2>2, <3>2, <3>3, ListsField
    <3>5. ~BadLine(b, lf) /\ count + 1 \in Nat
      BY <1>2, <1>4, <2>5, <2>8
    <3> QED BY <1>1, <2>8, <3>4, <3>5, NextLineSplit
  <2> QED BY <2>6, <2>7, <2>8
<1> QED BY <1>6, <1>7 DEF HeaderField

LEMMA HeaderLineSplit ==
  ASSUME SInv, HeaderLine
  PROVE  SplitIndependent' /\ InCall' /\ Capacity'
<1>1. PICK lf \in FirstLF(line_start) :
        /\ IsCRLF(line_start, lf) \/ ~policy.reject_bare_lf
        /\ line_end(line_start, lf) - line_start <= MaxHeaderLine
        /\ \/ HeadersDone(line_end(line_start, lf), lf)
           \/ Continuation(line_end(line_start, lf), lf)
           \/ HeaderField(line_end(line_start, lf), lf)
  BY DEF HeaderLine
<1>2. pc = HEADERS /\ ~FoldRejected
  BY DEF HeaderLine
<1>3. CASE HeadersDone(line_end(line_start, lf), lf)
  BY <1>1, <1>2, <1>3, HeadersDoneSplit
<1>4. CASE Continuation(line_end(line_start, lf), lf)
  BY <1>1, <1>2, <1>4, ContinuationSplit
<1>5. CASE HeaderField(line_end(line_start, lf), lf)
  BY <1>1, <1>2, <1>5, HeaderFieldSplit
<1> QED BY <1>1, <1>3, <1>4, <1>5

-----------------------------------------------------------------------------
(* A state that has looked at nothing yet.                                 *)
LEMMA NothingSeen ==
  ASSUME TypeOK, CallerKept, NEW b, b = 0
  PROVE  Reached(b) /\ FieldsBefore(b) = {} /\ ~BadRest(b, 0)
<1>1. len \in Nat
  BY BufferLength
<1>2. 0 \in Begins /\ \A c \in Begins : ~(c < 0)
  BY <1>1 DEF Begins
<1>3. ~BadRest(0, 0)
  BY ParserAssumption DEF BadRest
<1> QED BY <1>2, <1>3 DEF Reached, FieldsBefore

Fresh ==
  TypeOK /\ CallerKept /\ cursor = 0 /\ seen = 0 /\ num_headers = 0 /\ phase \notin {DONE, ERROR}

LEMMA FreshSplit == Fresh => SplitIndependent
<1> SUFFICES ASSUME Fresh PROVE SplitIndependent
  OBVIOUS
<1> USE DEF Fresh
<1>1. Reached(0) /\ FieldsBefore(0) = {} /\ ~BadRest(0, 0) /\ 0 \in Begins
  BY NothingSeen DEF Reached
<1>2. Agree(0, num_headers)
  BY <1>1, ListsNone DEF Agree
<1>3. Stops(0, phase, cursor, seen)
  <2>1. \A lf \in FirstLF(0) : ~(lf < 0)
    BY BufferLength DEF FirstLF
  <2> QED BY <1>1, <2>1 DEF Stops
<1> QED BY <1>1, <1>2, <1>3 DEF SplitIndependent

LEMMA InitSInv == Init => SInv
<1> SUFFICES ASSUME Init PROVE SInv
  OBVIOUS
<1>1. IInv
  BY InitIInv
<1>2. phase \notin {DONE, ERROR}
  BY Distinct DEF Init, FirstPhase
<1>3. SplitIndependent
  BY <1>1, <1>2, FreshSplit DEF Init, IInv, Fresh
<1> QED BY <1>1, <1>3 DEF Init, SInv, Capacity, InCall

LEMMA ResetSplit ==
  ASSUME SInv, Reset
  PROVE  SplitIndependent' /\ InCall' /\ Capacity'
<1>1. TypeOK' /\ CallerKept'
  BY ResetPreserves DEF SInv, IInv
<1>2. cursor' = 0 /\ seen' = 0 /\ num_headers' = 0 /\ phase' \notin {DONE, ERROR} /\ pc' = "ready"
  BY Distinct DEF Reset, ResetTo, FirstPhase, call
<1>3. SplitIndependent'
  <2>1. Fresh'
    BY <1>1, <1>2 DEF Fresh, DONE, ERROR
  <2> QED BY <2>1, FreshSplit, PTL
<1>4. Capacity'
  BY DEF Reset, ResetTo, SInv, Capacity
<1> QED BY <1>2, <1>3, <1>4 DEF InCall

Entered == TypeOK /\ CallerKept /\ parsed_end = 0 /\ parsed_count = 0

LEMMA EnteredInCall == Entered => InCall
<1> SUFFICES ASSUME Entered PROVE InCall
  OBVIOUS
<1>1. Reached(0) /\ FieldsBefore(0) = {}
  BY NothingSeen DEF Entered
<1>2. Agree(0, 0)
  BY <1>1, ListsNone DEF Agree
<1> QED BY <1>1, <1>2 DEF Entered, InCall

LEMMA StatelessSplit ==
  ASSUME SInv, ParseStateless
  PROVE  SplitIndependent' /\ InCall' /\ Capacity'
<1>1. TypeOK' /\ CallerKept'
  BY StatelessPreserves DEF SInv, IInv
<1>2. cursor' = 0 /\ pos' = 0 /\ num_headers' = 0 /\ count' = 0 /\ stateless' /\ pc' # "ready"
  BY Distinct DEF ParseStateless, Enter, FirstPhase
<1>3. Entered'
  BY <1>1, <1>2 DEF Entered, parsed_end, parsed_count, line_start
<1>4. InCall'
  BY <1>3, EnteredInCall, PTL
<1> QED BY <1>2, <1>4 DEF SplitIndependent, Capacity

(* The caller has added to the buffer, or not even that.                   *)
LEMMA StillThere ==
  ASSUME SInv, pc = "ready", pc' = "ready", SamePrefix(len), stateless' = stateless,
         UNCHANGED <<phase, cursor, outputs, seen>>
  PROVE  SplitIndependent' /\ InCall' /\ Capacity'
<1>1. PICK b \in Begins : /\ Reached(b) /\ b <= seen /\ Stops(b, phase, cursor, seen)
                          /\ phase # ERROR => Agree(b, num_headers)
  BY DEF SInv, SplitIndependent
<1>2. len \in Nat /\ seen \in 0..len
  BY BufferLength DEF SInv, IInv, TypeOK, InsideBuffer
<1>3. b \in 0..len
  BY <1>1, <1>2 DEF Begins
<1>4. phase' # ERROR => AgreeNext(b)
  BY <1>1 DEF Agree, AgreeNext, outputs
<1>5. SplitIndependent'
  BY <1>1, <1>2, <1>3, <1>4, SplitNext
<1> QED BY <1>5 DEF InCall, Capacity, SInv, SamePrefix

LEMMA ReceiveSplit ==
  ASSUME SInv, NEW slice \in Slices(mode, stateless), Receive(slice)
  PROVE  SplitIndependent' /\ InCall' /\ Capacity'
<1>1. slice \in Seq(Bytes) /\ buf \in Seq(Bytes)
  BY ParserAssumption DEF SInv, IInv, CallerKept, TypeOK
<1>2. buf' = buf \o slice
  BY DEF Receive
<1>3. /\ buf' \in Seq(Bytes) /\ len' = len + Len(slice) /\ Len(slice) \in Nat /\ len \in Nat
      /\ \A i \in 1..len : buf'[i] = buf[i]
  BY <1>1, <1>2, ConcatProperties, LenProperties DEF len
<1>4. /\ pc = "ready" /\ pc' = "ready" /\ UNCHANGED <<phase, cursor, outputs, seen>>
      /\ mode' = mode /\ policy' = policy /\ stateless' = stateless /\ max_headers' = max_headers
  BY DEF Receive, state, call
<1>5. SamePrefix(len)
  BY <1>1, <1>3, <1>4 DEF SamePrefix
<1> QED BY <1>4, <1>5, StillThere

LEMMA StatefulSplit ==
  ASSUME SInv, NEW m \in {REQUEST, RESPONSE, HEADERS}, ParseStateful(m)
  PROVE  SplitIndependent' /\ InCall' /\ Capacity'
<1>1. pc = "ready" /\ ~stateless
  BY DEF ParseStateful
<1>2. CASE /\ \E st, c : Return(st, c)
           /\ UNCHANGED <<state, outputs, caller, pos, count>>
  <2>1. /\ pc' = "ready" /\ UNCHANGED <<phase, cursor, outputs, seen>> /\ UNCHANGED text
        /\ stateless' = stateless
    BY <1>2 DEF Return, state, caller, text
  <2>2. SamePrefix(len)
    BY <2>1, Unchanged DEF SInv
  <2> QED BY <1>1, <2>1, <2>2, StillThere
<1>3. CASE /\ m = mode /\ phase \in {START_LINE, HEADERS}
           /\ Enter(phase, num_headers, MaxHeaders(mode))
           /\ UNCHANGED <<state, outputs>>
  <2>1. /\ pc' = phase /\ pos' = 0 /\ count' = num_headers /\ UNCHANGED text /\ stateless' = stateless
        /\ cursor' = cursor /\ start' = start /\ headers' = headers /\ num_headers' = num_headers
    BY <1>1, <1>3 DEF Enter, state, outputs, text, SInv, Capacity
  <2>2. PICK b \in Begins : /\ Reached(b) /\ b <= seen /\ Stops(b, phase, cursor, seen)
                            /\ phase # ERROR => Agree(b, num_headers)
    BY <1>1 DEF SInv, SplitIndependent
  <2>3. phase \notin {DONE, ERROR} /\ phase # "ready"
    BY <1>3, Distinct
  <2>4. cursor = b /\ Agree(b, num_headers)
    BY <2>2, <2>3 DEF Stops
  <2>5. len \in Nat /\ b \in 0..len /\ num_headers \in Nat /\ cursor \in Nat
    BY <2>2, BufferLength DEF SInv, IInv, TypeOK, Begins
  <2>6. parsed_end' = b /\ parsed_count' = num_headers /\ pc' # "ready"
    BY <2>1, <2>3, <2>4, <2>5 DEF parsed_end, parsed_count, line_start
  <2>7. Lists(headers', b, num_headers) /\
        (mode # HEADERS /\ b # 0 => \E lf \in FirstLF(0) : start' \in StartOf(line_end(0, lf)))
    BY <2>1, <2>4 DEF Agree
  <2> QED BY <2>1, <2>2, <2>5, <2>6, <2>7, GoOn
<1> QED BY <1>2, <1>3 DEF ParseStateful

LEMMA NextSInv ==
  ASSUME SInv, [Next]_vars
  PROVE  SInv'
<1>1. IInv'
  BY NextIInv DEF SInv
<1>2. SplitIndependent' /\ InCall' /\ Capacity'
  <2>1. CASE Step
    BY <2>1, StartLinePartialSplit, StartLineSplit, HeadersPartialSplit, LineRefusedSplit,
       HeaderLineSplit DEF Step
  <2>2. CASE \E slice \in Slices(mode, stateless) : Receive(slice)
    BY <2>2, ReceiveSplit
  <2>3. CASE \E m \in {REQUEST, RESPONSE, HEADERS} : ParseStateful(m)
    BY <2>3, StatefulSplit
  <2>4. CASE ParseStateless
    BY <2>4, StatelessSplit
  <2>5. CASE Reset
    BY <2>5, ResetSplit
  <2>6. CASE UNCHANGED vars
    <3>1. /\ pc' = pc /\ UNCHANGED <<phase, cursor, outputs, seen>> /\ UNCHANGED text
          /\ stateless' = stateless /\ count' = count /\ pos' = pos
      BY <2>6 DEF vars, state, outputs, caller, call, text
    <3>2. SamePrefix(len)
      BY <3>1, Unchanged DEF SInv
    <3>3. CASE pc = "ready"
      BY <3>1, <3>2, <3>3, StillThere
    <3>4. CASE pc # "ready"
      <4>1. PICK b, n \in Nat : b = parsed_end /\ n = parsed_count /\ Reached(b) /\ Agree(b, n)
        BY <3>4 DEF SInv, InCall
      <4>2. b \in 0..len
        BY <3>4, <4>1, AtLine
      <4>3. parsed_end' = b /\ parsed_count' = n
        BY <3>1, <4>1 DEF parsed_end, parsed_count, line_start, outputs
      <4>4. Lists(headers', b, n) /\
            (mode # HEADERS /\ b # 0 => \E lf \in FirstLF(0) : start' \in StartOf(line_end(0, lf)))
        BY <3>1, <4>1 DEF Agree, outputs
      <4> QED BY <3>1, <3>4, <4>1, <4>2, <4>3, <4>4, GoOn
    <3> QED BY <3>3, <3>4
  <2> QED BY <2>1, <2>2, <2>3, <2>4, <2>5, <2>6 DEF Next
<1> QED BY <1>1, <1>2 DEF SInv

-----------------------------------------------------------------------------
(* However a message head is cut into slices and however many calls look   *)
(* at it, with the stateful entry points or the stateless wrappers, the    *)
(* verdict, the end, the start line and the headers are those of one look  *)
(* at all the bytes seen (lines 372-594, 617-823): for every buffer,       *)
(* policy, limit and number of header places.                              *)
THEOREM VerdictOfWhole == Spec => []SplitIndependent
<1>1. SInv => SplitIndependent
  BY DEF SInv
<1> QED BY <1>1, InitSInv, NextSInv, PTL DEF Spec
=============================================================================
