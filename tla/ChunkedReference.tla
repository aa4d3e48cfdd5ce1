-------------------------- MODULE ChunkedReference --------------------------
(***************************************************************************)
(* The chunked coding as a grammar, decoded in one piece: RefDecode reads  *)
(* a whole byte sequence line by line and chunk by chunk, with no decoder  *)
(* state, no slices and no buffer to rewrite.  It is the yardstick for the *)
(* slice-by-slice decoder.                                                 *)
(***************************************************************************)
EXTENDS ChunkedDecoder, FiniteSetsExt

Drop(w, n) == SubSeq(w, n + 1, Len(w))

(* A piece of framing at the start of a byte sequence: "ok" when it is     *)
(* whole, "more" when it is cut off, "bad" when its last byte cannot be    *)
(* there; and the bytes it takes.                                          *)
Piece(kind, used) == [kind |-> kind, used |-> used]

(* kind: "more" (a proper prefix of a body), "done" or "bad"; rest: bytes  *)
(* after the end of the body or of the bad byte.                           *)
Outcome(kind, payload, rest) == [kind |-> kind, payload |-> payload, rest |-> rest]

Prepend(data, o) == Outcome(o.kind, data \o o.payload, o.rest)

(* What follows a piece counts only when the piece is whole.               *)
After(piece, w, next) ==
  IF piece.kind = "ok" THEN next ELSE Outcome(piece.kind, <<>>, Drop(w, piece.used))

(* The LF of a CRLF.                                                       *)
LineFeed(w) == IF w = <<>> THEN Piece("more", 0) ELSE Piece(IF w[1] = LF THEN "ok" ELSE "bad", 1)

(* Text up to a CRLF; a bare LF is an error.                               *)
Line(w) ==
  LET ends == {k \in 1..Len(w) : w[k] \in {CR, LF}}
      k    == Min(ends)
      lf   == LineFeed(Drop(w, k))
  IN  IF ends = {} THEN Piece("more", Len(w))
      ELSE IF w[k] = LF THEN Piece("bad", k)
      ELSE Piece(lf.kind, k + lf.used)

(* The CRLF after the data of a chunk.                                     *)
DataEnd(w) == IF w # <<>> /\ w[1] # CR THEN Piece("bad", 1) ELSE Line(w)

(* How many hex digits w begins with, and the number that digits spell.    *)
Digits(w) == Min({k \in 1..Len(w) : w[k] \notin HexDigits} \cup {Len(w) + 1}) - 1

Number[digits \in Seq(HexDigits)] ==
  LET n == Len(digits)
  IN  IF n = 0 THEN 0 ELSE 16 * Number[SubSeq(digits, 1, n - 1)] + HexValue[digits[n]]

(* chunk-size [ chunk-ext ] CRLF                                           *)
SizeLine(w, needDigit) ==
  LET n == Digits(w)
  IN  IF n > MaxHexDigits THEN Piece("bad", MaxHexDigits + 1)
      ELSE IF n = Len(w) THEN Piece("more", n)
      ELSE IF \/ w[n + 1] = SEMI /\ (n > 0 \/ ~needDigit)
              \/ w[n + 1] = CR /\ n > 0 THEN Line(w)
      ELSE Piece("bad", n + 1)

(* Lines up to an empty one.                                               *)
Trailer[w \in Seq(Bytes)] ==
  LET line == Line(w)
      rest == Drop(w, line.used)
  IN  After(line, w, IF w[1] = CR THEN Outcome("done", <<>>, rest) ELSE Trailer[rest])

RefDecode(needDigit, trailers) ==
  LET decode[w \in Seq(Bytes)] ==
        LET line == SizeLine(w, needDigit)
            size == Number[SubSeq(w, 1, Digits(w))]
            r    == Drop(w, line.used)
            data == SubSeq(r, 1, Smaller(size, Len(r)))
            q    == Drop(r, Len(data))
            end  == DataEnd(q)
        IN  After(line, w,
                  IF size # 0 THEN Prepend(data, After(end, q, decode[Drop(q, end.used)]))
                  ELSE IF trailers THEN Trailer[r]
                  ELSE Outcome("done", <<>>, r))
  IN  decode

(* What the calls so far have reported, in the reference's terms.          *)
ReportedKind == IF status = IHTP_ERROR THEN "bad"
                ELSE IF state = CHUNK_DONE THEN "done" ELSE "more"

AgreesWith(ref) ==
  /\ ref.kind = ReportedKind
  /\ ref.rest = <<>>
  /\ status # IHTP_ERROR => ref.payload = delivered

(* However a body is cut into slices, the calls together return the        *)
(* payload that decoding it in one piece gives, find the end of the body   *)
(* at the same byte, and reject it at the same byte.  A size line with an  *)
(* extension and no digit counts as size 0, as the code has it             *)
(* (lines 67-70).                                                          *)
SliceIndependent == pc = "ready" => AgreesWith(RefDecode(FALSE, consume_trailer)[consumed])

(* RFC 9112 section 7.1 (docs/rfc/rfc9112.txt): chunk-size = 1*HEXDIG, so  *)
(* a size line with no digit is malformed, with or without an extension.   *)
RFCChunkSize == pc = "ready" => AgreesWith(RefDecode(TRUE, consume_trailer)[consumed])
=============================================================================
