----------------------------- MODULE ChunkedBody -----------------------------
(***************************************************************************)
(* What the chunked decoder promises (include/iohttpparser/ihtp_body.h):   *)
(* the chunked coding read as one stream of bytes.  There are no calls, no *)
(* slices and no buffer, the chunk size is a number and not a word, and    *)
(* every state has a name of its own.  ChunkedDecoder implements it.       *)
(***************************************************************************)
EXTENDS Integers, Sequences

CONSTANTS HexDigits, HexValue, OtherBytes, MaxHexDigits

CR   == "CR"
LF   == "LF"
SEMI == ";"

Bytes == HexDigits \cup OtherBytes \cup {CR, LF, SEMI}

VARIABLES
  phase,    \* what the next byte belongs to
  digits,   \* digits of the size read so far
  left,     \* the size they spell; then the payload bytes still to come
  read,     \* the stream so far
  payload,  \* the body so far
  trailers  \* whether the trailer section belongs to the body

vars == <<phase, digits, left, read, payload, trailers>>

Init ==
  /\ phase = "size" /\ digits = 0 /\ left = 0
  /\ read = <<>> /\ payload = <<>>
  /\ trailers \in BOOLEAN

(* A byte of framing: it is read, and the body does not change.            *)
Framing(b) == read' = Append(read, b) /\ UNCHANGED <<payload, trailers>>

Goto(from, b, to) ==
  /\ phase = from /\ phase' = to
  /\ Framing(b)
  /\ UNCHANGED <<digits, left>>

Digit(b) ==
  /\ phase = "size" /\ b \in HexDigits /\ digits < MaxHexDigits
  /\ digits' = digits + 1
  /\ left' = 16 * left + HexValue[b]
  /\ Framing(b)
  /\ UNCHANGED phase

(* The size ends; an extension may follow it.                              *)
SizeEnd(b) ==
  /\ phase = "size" /\ digits' = 0 /\ UNCHANGED left
  /\ \/ b = SEMI /\ phase' = "extension"
     \/ b = CR /\ digits > 0 /\ phase' = "size LF"
  /\ Framing(b)

Extension(b) ==
  \/ b \notin {CR, LF} /\ Goto("extension", b, "extension")
  \/ b = CR /\ Goto("extension", b, "size LF")

LineEnd(b) ==
  /\ b = LF
  /\ \/ left > 0 /\ Goto("size LF", b, "data")
     \/ left = 0 /\ trailers /\ Goto("size LF", b, "trailer")
     \/ left = 0 /\ ~trailers /\ Goto("size LF", b, "done")

(* Some of the bytes the size announced, one or many at a time.            *)
Data(n) ==
  /\ phase = "data" /\ n \in 1..left
  /\ \E bytes \in {SubSeq(read', Len(read) + 1, Len(read'))} :
       /\ Len(bytes) = n
       /\ read' = read \o bytes
       /\ payload' = payload \o bytes
  /\ left' = left - n
  /\ phase' = IF left' = 0 THEN "data CR" ELSE "data"
  /\ UNCHANGED <<digits, trailers>>

DataEnd(b) ==
  \/ b = CR /\ Goto("data CR", b, "data LF")
  \/ b = LF /\ Goto("data LF", b, "size")

Trailer(b) ==
  \/ b \notin {CR, LF} /\ Goto("trailer", b, "trailer line")
  \/ b = CR /\ Goto("trailer", b, "last LF")
  \/ b \notin {CR, LF} /\ Goto("trailer line", b, "trailer line")
  \/ b = CR /\ Goto("trailer line", b, "trailer LF")
  \/ b = LF /\ Goto("trailer LF", b, "trailer")
  \/ b = LF /\ Goto("last LF", b, "done")

(* What a byte may be, by phase: any other ends the stream.                *)
Allowed ==
  CASE phase = "size" -> (IF digits < MaxHexDigits THEN HexDigits ELSE {})
                           \cup {SEMI} \cup (IF digits > 0 THEN {CR} ELSE {})
    [] phase \in {"extension", "trailer", "trailer line"} -> Bytes \ {LF}
    [] phase \in {"size LF", "data LF", "trailer LF", "last LF"} -> {LF}
    [] phase = "data CR" -> {CR}
    [] OTHER -> Bytes

(* A byte that may not be here; what the call in which it was met had      *)
(* decoded is not reported.                                                *)
Bad(b) ==
  /\ phase \notin {"data", "done", "bad"} /\ b \in Bytes \ Allowed
  /\ phase' = "bad"
  /\ read' = Append(read, b)
  /\ \E n \in 0..Len(payload) : payload' = SubSeq(payload, 1, n)
  /\ UNCHANGED <<digits, left, trailers>>

Next ==
  \/ \E b \in Bytes : \/ Digit(b) \/ SizeEnd(b) \/ Extension(b) \/ LineEnd(b)
                      \/ DataEnd(b) \/ Trailer(b) \/ Bad(b)
  \/ Data(Len(read') - Len(read))

Spec == Init /\ [][Next]_vars
=============================================================================
