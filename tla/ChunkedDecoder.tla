--------------------------- MODULE ChunkedDecoder ---------------------------
(***************************************************************************)
(* The incremental chunked-body decoder, src/ihtp_body_decoder.c: one      *)
(* ihtp_chunked_decoder_t driven by a caller that hands over the body in   *)
(* slices.  Call starts an ihtp_decode_chunked() call; every iteration of  *)
(* its while loop is one action, named for the switch case it executes;    *)
(* the call ends with Complete, Reject or NeedMore.                        *)
(*                                                                         *)
(* A byte is one of the characters the switch tells apart: a hex digit,    *)
(* ";", CR, LF, or any other byte.                                         *)
(***************************************************************************)
EXTENDS Integers, Sequences

CONSTANTS
  HexDigits,       \* the bytes accepted as hex digits
  HexValue,        \* ihtp_hex_digit_to_u64
  OtherBytes,      \* bytes with no meaning for the framing
  MaxHexDigits,    \* the 16 of "hex_count >= 16"
  Pow16,           \* Pow16[n] = 16^n; Pow16[MaxHexDigits] plays 2^64
  IntMax,          \* INT_MAX, the largest value of ihtp_status_t
  Slices,          \* the slices a caller may hand over in one call
  MaxWire,         \* bound: bytes handed over in a behaviour
  RetryAfterError  \* whether the caller calls again after IHTP_ERROR

CR   == "CR"
LF   == "LF"
SEMI == ";"

Bytes == HexDigits \cup OtherBytes \cup {CR, LF, SEMI}

ASSUME DigitAssumption ==
  /\ HexValue \in [HexDigits -> 0..15]
  /\ {CR, LF, SEMI} \cap HexDigits = {}

ASSUME WidthAssumption ==
  /\ MaxHexDigits \in Nat \ 0..3
  /\ Pow16 \in [0..MaxHexDigits -> Nat]
  /\ Pow16[0] = 1
  /\ \A n \in 0..MaxHexDigits - 1 : Pow16[n + 1] = 16 * Pow16[n]
  /\ \A n \in 0..MaxHexDigits : Pow16[n] <= Pow16[MaxHexDigits]
  /\ IntMax \in Nat \ 0..1

ASSUME CallerAssumption ==
  /\ Slices \subseteq Seq(Bytes)
  /\ MaxWire \in Nat
  /\ RetryAfterError \in BOOLEAN

(* ihtp_status_t; a non-negative result is a count of trailing bytes.      *)
IHTP_OK         == 0
IHTP_ERROR      == -1
IHTP_INCOMPLETE == -2

(* decoder->state *)
CHUNK_SIZE    == "CHUNK_SIZE"
CHUNK_EXT     == "CHUNK_EXT"
CHUNK_SIZE_LF == "CHUNK_SIZE_LF"
CHUNK_DATA    == "CHUNK_DATA"
CHUNK_DATA_CR == "CHUNK_DATA_CR"
CHUNK_DATA_LF == "CHUNK_DATA_LF"
CHUNK_TRAILER == "CHUNK_TRAILER"
CHUNK_DONE    == "CHUNK_DONE"

ChunkStates == {CHUNK_SIZE, CHUNK_EXT, CHUNK_SIZE_LF, CHUNK_DATA,
                CHUNK_DATA_CR, CHUNK_DATA_LF, CHUNK_TRAILER, CHUNK_DONE}

(* decoder->hex_count is reused as the trailer sub-state.                  *)
TRAILER_LINE_START == 0
TRAILER_DONE_LF    == 1
TRAILER_LINE       == 2
TRAILER_LINE_LF    == 3

VARIABLES
  \* ihtp_chunked_decoder_t, kept by the caller between calls
  state, hex_count, bytes_left_in_chunk, total_decoded, consume_trailer,
  \* the call: arguments and locals of ihtp_decode_chunked
  pc, buf, avail, src, dst,
  \* what the last call returned: its value and *bufsz
  status, bufsz,
  \* history: the slice as the caller passed it, the bytes consumed and the
  \* payload returned by all calls, the size the chunk header spells and
  \* the payload bytes taken from that chunk
  input, consumed, delivered, declared, taken

decoder == <<state, hex_count, bytes_left_in_chunk, total_decoded, consume_trailer>>
call    == <<pc, buf, avail, src, dst>>
result  == <<status, bufsz>>
history == <<input, consumed, delivered, declared, taken>>
vars    == <<decoder, call, result, history>>

-----------------------------------------------------------------------------
(* Slip: moves the whole rest of the slice instead of n bytes.             *)
memmoveRest(d, s, n) ==
  [i \in 1..avail |-> IF i > d /\ i - d + s <= avail THEN buf[i - d + s] ELSE buf[i]]

(* memmove(buf + d, buf + s, n)                                            *)
memmove(d, s, n) ==
  [i \in 1..avail |-> IF i \in d + 1..d + n THEN buf[i - d + s] ELSE buf[i]]

(* The cast (ihtp_status_t)(avail - src): an int, so it wraps.             *)
ToStatus(n) ==
  LET m == n % (2 * (IntMax + 1))
  IN  IF m <= IntMax THEN m ELSE m - 2 * (IntMax + 1)

Smaller(a, b) == IF a > b THEN b ELSE a

(* buf[src] in the code *)
byte == buf[src + 1]

At(s) == pc = "decoding" /\ src < avail /\ state = s

(* One byte of framing is passed over.                                     *)
Frame(next, count) ==
  /\ state' = next
  /\ hex_count' = count
  /\ src' = src + 1
  /\ UNCHANGED <<bytes_left_in_chunk, total_decoded, consume_trailer,
                 pc, buf, avail, dst, result, history>>

(* return IHTP_ERROR: neither the decoder nor *bufsz is written.           *)
Reject ==
  /\ pc' = "ready"
  /\ status' = IHTP_ERROR
  /\ consumed' = consumed \o SubSeq(input, 1, src + 1)
  /\ UNCHANGED <<decoder, buf, avail, src, dst, bufsz, input, delivered, declared, taken>>

(* Slip: the unread bytes stay where they are.                             *)
CompleteInPlace(read) ==
  /\ pc' = "ready"
  /\ state' = CHUNK_DONE
  /\ src' = read
  /\ bufsz' = dst
  /\ status' = ToStatus(avail - read)
  /\ consumed' = consumed \o SubSeq(input, 1, read)
  /\ delivered' = delivered \o SubSeq(buf, 1, dst)
  /\ UNCHANGED <<hex_count, bytes_left_in_chunk, total_decoded, consume_trailer,
                 buf, avail, dst, input, declared, taken>>

(* The body is complete: what is left of the slice moves down behind the   *)
(* decoded prefix and its length is returned.                              *)
Complete(read) ==
  /\ pc' = "ready"
  /\ state' = CHUNK_DONE
  /\ src' = read
  /\ buf' = IF read < avail THEN memmove(dst, read, avail - read) ELSE buf
  /\ bufsz' = dst
  /\ status' = ToStatus(avail - read)
  /\ consumed' = consumed \o SubSeq(input, 1, read)
  /\ delivered' = delivered \o SubSeq(buf, 1, dst)
  /\ UNCHANGED <<hex_count, bytes_left_in_chunk, total_decoded, consume_trailer,
                 avail, dst, input, declared, taken>>

-----------------------------------------------------------------------------
(* The caller hands over the next slice.                                   *)
Call(slice) ==
  /\ pc = "ready"
  /\ RetryAfterError \/ status # IHTP_ERROR
  /\ Len(consumed) + Len(slice) <= MaxWire
  /\ pc' = "decoding"
  /\ buf' = slice
  /\ input' = slice
  /\ avail' = Len(slice)
  /\ bufsz' = Len(slice)
  /\ src' = 0
  /\ dst' = 0
  /\ UNCHANGED <<decoder, status, consumed, delivered, declared, taken>>

(* Slip: one digit too many.                                               *)
SizeDigitFitsLate == hex_count <= MaxHexDigits

SizeDigitFits == hex_count < MaxHexDigits

SizeDigit ==
  /\ byte \in HexDigits
  /\ SizeDigitFits
  /\ bytes_left_in_chunk' =
       (bytes_left_in_chunk * 16 + HexValue[byte]) % Pow16[MaxHexDigits]
  /\ declared' = declared * 16 + HexValue[byte]
  /\ hex_count' = hex_count + 1
  /\ src' = src + 1
  /\ UNCHANGED <<state, total_decoded, consume_trailer, pc, buf, avail, dst,
                 result, input, consumed, delivered, taken>>

ChunkSize ==
  /\ At(CHUNK_SIZE)
  /\ \/ SizeDigit
     \/ byte = SEMI /\ Frame(CHUNK_EXT, hex_count)
     \/ byte = CR /\ hex_count # 0 /\ Frame(CHUNK_SIZE_LF, hex_count)
     \/ byte \in HexDigits /\ ~SizeDigitFits /\ Reject
     \/ byte = CR /\ hex_count = 0 /\ Reject
     \/ byte \notin HexDigits \cup {SEMI, CR} /\ Reject

ChunkExt ==
  /\ At(CHUNK_EXT)
  /\ \/ byte = CR /\ Frame(CHUNK_SIZE_LF, hex_count)
     \/ byte = LF /\ Reject
     \/ byte \notin {CR, LF} /\ Frame(CHUNK_EXT, hex_count)

(* Slip: the trailer starts in whatever sub-state the size line left.      *)
ChunkSizeLFKeepsCount ==
  /\ At(CHUNK_SIZE_LF)
  /\ \/ byte # LF /\ Reject
     \/ byte = LF /\ bytes_left_in_chunk # 0 /\ Frame(CHUNK_DATA, hex_count)
     \/ /\ byte = LF /\ bytes_left_in_chunk = 0 /\ consume_trailer
        /\ Frame(CHUNK_TRAILER, hex_count)
     \/ /\ byte = LF /\ bytes_left_in_chunk = 0 /\ ~consume_trailer
        /\ Complete(src + 1)

ChunkSizeLF ==
  /\ At(CHUNK_SIZE_LF)
  /\ \/ byte # LF /\ Reject
     \/ byte = LF /\ bytes_left_in_chunk # 0 /\ Frame(CHUNK_DATA, hex_count)
     \/ /\ byte = LF /\ bytes_left_in_chunk = 0 /\ consume_trailer
        /\ Frame(CHUNK_TRAILER, TRAILER_LINE_START)
     \/ /\ byte = LF /\ bytes_left_in_chunk = 0 /\ ~consume_trailer
        /\ Complete(src + 1)

(* Slip: the copy does not stop at the end of the chunk.                   *)
to_copySlice == avail - src

(* The copy runs to the end of the slice or of the chunk.                  *)
to_copy == Smaller(avail - src, bytes_left_in_chunk)

(* Slip: the rest of the slice is counted, framing included.               *)
countedSlice == total_decoded + avail - src

counted == total_decoded + to_copy

ChunkData ==
  /\ At(CHUNK_DATA)
  /\ buf' = memmove(dst, src, to_copy)
  /\ dst' = dst + to_copy
  /\ src' = src + to_copy
  /\ bytes_left_in_chunk' = bytes_left_in_chunk - to_copy
  /\ total_decoded' = counted
  /\ taken' = taken + to_copy
  /\ state' = IF bytes_left_in_chunk' = 0 THEN CHUNK_DATA_CR ELSE CHUNK_DATA
  /\ UNCHANGED <<hex_count, consume_trailer, pc, avail, result,
                 input, consumed, delivered, declared>>

ChunkDataCR ==
  /\ At(CHUNK_DATA_CR)
  /\ \/ byte # CR /\ Reject
     \/ byte = CR /\ Frame(CHUNK_DATA_LF, hex_count)

(* Slip: the digit count of one chunk carries over into the next.          *)
NextChunkKeepsCount ==
  /\ state' = CHUNK_SIZE
  /\ bytes_left_in_chunk' = 0
  /\ declared' = 0
  /\ taken' = 0
  /\ src' = src + 1
  /\ UNCHANGED <<hex_count, total_decoded, consume_trailer, pc, buf, avail, dst,
                 result, input, consumed, delivered>>

(* The counters start over for the next chunk.                             *)
NextChunk ==
  /\ state' = CHUNK_SIZE
  /\ hex_count' = 0
  /\ bytes_left_in_chunk' = 0
  /\ declared' = 0
  /\ taken' = 0
  /\ src' = src + 1
  /\ UNCHANGED <<total_decoded, consume_trailer, pc, buf, avail, dst,
                 result, input, consumed, delivered>>

ChunkDataLF ==
  /\ At(CHUNK_DATA_LF)
  /\ \/ byte # LF /\ Reject
     \/ byte = LF /\ NextChunk

TrailerLineStart ==
  /\ hex_count = TRAILER_LINE_START
  /\ \/ byte = CR /\ Frame(CHUNK_TRAILER, TRAILER_DONE_LF)
     \/ byte = LF /\ Reject
     \/ byte \notin {CR, LF} /\ Frame(CHUNK_TRAILER, TRAILER_LINE)

TrailerDoneLF ==
  /\ hex_count = TRAILER_DONE_LF
  /\ \/ byte # LF /\ Reject
     \/ byte = LF /\ Complete(src + 1)

TrailerLine ==
  /\ hex_count = TRAILER_LINE
  /\ \/ byte = CR /\ Frame(CHUNK_TRAILER, TRAILER_LINE_LF)
     \/ byte = LF /\ Reject
     \/ byte \notin {CR, LF} /\ Frame(CHUNK_TRAILER, TRAILER_LINE)

TrailerLineLF ==
  /\ hex_count = TRAILER_LINE_LF
  /\ \/ byte # LF /\ Reject
     \/ byte = LF /\ Frame(CHUNK_TRAILER, TRAILER_LINE_START)

(* The sub-state is always one of the four (TrailerSubState), so the final  *)
(* "return IHTP_ERROR" of the case is never reached.                       *)
ChunkTrailer ==
  /\ At(CHUNK_TRAILER)
  /\ TrailerLineStart \/ TrailerDoneLF \/ TrailerLine \/ TrailerLineLF

(* Slips: the switch has no such case; a finished decoder starts over.     *)
ChunkDoneMissing  == At(CHUNK_DONE) /\ UNCHANGED vars
ChunkDoneRestarts == At(CHUNK_DONE) /\ Frame(CHUNK_SIZE, 0)

(* A call on a finished decoder gives the whole slice back.                *)
ChunkDone == At(CHUNK_DONE) /\ Complete(src)

(* The loop has read the slice to its end.                                 *)
NeedMore ==
  /\ pc = "decoding" /\ src >= avail
  /\ pc' = "ready"
  /\ status' = IHTP_INCOMPLETE
  /\ bufsz' = dst
  /\ consumed' = consumed \o input
  /\ delivered' = delivered \o SubSeq(buf, 1, dst)
  /\ UNCHANGED <<decoder, buf, avail, src, dst, input, declared, taken>>

-----------------------------------------------------------------------------
(* A zero-initialised decoder; the caller chooses consume_trailer.         *)
Init ==
  /\ state = CHUNK_SIZE
  /\ hex_count = 0
  /\ bytes_left_in_chunk = 0
  /\ total_decoded = 0
  /\ consume_trailer \in BOOLEAN
  /\ pc = "ready"
  /\ buf = <<>> /\ avail = 0 /\ src = 0 /\ dst = 0
  /\ status = IHTP_OK /\ bufsz = 0
  /\ input = <<>> /\ consumed = <<>> /\ delivered = <<>>
  /\ declared = 0 /\ taken = 0

Step == \/ ChunkSize \/ ChunkExt \/ ChunkSizeLF \/ ChunkData \/ ChunkDataCR
        \/ ChunkDataLF \/ ChunkTrailer \/ ChunkDone \/ NeedMore

Next == Step \/ \E slice \in Slices : Call(slice)

Spec == Init /\ [][Next]_vars

(* A call that has begun runs on: the decoder is plain sequential code.    *)
FairSpec == Spec /\ WF_vars(Step)

-----------------------------------------------------------------------------
TypeOK ==
  /\ state \in ChunkStates
  /\ hex_count \in 0..MaxHexDigits
  /\ bytes_left_in_chunk \in 0..Pow16[MaxHexDigits] - 1
  /\ total_decoded \in Nat
  /\ consume_trailer \in BOOLEAN
  /\ pc \in {"ready", "decoding"}
  /\ avail \in Nat /\ src \in Nat /\ dst \in Nat
  /\ buf \in [1..avail -> Bytes]
  /\ status \in -(IntMax + 1)..IntMax
  /\ bufsz \in Nat
  /\ input \in Seq(Bytes) /\ Len(input) = avail
  /\ consumed \in Seq(Bytes) /\ delivered \in Seq(Bytes)
  /\ declared \in Nat /\ taken \in Nat

(* Decoding in place never overtakes itself ("dst <= src always", comment  *)
(* at ihtp_body_decoder.c:129) and the bytes not yet read are still the    *)
(* caller's.                                                               *)
InPlace ==
  /\ dst <= src /\ src <= avail
  /\ pc = "decoding" => \A i \in src + 1..avail : buf[i] = input[i]

(* The chunk size is exactly the number the size line spells, with no wrap *)
(* of the 64-bit accumulator and nothing left over from the chunk before   *)
(* it, and exactly that many bytes are copied before the CRLF that ends    *)
(* the chunk is expected (lines 82-86, 124-138, 154-157).                  *)
ChunkAccounting ==
  /\ state \in {CHUNK_SIZE, CHUNK_EXT, CHUNK_SIZE_LF} =>
       bytes_left_in_chunk = declared /\ taken = 0
  /\ state = CHUNK_DATA =>
       bytes_left_in_chunk > 0 /\ bytes_left_in_chunk + taken = declared
  /\ state \in {CHUNK_DATA_CR, CHUNK_DATA_LF} =>
       bytes_left_in_chunk = 0 /\ taken = declared
  /\ state \in {CHUNK_TRAILER, CHUNK_DONE} => declared = 0

(* hex_count serves two state machines (lines 82-86 and 109, 160-210): it  *)
(* is a trailer sub-state whenever the trailer is being read.              *)
TrailerSubState == state = CHUNK_TRAILER => hex_count \in 0..3

(* On completion the unread bytes of the slice sit immediately after the   *)
(* decoded prefix, unchanged, and the return value is their number         *)
(* (ihtp_body.h:53 and 57-58), for every slice whose length an int holds.  *)
TrailingBytes ==
  pc = "ready" /\ state = CHUNK_DONE /\ status # IHTP_INCOMPLETE /\ avail <= IntMax =>
    /\ status = avail - src
    /\ \A i \in 1..avail - src : buf[bufsz + i] = input[src + i]

(* total_decoded is the number of payload bytes the calls returned, never  *)
(* framing or trailer bytes (ihtp_body.h:26), however the body was sliced. *)
TotalCountsPayload ==
  status # IHTP_ERROR \/ pc = "decoding" =>
    total_decoded = Len(delivered) + IF pc = "decoding" THEN dst ELSE 0

(* What makes the parts above inductive: the digits read so far bound the  *)
(* number they spell, so the accumulator cannot wrap before the digit      *)
(* count stops it (lines 82-86).                                           *)
SizeBound ==
  state \in {CHUNK_SIZE, CHUNK_EXT, CHUNK_SIZE_LF} => declared < Pow16[hex_count]

IInv == TypeOK /\ InPlace /\ ChunkAccounting /\ SizeBound /\ TrailerSubState

(* Every call comes back: no iteration of the loop leaves src and state    *)
(* where they were.                                                        *)
CallReturns == pc = "decoding" ~> pc = "ready"

(* Once the body is complete the decoder never counts another payload byte *)
(* or leaves CHUNK_DONE, whatever it is handed (lines 212-217).            *)
DoneIsFinal ==
  [][state = CHUNK_DONE => state' = CHUNK_DONE /\ total_decoded' = total_decoded]_vars
=============================================================================
