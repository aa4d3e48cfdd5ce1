------------------------ MODULE ChunkedDecoderProofs ------------------------
(***************************************************************************)
(* Proofs about the chunked decoder, for every alphabet of bytes, every    *)
(* set of slices and every number of bits of the size accumulator.  The    *)
(* inductive invariant is IInv of ChunkedDecoder.  The second part shows   *)
(* that the decoder implements the stream of ChunkedBody, for callers that *)
(* stop at an error and whose slices an int can count.                     *)
(***************************************************************************)
EXTENDS ChunkedRefinement, SequenceTheorems, TLAPS

(* x % y is x when x is below y: a reduction that does not wrap.           *)
LEMMA ModIdentity ==
  ASSUME NEW y \in Nat \ {0}, NEW x \in 0..y - 1
  PROVE  x % y = x
  OBVIOUS

(* The cast to ihtp_status_t always gives an int, and is exact for a count *)
(* that an int holds.                                                      *)
LEMMA CastRange ==
  ASSUME NEW n \in Nat
  PROVE  /\ ToStatus(n) \in -(IntMax + 1)..IntMax
         /\ n <= IntMax => ToStatus(n) = n
<1> DEFINE w == 2 * (IntMax + 1)
<1>1. w \in Nat \ {0} /\ IntMax \in Nat
  BY WidthAssumption
<1>2. n % w \in 0..w - 1
  BY <1>1
<1>3. n <= IntMax => n % w = n
  <2>1. n <= IntMax => n \in 0..w - 1
    BY <1>1
  <2> HIDE DEF w
  <2> QED BY <1>1, <2>1, ModIdentity
<1> QED BY <1>1, <1>2, <1>3 DEF ToStatus

(* A memmove inside the slice leaves a buffer of bytes of the same length. *)
LEMMA MoveTyped ==
  ASSUME TypeOK, NEW d \in Nat, NEW s \in Nat, NEW n \in Nat, s + n <= avail
  PROVE  memmove(d, s, n) \in [1..avail -> Bytes]
  BY DEF TypeOK, memmove

(* The prefix of a slice, as a sequence of bytes.                          *)
LEMMA PrefixTyped ==
  ASSUME NEW m \in Nat, NEW q \in [1..m -> Bytes], NEW k \in 0..m
  PROVE  SubSeq(q, 1, k) \in Seq(Bytes) /\ Len(SubSeq(q, 1, k)) = k
<1>1. \A i \in 1..k : q[i] \in Bytes
  OBVIOUS
<1>2. k \in Int
  OBVIOUS
<1>3. /\ SubSeq(q, 1, k) \in Seq(Bytes)
      /\ Len(SubSeq(q, 1, k)) = IF 1 <= k THEN k - 1 + 1 ELSE 0
  BY <1>1, <1>2, SubSeqProperties
<1> QED BY <1>3

(* Consuming a prefix of the slice keeps the history of bytes well typed.  *)
LEMMA HistoryTyped ==
  ASSUME NEW h \in Seq(Bytes), NEW q \in Seq(Bytes), NEW k \in 0..Len(q)
  PROVE  /\ h \o SubSeq(q, 1, k) \in Seq(Bytes)
         /\ Len(h \o SubSeq(q, 1, k)) = Len(h) + k
<1>1. Len(q) \in Nat /\ q \in [1..Len(q) -> Bytes]
  BY LenProperties
<1>2. SubSeq(q, 1, k) \in Seq(Bytes) /\ Len(SubSeq(q, 1, k)) = k
  BY <1>1, PrefixTyped
<1> QED BY <1>2, ConcatProperties

-----------------------------------------------------------------------------
LEMMA InitEstablishes == Init => IInv
<1> SUFFICES ASSUME Init PROVE IInv
  OBVIOUS
<1>1. <<>> \in Seq(Bytes) /\ Len(<<>>) = 0 /\ <<>> \in [1..0 -> Bytes]
  OBVIOUS
<1>2. TypeOK
  <2>1. bytes_left_in_chunk \in 0..Pow16[MaxHexDigits] - 1
    BY WidthAssumption DEF Init
  <2>2. status \in -(IntMax + 1)..IntMax
    BY WidthAssumption DEF Init, IHTP_OK
  <2> QED BY <1>1, <2>1, <2>2, WidthAssumption DEF Init, TypeOK, ChunkStates
<1>3. InPlace
  BY DEF Init, InPlace
<1>4. ChunkAccounting /\ TrailerSubState
  BY DEF Init, ChunkAccounting, TrailerSubState, CHUNK_SIZE, CHUNK_EXT, CHUNK_SIZE_LF,
         CHUNK_DATA, CHUNK_DATA_CR, CHUNK_DATA_LF, CHUNK_TRAILER, CHUNK_DONE
<1>5. SizeBound
  BY WidthAssumption DEF Init, SizeBound
<1> QED BY <1>2, <1>3, <1>4, <1>5 DEF IInv

(* A framing byte moves src past one byte and touches no payload.          *)
LEMMA FramePreserves ==
  ASSUME IInv, pc = "decoding", src < avail,
         NEW next \in ChunkStates, NEW count \in 0..MaxHexDigits, Frame(next, count)
  PROVE  TypeOK' /\ InPlace'
<1> USE DEF IInv, Frame, result, history
<1>1. TypeOK'
  BY DEF TypeOK
<1>2. InPlace'
  BY DEF TypeOK, InPlace
<1> QED BY <1>1, <1>2

(* A rejected call leaves the decoder as it was.                           *)
LEMMA RejectPreserves ==
  ASSUME IInv, src < avail, Reject
  PROVE  IInv'
<1> USE DEF Reject, decoder
<1>1. src + 1 \in 0..Len(input)
  BY DEF IInv, TypeOK
<1>2. consumed' \in Seq(Bytes)
  BY <1>1, HistoryTyped DEF IInv, TypeOK
<1>3. TypeOK'
  <2>1. status' \in -(IntMax + 1)..IntMax
    BY WidthAssumption DEF IHTP_ERROR
  <2> QED BY <1>2, <2>1 DEF IInv, TypeOK
<1>4. InPlace'
  BY DEF IInv, InPlace
<1>5. ChunkAccounting' /\ SizeBound' /\ TrailerSubState'
  BY DEF IInv, ChunkAccounting, SizeBound, TrailerSubState
<1> QED BY <1>3, <1>4, <1>5 DEF IInv

(* Completing a body whose last chunk has size 0.                          *)
LEMMA CompletePreserves ==
  ASSUME IInv, NEW read \in Nat, src <= read, read <= avail, declared = 0,
         Complete(read)
  PROVE  IInv'
<1> USE DEF Complete
<1>1. avail \in Nat /\ src \in Nat /\ dst \in Nat /\ dst <= src
  BY DEF IInv, TypeOK, InPlace
<1>2. buf' \in [1..avail -> Bytes]
  BY <1>1, MoveTyped DEF IInv, TypeOK
<1>3. consumed' \in Seq(Bytes)
  BY <1>1, HistoryTyped DEF IInv, TypeOK
<1>4. delivered' \in Seq(Bytes)
  <2>1. SubSeq(buf, 1, dst) \in Seq(Bytes)
    BY <1>1, PrefixTyped DEF IInv, TypeOK
  <2> QED BY <2>1, ConcatProperties DEF IInv, TypeOK
<1>5. status' \in -(IntMax + 1)..IntMax
  BY <1>1, CastRange
<1>6. TypeOK'
  BY <1>1, <1>2, <1>3, <1>4, <1>5 DEF IInv, TypeOK, ChunkStates
<1>7. InPlace'
  BY <1>1 DEF InPlace
<1>8. ChunkAccounting' /\ SizeBound' /\ TrailerSubState'
  BY DEF ChunkAccounting, SizeBound, TrailerSubState, CHUNK_SIZE, CHUNK_EXT, CHUNK_SIZE_LF,
         CHUNK_DATA, CHUNK_DATA_CR, CHUNK_DATA_LF, CHUNK_TRAILER, CHUNK_DONE
<1> QED BY <1>6, <1>7, <1>8 DEF IInv

-----------------------------------------------------------------------------
(* The accumulator takes one more digit without wrapping.                  *)
LEMMA SizeDigitPreserves ==
  ASSUME IInv, At(CHUNK_SIZE), SizeDigit
  PROVE  IInv'
<1> DEFINE n == hex_count
           v == HexValue[byte]
           M == Pow16[MaxHexDigits]
<1>1. n \in 0..MaxHexDigits - 1 /\ v \in 0..15
  BY DigitAssumption, WidthAssumption DEF IInv, TypeOK, SizeDigit, SizeDigitFits
<1>2. declared = bytes_left_in_chunk /\ declared \in Nat /\ taken = 0 /\ declared < Pow16[n]
  BY DEF IInv, TypeOK, ChunkAccounting, SizeBound, At
<1>3. /\ Pow16[n] \in Nat /\ Pow16[n + 1] = 16 * Pow16[n] /\ Pow16[n + 1] <= M
      /\ M \in Nat \ {0}
  BY <1>1, <1>2, WidthAssumption
<1>4. declared * 16 + v < Pow16[n + 1]
  <2> HIDE DEF v, n
  <2> QED BY <1>1, <1>2, <1>3
<1>5. declared * 16 + v \in 0..M - 1
  <2> HIDE DEF v, n, M
  <2> QED BY <1>1, <1>2, <1>3, <1>4
<1>6. bytes_left_in_chunk' = declared * 16 + v
  <2>1. bytes_left_in_chunk' = (declared * 16 + v) % M
    BY <1>2 DEF SizeDigit
  <2> HIDE DEF v, M
  <2> QED BY <1>3, <1>5, <2>1, ModIdentity
<1>7. declared' = declared * 16 + v /\ declared' \in Nat
  BY <1>5 DEF SizeDigit
<1>8. hex_count' \in 0..MaxHexDigits
  BY <1>1, WidthAssumption DEF SizeDigit
<1>9. TypeOK'
  <2>1. bytes_left_in_chunk' \in 0..M - 1
    BY <1>5, <1>6
  <2> QED BY <1>7, <1>8, <2>1 DEF IInv, TypeOK, SizeDigit, At, result
<1>10. InPlace'
  BY DEF IInv, TypeOK, InPlace, SizeDigit, At
<1>11. ChunkAccounting'
  BY <1>2, <1>6, <1>7 DEF SizeDigit, At, ChunkAccounting, CHUNK_SIZE, CHUNK_EXT, CHUNK_SIZE_LF,
     CHUNK_DATA, CHUNK_DATA_CR, CHUNK_DATA_LF, CHUNK_TRAILER, CHUNK_DONE
<1>12. SizeBound'
  BY <1>4, <1>7 DEF SizeDigit, SizeBound
<1>13. TrailerSubState'
  BY DEF SizeDigit, At, TrailerSubState, CHUNK_SIZE, CHUNK_TRAILER
<1> QED BY <1>9, <1>10, <1>11, <1>12, <1>13 DEF IInv

(* The states a framing byte leads to keep the accounting.                 *)
LEMMA FrameAccounting ==
  ASSUME IInv, pc = "decoding", src < avail,
         NEW next \in ChunkStates, NEW count \in 0..MaxHexDigits, Frame(next, count),
         \/ /\ state \in {CHUNK_SIZE, CHUNK_EXT}
            /\ next \in {CHUNK_EXT, CHUNK_SIZE_LF} /\ count = hex_count
         \/ state = CHUNK_SIZE_LF /\ next = CHUNK_DATA /\ bytes_left_in_chunk # 0
         \/ /\ state = CHUNK_SIZE_LF /\ bytes_left_in_chunk = 0
            /\ next = CHUNK_TRAILER /\ count \in 0..3
         \/ state = CHUNK_DATA_CR /\ next = CHUNK_DATA_LF
         \/ state = CHUNK_TRAILER /\ next = CHUNK_TRAILER /\ count \in 0..3
  PROVE  IInv'
<1>1. TypeOK' /\ InPlace'
  BY FramePreserves
<1>2. bytes_left_in_chunk \in Nat /\ declared \in Nat
  BY DEF IInv, TypeOK
<1>3. ChunkAccounting' /\ TrailerSubState'
  BY <1>2 DEF IInv, Frame, history, ChunkAccounting, TrailerSubState, CHUNK_SIZE, CHUNK_EXT,
     CHUNK_SIZE_LF, CHUNK_DATA, CHUNK_DATA_CR, CHUNK_DATA_LF, CHUNK_TRAILER, CHUNK_DONE
<1>4. SizeBound'
  BY DEF IInv, Frame, history, SizeBound, CHUNK_SIZE, CHUNK_EXT,
     CHUNK_SIZE_LF, CHUNK_DATA, CHUNK_DATA_CR, CHUNK_DATA_LF, CHUNK_TRAILER, CHUNK_DONE
<1> QED BY <1>1, <1>3, <1>4 DEF IInv

(* The in-place copy of payload.                                           *)
LEMMA ChunkDataPreserves ==
  ASSUME IInv, ChunkData
  PROVE  IInv'
<1>1. /\ pc = "decoding" /\ src < avail /\ state = CHUNK_DATA
      /\ avail \in Nat /\ src \in Nat /\ dst \in Nat /\ dst <= src
      /\ bytes_left_in_chunk \in Nat \ {0} /\ declared \in Nat /\ taken \in Nat
      /\ bytes_left_in_chunk + taken = declared
  BY DEF IInv, TypeOK, InPlace, ChunkAccounting, ChunkData, At
<1>2. /\ to_copy \in Nat \ {0} /\ src + to_copy <= avail
      /\ to_copy <= bytes_left_in_chunk
  BY <1>1 DEF to_copy, Smaller
<1> HIDE DEF to_copy
<1>3. buf' \in [1..avail -> Bytes]
  BY <1>1, <1>2, MoveTyped DEF IInv, ChunkData
<1>4. TypeOK'
  <2>1. state' \in ChunkStates
    BY DEF ChunkData, ChunkStates
  <2>2. bytes_left_in_chunk' \in 0..Pow16[MaxHexDigits] - 1
    <3>1. Pow16[MaxHexDigits] \in Nat /\ bytes_left_in_chunk < Pow16[MaxHexDigits]
      BY WidthAssumption DEF IInv, TypeOK
    <3>2. bytes_left_in_chunk' = bytes_left_in_chunk - to_copy
      BY DEF ChunkData
    <3> QED BY <1>1, <1>2, <3>1, <3>2
  <2>3. total_decoded' \in Nat /\ src' \in Nat /\ dst' \in Nat /\ taken' \in Nat
    BY <1>1, <1>2 DEF IInv, TypeOK, ChunkData, counted
  <2> QED BY <1>3, <2>1, <2>2, <2>3 DEF IInv, TypeOK, ChunkData, result
<1>5. InPlace'
  <2>1. dst' <= src' /\ src' <= avail'
    BY <1>1, <1>2 DEF ChunkData
  <2>2. ASSUME NEW i \in src' + 1..avail' PROVE buf'[i] = input'[i]
    <3>1. i \in src + 1..avail /\ i \in 1..avail /\ i \notin dst + 1..dst + to_copy
      BY <1>1, <1>2 DEF ChunkData
    <3>2. buf'[i] = buf[i]
      BY <3>1 DEF ChunkData, memmove
    <3> QED BY <1>1, <3>1, <3>2 DEF IInv, InPlace, ChunkData
  <2> QED BY <2>1, <2>2 DEF InPlace
<1>6. ChunkAccounting' /\ SizeBound' /\ TrailerSubState'
  BY <1>1, <1>2 DEF ChunkData, ChunkAccounting, SizeBound, TrailerSubState, CHUNK_SIZE,
     CHUNK_EXT, CHUNK_SIZE_LF, CHUNK_DATA, CHUNK_DATA_CR, CHUNK_DATA_LF, CHUNK_TRAILER,
     CHUNK_DONE
<1> QED BY <1>4, <1>5, <1>6 DEF IInv

(* The counters of the next chunk start from nothing.                      *)
LEMMA NextChunkPreserves ==
  ASSUME IInv, At(CHUNK_DATA_LF), NextChunk
  PROVE  IInv'
<1>1. TypeOK'
  <2>1. 0 \in 0..Pow16[MaxHexDigits] - 1 /\ 0 \in 0..MaxHexDigits
    BY WidthAssumption DEF IInv, TypeOK
  <2>2. src' \in Nat /\ state' \in ChunkStates
    BY DEF IInv, TypeOK, NextChunk, ChunkStates
  <2> QED BY <2>1, <2>2 DEF IInv, TypeOK, NextChunk, result
<1>2. InPlace'
  BY DEF IInv, TypeOK, InPlace, NextChunk, At
<1>3. ChunkAccounting' /\ SizeBound' /\ TrailerSubState'
  BY WidthAssumption DEF NextChunk, ChunkAccounting, SizeBound, TrailerSubState, CHUNK_SIZE,
     CHUNK_EXT, CHUNK_SIZE_LF, CHUNK_DATA, CHUNK_DATA_CR, CHUNK_DATA_LF, CHUNK_TRAILER,
     CHUNK_DONE
<1> QED BY <1>1, <1>2, <1>3 DEF IInv

-----------------------------------------------------------------------------
(* A call begins on an untouched slice.                                    *)
LEMMA CallPreserves ==
  ASSUME IInv, NEW slice \in Slices, Call(slice)
  PROVE  IInv'
<1>1. slice \in Seq(Bytes)
  BY CallerAssumption
<1>2. Len(slice) \in Nat /\ slice \in [1..Len(slice) -> Bytes]
  BY <1>1, LenProperties
<1>3. TypeOK'
  BY <1>1, <1>2 DEF IInv, TypeOK, Call, decoder
<1>4. InPlace'
  BY <1>2 DEF InPlace, Call
<1>5. ChunkAccounting' /\ SizeBound' /\ TrailerSubState'
  BY DEF IInv, Call, decoder, ChunkAccounting, SizeBound, TrailerSubState
<1> QED BY <1>3, <1>4, <1>5 DEF IInv

(* A call ends with its slice read to the end.                             *)
LEMMA NeedMorePreserves ==
  ASSUME IInv, NeedMore
  PROVE  IInv'
<1>1. avail \in Nat /\ src \in Nat /\ dst \in Nat /\ dst <= src /\ src <= avail
  BY DEF IInv, TypeOK, InPlace
<1>2. consumed' \in Seq(Bytes)
  BY ConcatProperties DEF IInv, TypeOK, NeedMore
<1>3. delivered' \in Seq(Bytes)
  <2>1. SubSeq(buf, 1, dst) \in Seq(Bytes)
    BY <1>1, PrefixTyped DEF IInv, TypeOK
  <2> QED BY <2>1, ConcatProperties DEF IInv, TypeOK, NeedMore
<1>4. TypeOK'
  <2>1. status' \in -(IntMax + 1)..IntMax
    BY WidthAssumption DEF NeedMore, IHTP_INCOMPLETE
  <2> QED BY <1>1, <1>2, <1>3, <2>1 DEF IInv, TypeOK, NeedMore, decoder
<1>5. InPlace'
  BY <1>1 DEF InPlace, NeedMore
<1>6. ChunkAccounting' /\ SizeBound' /\ TrailerSubState'
  BY DEF IInv, NeedMore, decoder, ChunkAccounting, SizeBound, TrailerSubState
<1> QED BY <1>4, <1>5, <1>6 DEF IInv

(* Every step keeps the inductive invariant.                               *)
LEMMA StepPreserves == IInv /\ [Next]_vars => IInv'
<1> SUFFICES ASSUME IInv, [Next]_vars PROVE IInv'
  OBVIOUS
<1>1. /\ hex_count \in 0..MaxHexDigits /\ src \in Nat /\ avail \in Nat
      /\ bytes_left_in_chunk \in Nat /\ 0..3 \subseteq 0..MaxHexDigits
  BY WidthAssumption DEF IInv, TypeOK
<1>2. ChunkStates = {CHUNK_SIZE, CHUNK_EXT, CHUNK_SIZE_LF, CHUNK_DATA,
                     CHUNK_DATA_CR, CHUNK_DATA_LF, CHUNK_TRAILER, CHUNK_DONE}
  BY DEF ChunkStates
<1>3. CASE ChunkSize
  <2>1. pc = "decoding" /\ src < avail /\ state = CHUNK_SIZE
    BY <1>3 DEF ChunkSize, At
  <2>2. SizeDigit \/ Reject \/ Frame(CHUNK_EXT, hex_count) \/ Frame(CHUNK_SIZE_LF, hex_count)
    BY <1>3 DEF ChunkSize
  <2>3. CASE SizeDigit
    BY <2>1, <2>3, SizeDigitPreserves DEF At
  <2>4. CASE Reject
    BY <2>1, <2>4, RejectPreserves
  <2>5. CASE Frame(CHUNK_EXT, hex_count)
    BY <1>1, <1>2, <2>1, <2>5, FrameAccounting
  <2>6. CASE Frame(CHUNK_SIZE_LF, hex_count)
    BY <1>1, <1>2, <2>1, <2>6, FrameAccounting
  <2> QED BY <2>2, <2>3, <2>4, <2>5, <2>6
<1>4. CASE ChunkExt
  <2>1. pc = "decoding" /\ src < avail /\ state = CHUNK_EXT
    BY <1>4 DEF ChunkExt, At
  <2>2. Reject \/ Frame(CHUNK_EXT, hex_count) \/ Frame(CHUNK_SIZE_LF, hex_count)
    BY <1>4 DEF ChunkExt
  <2> QED BY <1>1, <1>2, <2>1, <2>2, RejectPreserves, FrameAccounting
<1>5. CASE ChunkSizeLF
  <2>1. pc = "decoding" /\ src < avail /\ state = CHUNK_SIZE_LF
    BY <1>5 DEF ChunkSizeLF, At
  <2>2. CASE Reject
    BY <2>1, <2>2, RejectPreserves
  <2>3. CASE bytes_left_in_chunk # 0 /\ Frame(CHUNK_DATA, hex_count)
    BY <1>1, <1>2, <2>1, <2>3, FrameAccounting
  <2>4. CASE bytes_left_in_chunk = 0 /\ Frame(CHUNK_TRAILER, TRAILER_LINE_START)
    BY <1>1, <1>2, <2>1, <2>4, FrameAccounting DEF TRAILER_LINE_START
  <2>5. CASE bytes_left_in_chunk = 0 /\ Complete(src + 1)
    <3>1. declared = 0
      BY <2>1, <2>5 DEF IInv, ChunkAccounting
    <3> QED BY <1>1, <2>1, <2>5, <3>1, CompletePreserves
  <2> QED BY <1>5, <2>2, <2>3, <2>4, <2>5 DEF ChunkSizeLF
<1>6. CASE ChunkData
  BY <1>6, ChunkDataPreserves
<1>7. CASE ChunkDataCR
  <2>1. pc = "decoding" /\ src < avail /\ state = CHUNK_DATA_CR
    BY <1>7 DEF ChunkDataCR, At
  <2>2. Reject \/ Frame(CHUNK_DATA_LF, hex_count)
    BY <1>7 DEF ChunkDataCR
  <2> QED BY <1>1, <1>2, <2>1, <2>2, RejectPreserves, FrameAccounting
<1>8. CASE ChunkDataLF
  <2>1. src < avail /\ (Reject \/ NextChunk)
    BY <1>8 DEF ChunkDataLF, At
  <2> QED BY <1>8, <2>1, RejectPreserves, NextChunkPreserves DEF ChunkDataLF
<1>9. CASE ChunkTrailer
  <2>1. pc = "decoding" /\ src < avail /\ state = CHUNK_TRAILER
    BY <1>9 DEF ChunkTrailer, At
  <2>2. \/ Reject
        \/ Complete(src + 1)
        \/ \E count \in 0..3 : Frame(CHUNK_TRAILER, count)
    BY <1>9 DEF ChunkTrailer, TrailerLineStart, TrailerDoneLF, TrailerLine, TrailerLineLF,
       TRAILER_LINE_START, TRAILER_DONE_LF, TRAILER_LINE, TRAILER_LINE_LF
  <2>3. CASE Reject
    BY <2>1, <2>3, RejectPreserves
  <2>4. CASE Complete(src + 1)
    <3>1. declared = 0
      BY <2>1 DEF IInv, ChunkAccounting
    <3> QED BY <1>1, <2>1, <2>4, <3>1, CompletePreserves
  <2>5. ASSUME NEW count \in 0..3, Frame(CHUNK_TRAILER, count) PROVE IInv'
    BY <1>1, <1>2, <2>1, <2>5, FrameAccounting
  <2> QED BY <2>2, <2>3, <2>4, <2>5
<1>10. CASE ChunkDone
  <2>1. declared = 0 /\ src < avail /\ Complete(src)
    BY <1>10 DEF ChunkDone, At, IInv, ChunkAccounting
  <2> QED BY <1>1, <2>1, CompletePreserves
<1>11. CASE NeedMore
  BY <1>11, NeedMorePreserves
<1>12. ASSUME NEW slice \in Slices, Call(slice) PROVE IInv'
  BY <1>12, CallPreserves
<1>13. CASE UNCHANGED vars
  BY <1>13 DEF vars, decoder, call, result, history, IInv, TypeOK, InPlace, ChunkAccounting,
     SizeBound, TrailerSubState
<1> QED BY <1>3, <1>4, <1>5, <1>6, <1>7, <1>8, <1>9, <1>10, <1>11, <1>12, <1>13
        DEF Next, Step

-----------------------------------------------------------------------------
LEMMA Inductive == Spec => []IInv
  BY InitEstablishes, StepPreserves, PTL DEF Spec

(* The decoder's fields and the locals of the call keep their types: the   *)
(* size accumulator stays in its word and every index in the slice.        *)
THEOREM TypeCorrect == Spec => []TypeOK
<1>1. IInv => TypeOK
  BY DEF IInv
<1> QED BY <1>1, Inductive, PTL

(* Decoding in place never overwrites a byte that is still to be read      *)
(* (ihtp_body_decoder.c:129).                                              *)
THEOREM InPlaceSafe == Spec => []InPlace
<1>1. IInv => InPlace
  BY DEF IInv
<1> QED BY <1>1, Inductive, PTL

(* The decoder takes exactly as many payload bytes as the size line        *)
(* spells, for every width of the accumulator: the digit limit (line 82)   *)
(* is what keeps the multiplication (line 85) from wrapping.               *)
THEOREM AccountingExact == Spec => []ChunkAccounting
<1>1. IInv => ChunkAccounting
  BY DEF IInv
<1> QED BY <1>1, Inductive, PTL

(* The trailer is never read with a digit count for a sub-state (line 109) *)
(* so the return of line 210 is dead.                                      *)
THEOREM TrailerSubStateAlways == Spec => []TrailerSubState
<1>1. IInv => TrailerSubState
  BY DEF IInv
<1> QED BY <1>1, Inductive, PTL

(* Completing a body leaves the unread bytes right behind the payload.     *)
LEMMA CompleteKeepsTrailing ==
  ASSUME IInv, pc = "decoding", NEW read \in Nat, src <= read, read <= avail, Complete(read)
  PROVE  TrailingBytes'
<1> SUFFICES ASSUME avail <= IntMax
             PROVE  /\ status' = avail - read
                    /\ \A i \in 1..avail - read : buf'[dst + i] = input[read + i]
  BY DEF TrailingBytes, Complete
<1>1. avail \in Nat /\ src \in Nat /\ dst \in Nat /\ dst <= src
  BY DEF IInv, TypeOK, InPlace
<1>2. status' = avail - read
  <2>1. avail - read \in Nat /\ avail - read <= IntMax
    BY <1>1, WidthAssumption
  <2> QED BY <2>1, CastRange DEF Complete
<1>3. ASSUME NEW i \in 1..avail - read PROVE buf'[dst + i] = input[read + i]
  <2> DEFINE j == dst + i
             k == read + i
  <2>1. /\ read < avail /\ j \in 1..avail /\ j \in dst + 1..dst + (avail - read)
        /\ j - dst + read = k /\ k \in src + 1..avail
    BY <1>1
  <2>2. buf' = memmove(dst, read, avail - read)
    BY <2>1 DEF Complete
  <2> HIDE DEF j, k
  <2>3. buf'[j] = buf[j - dst + read]
    BY <2>1, <2>2 DEF memmove
  <2>4. buf'[j] = input[k]
    BY <2>1, <2>3 DEF IInv, InPlace
  <2> QED BY <2>4 DEF j, k
<1> QED BY <1>2, <1>3

LEMMA StepKeepsTrailing == IInv /\ TrailingBytes /\ [Next]_vars => TrailingBytes'
<1> SUFFICES ASSUME IInv, TrailingBytes, [Next]_vars PROVE TrailingBytes'
  OBVIOUS
<1>1. src \in Nat /\ avail \in Nat
  BY DEF IInv, TypeOK
<1>2. CASE NeedMore \/ \E slice \in Slices : Call(slice)
  BY <1>2 DEF NeedMore, Call, TrailingBytes
<1>3. CASE UNCHANGED vars
  BY <1>3 DEF vars, decoder, call, result, history, TrailingBytes
<1>4. ASSUME NEW read \in {src, src + 1}, pc = "decoding", src < avail, Complete(read)
      PROVE  TrailingBytes'
  BY <1>1, <1>4, CompleteKeepsTrailing
<1>5. CASE ChunkData
  BY <1>5 DEF ChunkData, At, TrailingBytes
<1>6. CASE ChunkDone
  BY <1>4, <1>6 DEF ChunkDone, At
<1>7. CASE \/ ChunkSize \/ ChunkExt \/ ChunkSizeLF \/ ChunkDataCR \/ ChunkDataLF \/ ChunkTrailer
  <2>1. pc = "decoding" /\ src < avail /\ state # CHUNK_DONE
    BY <1>7 DEF ChunkSize, ChunkExt, ChunkSizeLF, ChunkDataCR, ChunkDataLF, ChunkTrailer, At,
       CHUNK_SIZE, CHUNK_EXT, CHUNK_SIZE_LF, CHUNK_DATA_CR, CHUNK_DATA_LF, CHUNK_TRAILER,
       CHUNK_DONE
  <2>2. \/ Reject \/ SizeDigit \/ NextChunk \/ Complete(src + 1)
        \/ \E next, count : Frame(next, count)
    BY <1>7 DEF ChunkSize, ChunkExt, ChunkSizeLF, ChunkDataCR, ChunkDataLF, ChunkTrailer,
       TrailerLineStart, TrailerDoneLF, TrailerLine, TrailerLineLF
  <2>3. CASE Complete(src + 1)
    BY <1>4, <2>1, <2>3
  <2>4. CASE Reject
    BY <2>1, <2>4 DEF Reject, decoder, TrailingBytes
  <2>5. CASE SizeDigit \/ NextChunk
    BY <2>1, <2>5 DEF SizeDigit, NextChunk, TrailingBytes
  <2>6. ASSUME NEW next, NEW count, Frame(next, count) PROVE TrailingBytes'
    BY <2>1, <2>6 DEF Frame, TrailingBytes
  <2> QED BY <2>2, <2>3, <2>4, <2>5, <2>6
<1> QED BY <1>2, <1>3, <1>5, <1>6, <1>7 DEF Next, Step

(* However the body was sliced, completion hands back the unread bytes     *)
(* unchanged, right behind the payload, with their exact number.           *)
THEOREM TrailingBytesKept == Spec => []TrailingBytes
<1>1. Init => TrailingBytes
  BY DEF Init, TrailingBytes, CHUNK_SIZE, CHUNK_DONE
<1> QED BY <1>1, Inductive, StepKeepsTrailing, PTL DEF Spec

(* A finished decoder stays finished (lines 212-217).                      *)
THEOREM DoneStays == Spec => DoneIsFinal
<1>1. [Next]_vars =>
        [state = CHUNK_DONE => state' = CHUNK_DONE /\ total_decoded' = total_decoded]_vars
  <2> SUFFICES ASSUME Next, state = CHUNK_DONE
               PROVE  state' = CHUNK_DONE /\ total_decoded' = total_decoded
    OBVIOUS
  <2>1. ChunkDone \/ NeedMore \/ \E slice \in Slices : Call(slice)
    BY DEF Next, Step, ChunkSize, ChunkExt, ChunkSizeLF, ChunkData, ChunkDataCR, ChunkDataLF,
       ChunkTrailer, At, CHUNK_SIZE, CHUNK_EXT, CHUNK_SIZE_LF, CHUNK_DATA, CHUNK_DATA_CR,
       CHUNK_DATA_LF, CHUNK_TRAILER, CHUNK_DONE
  <2> QED BY <2>1 DEF ChunkDone, NeedMore, Call, Complete, decoder
<1> QED BY <1>1, PTL DEF Spec, DoneIsFinal

(* Returning the decoded prefix adds exactly dst bytes to the payload.     *)
LEMMA DeliveredGrows ==
  ASSUME IInv
  PROVE  Len(delivered \o SubSeq(buf, 1, dst)) = Len(delivered) + dst
<1>1. avail \in Nat /\ dst \in 0..avail
  BY DEF IInv, TypeOK, InPlace
<1>2. SubSeq(buf, 1, dst) \in Seq(Bytes) /\ Len(SubSeq(buf, 1, dst)) = dst
  BY <1>1, PrefixTyped DEF IInv, TypeOK
<1> QED BY <1>2, ConcatProperties DEF IInv, TypeOK

LEMMA StepKeepsTotal ==
  ASSUME RetryAfterError = FALSE
  PROVE  IInv /\ TotalCountsPayload /\ [Next]_vars => TotalCountsPayload'
<1> SUFFICES ASSUME IInv, TotalCountsPayload, [Next]_vars PROVE TotalCountsPayload'
  OBVIOUS
<1>1. /\ total_decoded \in Nat /\ dst \in Nat /\ Len(delivered) \in Nat
      /\ src \in Nat /\ avail \in Nat /\ bytes_left_in_chunk \in Nat
  BY LenProperties DEF IInv, TypeOK
<1>2. pc = "decoding" => total_decoded = Len(delivered) + dst
  BY DEF TotalCountsPayload
<1>3. CASE \E slice \in Slices : Call(slice)
  BY <1>1, <1>3 DEF Call, decoder, TotalCountsPayload
<1>4. CASE UNCHANGED vars
  BY <1>4 DEF vars, decoder, call, result, history, TotalCountsPayload
<1>5. CASE NeedMore
  BY <1>1, <1>2, <1>5, DeliveredGrows DEF NeedMore, decoder, TotalCountsPayload
<1>6. CASE ChunkData
  <2>1. to_copy \in Nat
    BY <1>1, <1>6 DEF ChunkData, At, to_copy, Smaller
  <2> HIDE DEF to_copy
  <2> QED BY <1>1, <1>2, <1>6, <2>1 DEF ChunkData, At, counted, TotalCountsPayload
<1>7. CASE \/ ChunkSize \/ ChunkExt \/ ChunkSizeLF \/ ChunkDataCR \/ ChunkDataLF \/ ChunkTrailer
           \/ ChunkDone
  <2>1. pc = "decoding"
    BY <1>7 DEF ChunkSize, ChunkExt, ChunkSizeLF, ChunkDataCR, ChunkDataLF, ChunkTrailer,
       ChunkDone, At
  <2>2. \/ Reject \/ SizeDigit \/ NextChunk
        \/ \E read : Complete(read)
        \/ \E next, count : Frame(next, count)
    BY <1>7 DEF ChunkSize, ChunkExt, ChunkSizeLF, ChunkDataCR, ChunkDataLF, ChunkTrailer,
       ChunkDone, TrailerLineStart, TrailerDoneLF, TrailerLine, TrailerLineLF
  <2>3. CASE Reject
    BY <2>3 DEF Reject, TotalCountsPayload
  <2>4. CASE SizeDigit \/ NextChunk
    BY <1>2, <2>1, <2>4 DEF SizeDigit, NextChunk, TotalCountsPayload
  <2>5. ASSUME NEW read, Complete(read) PROVE TotalCountsPayload'
    BY <1>1, <1>2, <2>1, <2>5, DeliveredGrows DEF Complete, TotalCountsPayload
  <2>6. ASSUME NEW next, NEW count, Frame(next, count) PROVE TotalCountsPayload'
    BY <1>2, <2>1, <2>6 DEF Frame, history, TotalCountsPayload
  <2> QED BY <2>2, <2>3, <2>4, <2>5, <2>6
<1> QED BY <1>3, <1>4, <1>5, <1>6, <1>7 DEF Next, Step

(* For a caller that stops at the first error, total_decoded counts the    *)
(* payload bytes returned by all calls, and nothing else.                  *)
THEOREM TotalExact ==
  ASSUME RetryAfterError = FALSE
  PROVE  Spec => []TotalCountsPayload
<1>1. Init => TotalCountsPayload
  BY DEF Init, TotalCountsPayload, IHTP_OK, IHTP_ERROR
<1>2. IInv /\ TotalCountsPayload /\ [Next]_vars => TotalCountsPayload'
  BY StepKeepsTotal
<1> QED BY <1>1, <1>2, Inductive, PTL DEF Spec

-----------------------------------------------------------------------------
(* The refinement of ChunkedBody.                                          *)

(* One more byte of q behind h.                                            *)
LEMMA OneByte ==
  ASSUME NEW h \in Seq(Bytes), NEW q \in Seq(Bytes), NEW k \in Nat, k < Len(q)
  PROVE  h \o SubSeq(q, 1, k + 1) = Append(h \o SubSeq(q, 1, k), q[k + 1])
<1>1. Len(q) \in Nat /\ q[k + 1] \in Bytes
  BY LenProperties
<1>2. SubSeq(q, 1, k) \in Seq(Bytes)
  BY <1>1, PrefixTyped, LenProperties
<1>3. SubSeq(q, 1, k + 1) = SubSeq(q, 1, k) \o <<q[k + 1]>>
  <2>1. k + 1 \in 1..Len(q) /\ 1 \in 1..Len(q) /\ (k + 1) - 1 = k
    BY <1>1
  <2> QED BY <2>1, SubSeqRecursiveSecond
<1>4. <<q[k + 1]>> \in Seq(Bytes)
  BY <1>1
<1>5. h \o SubSeq(q, 1, k + 1) = (h \o SubSeq(q, 1, k)) \o <<q[k + 1]>>
  BY <1>2, <1>3, <1>4, ConcatAssociative
<1>6. h \o SubSeq(q, 1, k) \in Seq(Bytes)
  BY <1>2, ConcatProperties
<1> QED BY <1>1, <1>5, <1>6, AppendIsConcat

LEMMA NoBytes ==
  ASSUME NEW h \in Seq(Bytes), NEW q
  PROVE  h \o SubSeq(q, 1, 0) = h /\ h \o <<>> = h
<1>1. SubSeq(q, 1, 0) = <<>>
  BY SubSeqEmpty
<1> QED BY <1>1, ConcatEmptySeq

(* The bytes from k on, up to m.                                           *)
LEMMA ManyBytes ==
  ASSUME NEW h \in Seq(Bytes), NEW q \in Seq(Bytes), NEW k \in Nat, NEW m \in Nat,
         k <= m, m <= Len(q)
  PROVE  /\ h \o SubSeq(q, 1, m) = (h \o SubSeq(q, 1, k)) \o SubSeq(q, k + 1, m)
         /\ h \o SubSeq(q, 1, k) \in Seq(Bytes)
         /\ SubSeq(q, k + 1, m) \in Seq(Bytes) /\ Len(SubSeq(q, k + 1, m)) = m - k
<1> DEFINE a == SubSeq(q, 1, k)
           bytes == SubSeq(q, k + 1, m)
<1>1. Len(q) \in Nat /\ q \in [1..Len(q) -> Bytes]
  BY LenProperties
<1>2. a \in Seq(Bytes) /\ Len(a) = k
  BY <1>1, PrefixTyped
<1>3. bytes \in Seq(Bytes) /\ Len(bytes) = m - k
  <2>1. \A i \in k + 1..m : q[i] \in Bytes
    BY <1>1
  <2>2. k + 1 \in Int /\ m \in Int
    OBVIOUS
  <2>3. bytes \in Seq(Bytes) /\ Len(bytes) = IF k + 1 <= m THEN m - (k + 1) + 1 ELSE 0
    BY <2>1, <2>2, SubSeqProperties
  <2> QED BY <2>3
<1>4. SubSeq(q, 1, m) = a \o bytes
  <2>1. 1 \in 1..Len(q) + 1 /\ k \in 1 - 1..Len(q) /\ m \in k..Len(q)
    BY <1>1
  <2> QED BY <2>1, ConcatAdjacentSubSeq
<1> HIDE DEF a, bytes
<1>5. (h \o a) \o bytes = h \o (a \o bytes)
  <2>1. a \in Seq(Bytes) /\ bytes \in Seq(Bytes)
    BY <1>2, <1>3
  <2> QED BY <2>1, ConcatAssociative, SMTT(60)
<1>6. h \o a \in Seq(Bytes)
  BY <1>2, ConcatProperties
<1> QED BY <1>3, <1>4, <1>5, <1>6 DEF a, bytes

(* What was appended to a sequence is its rest.                            *)
LEMMA RestOfConcat ==
  ASSUME NEW r \in Seq(Bytes), NEW s \in Seq(Bytes)
  PROVE  /\ Len(r) \in Nat /\ Len(s) \in Nat /\ Len(r \o s) = Len(r) + Len(s)
         /\ SubSeq(r \o s, Len(r) + 1, Len(r \o s)) = s
<1>1. Len(r) \in Nat /\ Len(s) \in Nat
  BY LenProperties
<1>2. Len(r \o s) = Len(r) + Len(s)
  BY ConcatProperties, Zenon
<1>3. SubSeq(r \o s, Len(r) + 1, Len(r) + Len(s)) = s
  <2>1. CASE Len(s) = 0
    <3>1. Len(r) + 1 \in Int /\ Len(r) + Len(s) \in Int /\ Len(r) + Len(s) < Len(r) + 1
      BY <1>1, <2>1
    <3>2. SubSeq(r \o s, Len(r) + 1, Len(r) + Len(s)) = <<>>
      BY <3>1, SubSeqEmpty
    <3>3. s = <<>>
      BY <2>1, EmptySeq
    <3> QED BY <3>2, <3>3
  <2>2. CASE Len(s) # 0
    <3>1. /\ Len(r) + 1 \in Len(r) + 1..Len(r) + Len(s)
          /\ Len(r) + Len(s) \in Len(r) + 1..Len(r) + Len(s)
      BY <1>1, <2>2
    <3>2. SubSeq(r \o s, Len(r) + 1, Len(r) + Len(s))
            = SubSeq(s, (Len(r) + 1) - Len(r), (Len(r) + Len(s)) - Len(r))
      BY <3>1, SubSeqOfConcat2
    <3>3. (Len(r) + 1) - Len(r) = 1 /\ (Len(r) + Len(s)) - Len(r) = Len(s)
      BY <1>1
    <3> QED BY <3>2, <3>3, SubSeqFull
  <2> QED BY <2>1, <2>2
<1> QED BY <1>1, <1>2, <1>3

-----------------------------------------------------------------------------
(* Callers for which IHTP_ERROR is unambiguous: they stop at it, and hand  *)
(* over no slice whose unread rest an int could not count.                 *)
IntSlices == \A slice \in Slices : Len(slice) <= IntMax

(* A call is made only when no error was returned before.                  *)
Healthy == (pc = "decoding" => status # IHTP_ERROR) /\ avail <= IntMax

RInv == IInv /\ Healthy

LEMMA CompleteStatus ==
  ASSUME RInv, NEW read \in Nat, read <= avail, Complete(read)
  PROVE  status' # IHTP_ERROR
<1>1. avail \in Nat /\ avail - read \in Nat /\ avail - read <= IntMax
  BY WidthAssumption DEF RInv, Healthy, IInv, TypeOK
<1>2. status' = avail - read
  BY <1>1, CastRange DEF Complete
<1> QED BY <1>1, <1>2 DEF IHTP_ERROR

LEMMA StepHealthy ==
  ASSUME RetryAfterError = FALSE, IntSlices
  PROVE  RInv /\ [Next]_vars => Healthy'
<1> SUFFICES ASSUME RInv, [Next]_vars PROVE Healthy'
  OBVIOUS
<1>1. CASE \E slice \in Slices : Call(slice)
  BY <1>1 DEF Call, Healthy, IntSlices
<1>2. CASE UNCHANGED vars
  BY <1>2 DEF vars, call, result, RInv, Healthy
<1>3. CASE NeedMore
  BY <1>3 DEF NeedMore, RInv, Healthy
<1>4. CASE ChunkData
  BY <1>4 DEF ChunkData, RInv, Healthy, result
<1>5. CASE \/ ChunkSize \/ ChunkExt \/ ChunkSizeLF \/ ChunkDataCR \/ ChunkDataLF \/ ChunkTrailer
           \/ ChunkDone
  <2>1. \/ Reject \/ SizeDigit \/ NextChunk
        \/ \E read : Complete(read)
        \/ \E next, count : Frame(next, count)
    BY <1>5 DEF ChunkSize, ChunkExt, ChunkSizeLF, ChunkDataCR, ChunkDataLF, ChunkTrailer,
       ChunkDone, TrailerLineStart, TrailerDoneLF, TrailerLine, TrailerLineLF
  <2> QED BY <2>1 DEF Reject, SizeDigit, NextChunk, Complete, Frame, result, RInv, Healthy
<1> QED BY <1>1, <1>2, <1>3, <1>4, <1>5 DEF Next, Step

-----------------------------------------------------------------------------
(* What a byte of framing, a rejected byte and the last byte do to the     *)
(* stream.                                                                 *)
LEMMA ByteRead ==
  ASSUME RInv, pc = "decoding", src < avail
  PROVE  /\ byte = input[src + 1] /\ byte \in Bytes
         /\ consumed \o SubSeq(input, 1, src + 1) = Append(streamRead, byte)
<1>1. src \in Nat /\ avail \in Nat /\ Len(input) = avail /\ input \in Seq(Bytes) /\ consumed \in Seq(Bytes)
  BY DEF RInv, IInv, TypeOK
<1>2. byte = input[src + 1]
  BY <1>1 DEF RInv, IInv, InPlace, byte
<1>3. input[src + 1] \in Bytes
  BY <1>1, LenProperties
<1>4. consumed \o SubSeq(input, 1, src + 1) = Append(consumed \o SubSeq(input, 1, src), input[src + 1])
  BY <1>1, OneByte
<1>5. streamRead = consumed \o SubSeq(input, 1, src)
  BY DEF streamRead
<1> QED BY <1>2, <1>3, <1>4, <1>5

LEMMA FrameReads ==
  ASSUME RInv, pc = "decoding", src < avail, NEW next, NEW count, Frame(next, count)
  PROVE  /\ streamRead' = Append(streamRead, byte) /\ streamPayload' = streamPayload
         /\ UNCHANGED <<bytes_left_in_chunk, consume_trailer, status>>
         /\ state' = next /\ hex_count' = count
<1>1. streamRead' = consumed \o SubSeq(input, 1, src + 1)
  BY DEF Frame, history, streamRead
<1>2. streamPayload' = streamPayload
  BY DEF Frame, history, streamPayload
<1> QED BY <1>1, <1>2, ByteRead DEF Frame, result

LEMMA CompleteReads ==
  ASSUME RInv, pc = "decoding", src < avail, Complete(src + 1)
  PROVE  /\ streamRead' = Append(streamRead, byte) /\ streamPayload' = streamPayload
         /\ UNCHANGED <<bytes_left_in_chunk, consume_trailer>>
         /\ status' # IHTP_ERROR /\ state' = CHUNK_DONE
<1>1. src \in Nat /\ avail \in Nat /\ dst \in 0..avail /\ consumed \in Seq(Bytes) /\ delivered \in Seq(Bytes)
  BY DEF RInv, IInv, TypeOK, InPlace
<1>2. consumed' \in Seq(Bytes) /\ delivered' \in Seq(Bytes)
  <2>1. SubSeq(input, 1, src + 1) \in Seq(Bytes) /\ SubSeq(buf, 1, dst) \in Seq(Bytes)
    BY <1>1, PrefixTyped, LenProperties DEF RInv, IInv, TypeOK
  <2> QED BY <1>1, <2>1, ConcatProperties DEF Complete
<1>3. streamRead' = consumed' /\ streamPayload' = delivered'
  BY <1>2, NoBytes DEF Complete, streamRead, streamPayload
<1>4. consumed' = Append(streamRead, byte) /\ delivered' = streamPayload
  BY ByteRead DEF Complete, streamPayload
<1>5. status' # IHTP_ERROR
  BY <1>1, CompleteStatus
<1> QED BY <1>3, <1>4, <1>5 DEF Complete

LEMMA RejectReads ==
  ASSUME RInv, pc = "decoding", src < avail, Reject
  PROVE  /\ streamRead' = Append(streamRead, byte)
         /\ \E n \in 0..Len(streamPayload) : streamPayload' = SubSeq(streamPayload, 1, n)
         /\ UNCHANGED <<bytes_left_in_chunk, consume_trailer, state, hex_count>>
         /\ status' = IHTP_ERROR
<1>1. src \in Nat /\ avail \in Nat /\ dst \in 0..avail /\ consumed \in Seq(Bytes) /\ delivered \in Seq(Bytes)
  BY DEF RInv, IInv, TypeOK, InPlace
<1>2. consumed' \in Seq(Bytes)
  <2>1. SubSeq(input, 1, src + 1) \in Seq(Bytes)
    BY <1>1, PrefixTyped, LenProperties DEF RInv, IInv, TypeOK
  <2> QED BY <1>1, <2>1, ConcatProperties DEF Reject
<1>3. streamRead' = consumed' /\ streamPayload' = delivered
  BY <1>1, <1>2, NoBytes DEF Reject, streamRead, streamPayload
<1>4. consumed' = Append(streamRead, byte)
  BY ByteRead DEF Reject
<1>5. \E n \in 0..Len(streamPayload) : delivered = SubSeq(streamPayload, 1, n)
  <2> DEFINE d == SubSeq(buf, 1, dst)
  <2>1. d \in Seq(Bytes) /\ streamPayload = delivered \o d
    BY <1>1, PrefixTyped DEF RInv, IInv, TypeOK, streamPayload
  <2> HIDE DEF d
  <2>2. /\ Len(delivered) \in Nat /\ Len(d) \in Nat
        /\ streamPayload \in Seq(Bytes) /\ Len(streamPayload) = Len(delivered) + Len(d)
    BY <1>1, <2>1, LenProperties, ConcatProperties
  <2>3. Len(delivered) \in 0..Len(streamPayload)
    BY <2>2
  <2>4. SubSeq(delivered \o d, 1, Len(delivered)) = delivered
    <3>1. CASE Len(delivered) = 0
      <4>1. delivered = <<>>
        BY <1>1, <3>1, EmptySeq
      <4> QED BY <3>1, <4>1, SubSeqEmpty
    <3>2. CASE Len(delivered) # 0
      <4>1. 1 \in 1..Len(delivered) /\ Len(delivered) \in 1..Len(delivered)
        BY <2>2, <3>2
      <4>2. SubSeq(delivered \o d, 1, Len(delivered)) = SubSeq(delivered, 1, Len(delivered))
        BY <1>1, <2>1, <4>1, SubSeqOfConcat1
      <4> QED BY <1>1, <4>2, SubSeqFull
    <3> QED BY <3>1, <3>2
  <2> QED BY <2>1, <2>3, <2>4
<1> QED BY <1>3, <1>4, <1>5 DEF Reject, decoder

(* A call begins or ends between two bytes.                                *)
LEMMA CallStutters ==
  ASSUME RInv, NEW slice, Call(slice)
  PROVE  UNCHANGED <<streamRead, streamPayload>>
<1>1. consumed \in Seq(Bytes) /\ delivered \in Seq(Bytes)
  BY DEF RInv, IInv, TypeOK
<1>2. streamRead = consumed /\ streamPayload = delivered
  BY <1>1, NoBytes DEF Call, streamRead, streamPayload
<1>3. streamRead' = consumed \o SubSeq(slice, 1, 0) /\ streamPayload' = delivered \o SubSeq(slice, 1, 0)
  BY DEF Call, streamRead, streamPayload
<1> QED BY <1>1, <1>2, <1>3, NoBytes

LEMMA NeedMoreStutters ==
  ASSUME RInv, NeedMore
  PROVE  UNCHANGED <<streamRead, streamPayload>>
<1>1. src \in Nat /\ avail \in Nat /\ dst \in 0..avail /\ consumed \in Seq(Bytes) /\ delivered \in Seq(Bytes)
      /\ input \in Seq(Bytes) /\ Len(input) = src
  BY DEF RInv, IInv, TypeOK, InPlace, NeedMore
<1>2. streamRead = consumed \o input /\ streamPayload = delivered \o SubSeq(buf, 1, dst)
  BY <1>1, SubSeqFull DEF NeedMore, streamRead, streamPayload
<1>3. consumed' \in Seq(Bytes) /\ delivered' \in Seq(Bytes)
  <2>1. SubSeq(buf, 1, dst) \in Seq(Bytes)
    BY <1>1, PrefixTyped DEF RInv, IInv, TypeOK
  <2> QED BY <1>1, <2>1, ConcatProperties DEF NeedMore
<1> QED BY <1>2, <1>3, NoBytes DEF NeedMore, streamRead, streamPayload

LEMMA ChunkDoneStutters ==
  ASSUME RInv, ChunkDone
  PROVE  UNCHANGED <<streamRead, streamPayload>>
<1>1. src \in Nat /\ avail \in Nat /\ src < avail /\ dst \in 0..avail /\ consumed \in Seq(Bytes)
      /\ delivered \in Seq(Bytes) /\ pc = "decoding" /\ Complete(src)
  BY DEF RInv, IInv, TypeOK, InPlace, ChunkDone, At
<1>2. consumed' \in Seq(Bytes) /\ delivered' \in Seq(Bytes)
  <2>1. SubSeq(input, 1, src) \in Seq(Bytes) /\ SubSeq(buf, 1, dst) \in Seq(Bytes)
    BY <1>1, PrefixTyped, LenProperties DEF RInv, IInv, TypeOK
  <2> QED BY <1>1, <2>1, ConcatProperties DEF Complete
<1>3. streamRead' = consumed' /\ streamPayload' = delivered'
  BY <1>1, <1>2, NoBytes DEF Complete, streamRead, streamPayload
<1> QED BY <1>1, <1>3 DEF Complete, streamRead, streamPayload

(* Two buffers that agree on n bytes.                                      *)
LEMMA SameBytes ==
  ASSUME NEW q, NEW r, NEW a \in Nat, NEW b \in Nat, NEW n \in Nat,
         \A i \in 1..n : q[a + i] = r[b + i] /\ q[a + i] \in Bytes
  PROVE  SubSeq(q, a + 1, a + n) = SubSeq(r, b + 1, b + n)
<1> DEFINE s == SubSeq(q, a + 1, a + n)
           t == SubSeq(r, b + 1, b + n)
<1>1. /\ s \in Seq(Bytes) /\ Len(s) = n
      /\ \A i \in 1..n : s[i] = q[a + i]
  <2>1. \A i \in a + 1..a + n : q[i] \in Bytes
    <3>1. TAKE i \in a + 1..a + n
    <3>2. i - a \in 1..n /\ a + (i - a) = i
      OBVIOUS
    <3> QED BY <3>2
  <2>2. /\ s \in Seq(Bytes) /\ Len(s) = IF a + 1 <= a + n THEN (a + n) - (a + 1) + 1 ELSE 0
        /\ \A i \in 1..(a + n) - (a + 1) + 1 : s[i] = q[(a + 1) + i - 1]
    <3>1. a + 1 \in Int /\ a + n \in Int
      OBVIOUS
    <3> QED BY <2>1, <3>1, SubSeqProperties
  <2> HIDE DEF s
  <2>3. (a + n) - (a + 1) + 1 = n /\ \A i \in 1..n : (a + 1) + i - 1 = a + i
    OBVIOUS
  <2> QED BY <2>2, <2>3
<1>2. /\ t \in Seq(Bytes) /\ Len(t) = n
      /\ \A i \in 1..n : t[i] = r[b + i]
  <2>1. \A i \in b + 1..b + n : r[i] \in Bytes
    <3>1. TAKE i \in b + 1..b + n
    <3>2. i - b \in 1..n /\ b + (i - b) = i
      OBVIOUS
    <3> QED BY <3>2
  <2>2. /\ t \in Seq(Bytes) /\ Len(t) = IF b + 1 <= b + n THEN (b + n) - (b + 1) + 1 ELSE 0
        /\ \A i \in 1..(b + n) - (b + 1) + 1 : t[i] = r[(b + 1) + i - 1]
    <3>1. b + 1 \in Int /\ b + n \in Int
      OBVIOUS
    <3> QED BY <2>1, <3>1, SubSeqProperties
  <2> HIDE DEF t
  <2>3. (b + n) - (b + 1) + 1 = n /\ \A i \in 1..n : (b + 1) + i - 1 = b + i
    OBVIOUS
  <2> QED BY <2>2, <2>3
<1> HIDE DEF s, t
<1>3. s = t
  BY <1>1, <1>2, SeqEqual
<1> QED BY <1>3 DEF s, t

(* The copy of payload, in place, appends the same bytes to the stream and *)
(* to the body.                                                            *)
LEMMA DataReads ==
  ASSUME RInv, ChunkData
  PROVE  LET bytes == SubSeq(input, src + 1, src + to_copy) IN
           /\ to_copy \in 1..bytes_left_in_chunk
           /\ streamRead' = streamRead \o bytes
           /\ streamPayload' = streamPayload \o bytes
           /\ Len(bytes) = to_copy
           /\ Len(streamRead') = Len(streamRead) + to_copy /\ Len(streamRead) \in Nat
           /\ SubSeq(streamRead', Len(streamRead) + 1, Len(streamRead')) = bytes
<1> DEFINE bytes == SubSeq(input, src + 1, src + to_copy)
<1>1. /\ pc = "decoding" /\ src < avail /\ state = CHUNK_DATA
      /\ avail \in Nat /\ src \in Nat /\ dst \in Nat /\ dst <= src
      /\ bytes_left_in_chunk \in Nat \ {0} /\ Len(input) = avail /\ input \in Seq(Bytes)
      /\ consumed \in Seq(Bytes) /\ delivered \in Seq(Bytes) /\ buf \in [1..avail -> Bytes]
      /\ \A i \in src + 1..avail : buf[i] = input[i]
  BY DEF RInv, IInv, TypeOK, InPlace, ChunkAccounting, ChunkData, At
<1>2. /\ to_copy \in Nat \ {0} /\ src + to_copy <= avail
      /\ to_copy \in 1..bytes_left_in_chunk
  BY <1>1 DEF to_copy, Smaller
<1> HIDE DEF to_copy, bytes
<1>3. /\ pc' = "decoding" /\ src' = src + to_copy /\ dst' = dst + to_copy
      /\ UNCHANGED <<input, consumed, delivered, avail>>
      /\ buf' = [i \in 1..avail |-> IF i \in dst + 1..dst + to_copy THEN buf[i - dst + src] ELSE buf[i]]
  BY <1>1 DEF ChunkData, memmove
<1>4. buf' \in [1..avail -> Bytes]
  BY <1>1, <1>2, MoveTyped DEF RInv, IInv, ChunkData
<1>5. /\ streamRead' = streamRead \o bytes
      /\ Len(bytes) = to_copy
      /\ Len(streamRead') = Len(streamRead) + to_copy /\ Len(streamRead) \in Nat
      /\ SubSeq(streamRead', Len(streamRead) + 1, Len(streamRead')) = bytes
  <2>1. streamRead = consumed \o SubSeq(input, 1, src)
    BY <1>1 DEF streamRead
  <2>2. streamRead' = consumed \o SubSeq(input, 1, src')
    BY <1>3 DEF streamRead
  <2>3. src' \in Nat /\ src <= src' /\ src' <= Len(input) /\ src' - src = to_copy
    BY <1>1, <1>2, <1>3
  <2>4. bytes = SubSeq(input, src + 1, src')
    BY <1>3 DEF bytes
  <2>5. /\ streamRead' = streamRead \o bytes /\ streamRead \in Seq(Bytes)
        /\ bytes \in Seq(Bytes) /\ Len(bytes) = to_copy
    <3>1. /\ consumed \o SubSeq(input, 1, src')
               = (consumed \o SubSeq(input, 1, src)) \o SubSeq(input, src + 1, src')
          /\ consumed \o SubSeq(input, 1, src) \in Seq(Bytes)
          /\ SubSeq(input, src + 1, src') \in Seq(Bytes)
          /\ Len(SubSeq(input, src + 1, src')) = src' - src
      <4>1. /\ consumed \in Seq(Bytes) /\ input \in Seq(Bytes)
            /\ src \in Nat /\ src' \in Nat /\ src <= src' /\ src' <= Len(input)
        BY <1>1, <2>3
      <4> QED BY <4>1, ManyBytes
    <3> QED BY <2>1, <2>2, <2>3, <2>4, <3>1
  <2> QED BY <2>5, RestOfConcat
<1>6. streamPayload' = streamPayload \o bytes
  <2>1. streamPayload = delivered \o SubSeq(buf, 1, dst)
    BY <1>1 DEF streamPayload
  <2>2. streamPayload' = delivered \o SubSeq(buf', 1, dst')
    BY <1>3 DEF streamPayload
  <2>3. buf' \in Seq(Bytes) /\ Len(buf') = avail
    BY <1>1, <1>4
  <2>4. delivered \o SubSeq(buf', 1, dst')
          = (delivered \o SubSeq(buf', 1, dst)) \o SubSeq(buf', dst + 1, dst')
    <3>1. /\ delivered \in Seq(Bytes) /\ buf' \in Seq(Bytes)
          /\ dst \in Nat /\ dst' \in Nat /\ dst <= dst' /\ dst' <= Len(buf')
      BY <1>1, <1>2, <1>3, <2>3
    <3> QED BY <3>1, ManyBytes
  <2>5. SubSeq(buf', 0 + 1, 0 + dst) = SubSeq(buf, 0 + 1, 0 + dst)
    <3>1. \A i \in 1..dst : buf'[0 + i] = buf[0 + i] /\ buf'[0 + i] \in Bytes
      BY <1>1, <1>2, <1>3
    <3> QED BY <1>1, <3>1, SameBytes
  <2>6. SubSeq(buf', dst + 1, dst + to_copy) = bytes
    <3>1. \A i \in 1..to_copy : buf'[dst + i] = input[src + i] /\ buf'[dst + i] \in Bytes
      <4>1. TAKE i \in 1..to_copy
      <4>2. /\ dst + i \in 1..avail /\ dst + i \in dst + 1..dst + to_copy
            /\ (dst + i) - dst + src = src + i /\ src + i \in src + 1..avail
        BY <1>1, <1>2
      <4>3. buf'[dst + i] = buf[src + i]
        BY <1>3, <4>2
      <4> QED BY <1>1, <1>4, <4>2, <4>3
    <3>2. dst \in Nat /\ src \in Nat /\ to_copy \in Nat
      BY <1>1, <1>2
    <3> QED BY <3>1, <3>2, SameBytes, SMTT(90) DEF bytes
  <2>7. 0 + 1 = 1 /\ 0 + dst = dst
    BY <1>1
  <2>8. SubSeq(buf', 1, dst) = SubSeq(buf, 1, dst)
    BY <2>5, <2>7
  <2> QED BY <1>3, <2>1, <2>2, <2>4, <2>6, <2>8
<1> QED BY <1>2, <1>5, <1>6 DEF bytes

-----------------------------------------------------------------------------
(* The phase of the stream, by the decoder's state.                        *)
LEMMA Phases ==
  ASSUME status # IHTP_ERROR
  PROVE  /\ state = CHUNK_SIZE    => streamPhase = "size"
         /\ state = CHUNK_EXT     => streamPhase = "extension"
         /\ state = CHUNK_SIZE_LF => streamPhase = "size LF"
         /\ state = CHUNK_DATA    => streamPhase = "data"
         /\ state = CHUNK_DATA_CR => streamPhase = "data CR"
         /\ state = CHUNK_DATA_LF => streamPhase = "data LF"
         /\ state = CHUNK_TRAILER => streamPhase = trailerPhase
         /\ state = CHUNK_DONE    => streamPhase = "done"
  BY DEF streamPhase, CHUNK_SIZE, CHUNK_EXT, CHUNK_SIZE_LF, CHUNK_DATA, CHUNK_DATA_CR,
     CHUNK_DATA_LF, CHUNK_TRAILER, CHUNK_DONE

LEMMA TrailerPhases ==
  /\ hex_count = TRAILER_LINE_START => trailerPhase = "trailer"
  /\ hex_count = TRAILER_DONE_LF    => trailerPhase = "last LF"
  /\ hex_count = TRAILER_LINE       => trailerPhase = "trailer line"
  /\ hex_count = TRAILER_LINE_LF    => trailerPhase = "trailer LF"
  BY DEF trailerPhase, TRAILER_LINE_START, TRAILER_DONE_LF, TRAILER_LINE, TRAILER_LINE_LF

(* The same, of the state a step leads to.                                 *)
LEMMA NextPhases ==
  ASSUME status' # IHTP_ERROR
  PROVE  /\ state' = CHUNK_SIZE    => streamPhase' = "size"
         /\ state' = CHUNK_EXT     => streamPhase' = "extension"
         /\ state' = CHUNK_SIZE_LF => streamPhase' = "size LF"
         /\ state' = CHUNK_DATA    => streamPhase' = "data"
         /\ state' = CHUNK_DATA_CR => streamPhase' = "data CR"
         /\ state' = CHUNK_DATA_LF => streamPhase' = "data LF"
         /\ state' = CHUNK_TRAILER => streamPhase' = trailerPhase'
         /\ state' = CHUNK_DONE    => streamPhase' = "done"
  BY DEF streamPhase, CHUNK_SIZE, CHUNK_EXT, CHUNK_SIZE_LF, CHUNK_DATA, CHUNK_DATA_CR,
     CHUNK_DATA_LF, CHUNK_TRAILER, CHUNK_DONE

LEMMA NextTrailerPhases ==
  /\ hex_count' = TRAILER_LINE_START => trailerPhase' = "trailer"
  /\ hex_count' = TRAILER_DONE_LF    => trailerPhase' = "last LF"
  /\ hex_count' = TRAILER_LINE       => trailerPhase' = "trailer line"
  /\ hex_count' = TRAILER_LINE_LF    => trailerPhase' = "trailer LF"
  BY DEF trailerPhase, TRAILER_LINE_START, TRAILER_DONE_LF, TRAILER_LINE, TRAILER_LINE_LF

LEMMA Alphabet ==
  Stream!Bytes = Bytes /\ Stream!CR = CR /\ Stream!LF = LF /\ Stream!SEMI = SEMI
  BY DEF Stream!Bytes, Stream!CR, Stream!LF, Stream!SEMI, Bytes, CR, LF, SEMI

(* A framing byte, or the byte that completes the body, is a move of the   *)
(* stream from phase to phase.                                             *)
LEMMA MoveRefines ==
  ASSUME RInv, pc = "decoding", src < avail, state # CHUNK_SIZE,
         \/ \E next, count : next # CHUNK_SIZE /\ Frame(next, count)
         \/ Complete(src + 1)
  PROVE  /\ Stream!Goto(streamPhase, byte, streamPhase') /\ byte \in Stream!Bytes
         /\ status # IHTP_ERROR /\ status' # IHTP_ERROR
<1>1. status # IHTP_ERROR
  BY DEF RInv, Healthy
<1>2. /\ streamRead' = Append(streamRead, byte) /\ streamPayload' = streamPayload
      /\ UNCHANGED <<bytes_left_in_chunk, consume_trailer>>
      /\ status' # IHTP_ERROR /\ state' # CHUNK_SIZE
  BY <1>1, FrameReads, CompleteReads DEF CHUNK_DONE, CHUNK_SIZE
<1>3. Stream!Framing(byte)
  BY <1>2 DEF Stream!Framing
<1> QED BY <1>1, <1>2, <1>3, ByteRead, Alphabet DEF Stream!Goto

LEMMA ChunkExtRefines ==
  ASSUME RInv, ChunkExt, ~Reject
  PROVE  Stream!Next
<1>1. pc = "decoding" /\ src < avail /\ state = CHUNK_EXT /\ state # CHUNK_SIZE
  BY DEF ChunkExt, At, CHUNK_EXT, CHUNK_SIZE
<1>2. ASSUME NEW next \in {CHUNK_SIZE_LF, CHUNK_EXT}, Frame(next, hex_count),
             next = CHUNK_SIZE_LF => byte = CR, next = CHUNK_EXT => byte \notin {CR, LF}
      PROVE  Stream!Next
  <2>1. /\ Stream!Goto(streamPhase, byte, streamPhase') /\ byte \in Stream!Bytes
        /\ status # IHTP_ERROR /\ status' # IHTP_ERROR /\ state' = next
    BY <1>1, <1>2, MoveRefines, FrameReads DEF CHUNK_SIZE_LF, CHUNK_EXT, CHUNK_SIZE
  <2>2. Stream!Extension(byte)
    BY <1>1, <1>2, <2>1, Phases, NextPhases, Alphabet DEF Stream!Extension
  <2> QED BY <2>1, <2>2 DEF Stream!Next
<1> QED BY <1>2 DEF ChunkExt, CHUNK_SIZE_LF, CHUNK_EXT

LEMMA ChunkSizeLFRefines ==
  ASSUME RInv, ChunkSizeLF, ~Reject
  PROVE  Stream!Next
<1>1. /\ pc = "decoding" /\ src < avail /\ state = CHUNK_SIZE_LF /\ state # CHUNK_SIZE
      /\ byte = LF /\ bytes_left_in_chunk \in Nat
  BY DEF ChunkSizeLF, At, CHUNK_SIZE_LF, CHUNK_SIZE, RInv, IInv, TypeOK
<1>2. \/ bytes_left_in_chunk > 0 /\ Frame(CHUNK_DATA, hex_count)
      \/ bytes_left_in_chunk = 0 /\ consume_trailer /\ Frame(CHUNK_TRAILER, TRAILER_LINE_START)
      \/ bytes_left_in_chunk = 0 /\ ~consume_trailer /\ Complete(src + 1)
  BY <1>1 DEF ChunkSizeLF
<1>3. /\ Stream!Goto(streamPhase, byte, streamPhase') /\ byte \in Stream!Bytes
      /\ status # IHTP_ERROR /\ status' # IHTP_ERROR
  BY <1>1, <1>2, MoveRefines DEF CHUNK_DATA, CHUNK_TRAILER, CHUNK_SIZE
<1>4. streamPhase = "size LF"
  BY <1>1, <1>3, Phases
<1>5. CASE bytes_left_in_chunk > 0 /\ Frame(CHUNK_DATA, hex_count)
  <2>1. streamPhase' = "data"
    BY <1>1, <1>3, <1>5, FrameReads, NextPhases
  <2>2. Stream!LineEnd(byte)
    BY <1>1, <1>3, <1>4, <1>5, <2>1, Alphabet DEF Stream!LineEnd
  <2> QED BY <1>3, <2>2 DEF Stream!Next
<1>6. CASE bytes_left_in_chunk = 0 /\ consume_trailer /\ Frame(CHUNK_TRAILER, TRAILER_LINE_START)
  <2>1. streamPhase' = "trailer"
    BY <1>1, <1>3, <1>6, FrameReads, NextPhases, NextTrailerPhases
  <2>2. Stream!LineEnd(byte)
    BY <1>1, <1>3, <1>4, <1>6, <2>1, Alphabet DEF Stream!LineEnd
  <2> QED BY <1>3, <2>2 DEF Stream!Next
<1>7. CASE bytes_left_in_chunk = 0 /\ ~consume_trailer /\ Complete(src + 1)
  <2>1. streamPhase' = "done"
    BY <1>1, <1>3, <1>7, CompleteReads, NextPhases
  <2>2. Stream!LineEnd(byte)
    BY <1>1, <1>3, <1>4, <1>7, <2>1, Alphabet DEF Stream!LineEnd
  <2> QED BY <1>3, <2>2 DEF Stream!Next
<1> QED BY <1>2, <1>5, <1>6, <1>7

LEMMA ChunkTrailerRefines ==
  ASSUME RInv, ChunkTrailer, ~Reject
  PROVE  Stream!Next
<1>1. pc = "decoding" /\ src < avail /\ state = CHUNK_TRAILER /\ state # CHUNK_SIZE
  BY DEF ChunkTrailer, At, CHUNK_TRAILER, CHUNK_SIZE
<1>2. (\E count : Frame(CHUNK_TRAILER, count)) \/ Complete(src + 1)
  BY DEF ChunkTrailer, TrailerLineStart, TrailerDoneLF, TrailerLine, TrailerLineLF
<1>3. /\ Stream!Goto(streamPhase, byte, streamPhase') /\ byte \in Stream!Bytes
      /\ status # IHTP_ERROR /\ status' # IHTP_ERROR
  BY <1>1, <1>2, MoveRefines DEF CHUNK_TRAILER, CHUNK_SIZE
<1>4. streamPhase = trailerPhase
  BY <1>1, <1>3, Phases
<1>5. \A count : Frame(CHUNK_TRAILER, count) => streamPhase' = trailerPhase' /\ hex_count' = count
  BY <1>1, <1>3, FrameReads, NextPhases
<1>6. Complete(src + 1) => streamPhase' = "done"
  BY <1>1, <1>3, CompleteReads, NextPhases
<1>7. CASE TrailerLineStart
  BY <1>3, <1>4, <1>5, <1>7, TrailerPhases, NextTrailerPhases, Alphabet
     DEF TrailerLineStart, Stream!Trailer, Stream!Next
<1>8. CASE TrailerDoneLF
  BY <1>3, <1>4, <1>6, <1>8, TrailerPhases, Alphabet DEF TrailerDoneLF, Stream!Trailer, Stream!Next
<1>9. CASE TrailerLine
  BY <1>3, <1>4, <1>5, <1>9, TrailerPhases, NextTrailerPhases, Alphabet
     DEF TrailerLine, Stream!Trailer, Stream!Next
<1>10. CASE TrailerLineLF
  BY <1>3, <1>4, <1>5, <1>10, TrailerPhases, NextTrailerPhases, Alphabet
     DEF TrailerLineLF, Stream!Trailer, Stream!Next
<1> QED BY <1>7, <1>8, <1>9, <1>10 DEF ChunkTrailer

(* The end of a chunk; the counters that start over were 0 already.        *)
LEMMA DataEndRefines ==
  ASSUME RInv, ChunkDataCR \/ ChunkDataLF, ~Reject
  PROVE  Stream!Next
<1>1. pc = "decoding" /\ src < avail /\ state # CHUNK_SIZE /\ status # IHTP_ERROR
  BY DEF ChunkDataCR, ChunkDataLF, At, CHUNK_DATA_CR, CHUNK_DATA_LF, CHUNK_SIZE, RInv, Healthy
<1>2. CASE ChunkDataCR
  <2>1. byte = CR /\ Frame(CHUNK_DATA_LF, hex_count) /\ state = CHUNK_DATA_CR
    BY <1>2 DEF ChunkDataCR, At
  <2>2. /\ Stream!Goto(streamPhase, byte, streamPhase') /\ byte \in Stream!Bytes
        /\ status' # IHTP_ERROR /\ state' = CHUNK_DATA_LF
    BY <1>1, <2>1, MoveRefines, FrameReads DEF CHUNK_DATA_LF, CHUNK_SIZE
  <2> QED BY <1>1, <2>1, <2>2, Phases, NextPhases, Alphabet DEF Stream!DataEnd, Stream!Next
<1>3. CASE ChunkDataLF
  <2>1. byte = LF /\ NextChunk /\ state = CHUNK_DATA_LF
    BY <1>3 DEF ChunkDataLF, At
  <2>2. bytes_left_in_chunk = 0
    BY <2>1 DEF RInv, IInv, ChunkAccounting, CHUNK_DATA_LF
  <2>3. streamRead' = Append(streamRead, byte) /\ streamPayload' = streamPayload
    BY <1>1, <2>1, ByteRead DEF NextChunk, streamRead, streamPayload
  <2>4. Stream!Framing(byte) /\ byte \in Stream!Bytes
    BY <1>1, <2>1, <2>3, ByteRead, Alphabet DEF Stream!Framing, NextChunk
  <2>5. streamPhase = "data LF" /\ streamPhase' = "size"
    BY <1>1, <2>1, Phases, NextPhases DEF NextChunk, result
  <2>6. Stream!Goto("data LF", byte, "size")
    BY <1>1, <2>1, <2>2, <2>4, <2>5 DEF Stream!Goto, NextChunk
  <2> QED BY <2>1, <2>4, <2>6, Alphabet DEF Stream!DataEnd, Stream!Next
<1> QED BY <1>2, <1>3

LEMMA ChunkSizeRefines ==
  ASSUME RInv, ChunkSize, ~Reject
  PROVE  Stream!Next
<1>1. pc = "decoding" /\ src < avail /\ state = CHUNK_SIZE /\ status # IHTP_ERROR /\ hex_count \in Nat
  BY WidthAssumption DEF ChunkSize, At, RInv, Healthy, IInv, TypeOK
<1>2. streamPhase = "size"
  BY <1>1, Phases
<1>3. CASE SizeDigit
  <2>1. bytes_left_in_chunk' = 16 * bytes_left_in_chunk + HexValue[byte]
    <3>1. IInv'
      BY <1>1, <1>3, SizeDigitPreserves DEF RInv, At
    <3>2. bytes_left_in_chunk = declared /\ declared \in Nat
      BY <1>1 DEF RInv, IInv, TypeOK, ChunkAccounting
    <3>3. bytes_left_in_chunk' = declared'
      BY <1>1, <1>3, <3>1 DEF IInv, ChunkAccounting, SizeDigit
    <3>4. declared' = declared * 16 + HexValue[byte] /\ HexValue[byte] \in 0..15
      BY <1>3, DigitAssumption DEF SizeDigit
    <3> QED BY <3>2, <3>3, <3>4
  <2>2. streamRead' = Append(streamRead, byte) /\ streamPayload' = streamPayload
    BY <1>1, <1>3, ByteRead DEF SizeDigit, streamRead, streamPayload
  <2>3. Stream!Framing(byte) /\ byte \in Stream!Bytes
    BY <1>1, <1>3, <2>2, ByteRead, Alphabet DEF Stream!Framing, SizeDigit
  <2>4. streamPhase' = "size"
    BY <1>1, <1>3, NextPhases DEF SizeDigit, result
  <2>5. Stream!Digit(byte)
    <3>1. /\ state' = state /\ hex_count' = hex_count + 1
          /\ byte \in HexDigits /\ hex_count < MaxHexDigits
      BY <1>3 DEF SizeDigit, SizeDigitFits
    <3> QED BY <1>1, <1>2, <2>1, <2>3, <2>4, <3>1 DEF Stream!Digit
  <2> QED BY <2>3, <2>5 DEF Stream!Next
<1>4. ASSUME NEW next \in {CHUNK_EXT, CHUNK_SIZE_LF}, Frame(next, hex_count),
             next = CHUNK_EXT => byte = SEMI, next = CHUNK_SIZE_LF => byte = CR /\ hex_count # 0
      PROVE  Stream!Next
  <2>1. /\ streamRead' = Append(streamRead, byte) /\ streamPayload' = streamPayload
        /\ UNCHANGED <<bytes_left_in_chunk, consume_trailer, status>>
        /\ state' = next /\ state' # CHUNK_SIZE
    BY <1>1, <1>4, FrameReads DEF CHUNK_EXT, CHUNK_SIZE_LF, CHUNK_SIZE
  <2>2. Stream!Framing(byte) /\ byte \in Stream!Bytes
    BY <1>1, <2>1, ByteRead, Alphabet DEF Stream!Framing
  <2>3. /\ next = CHUNK_EXT => streamPhase' = "extension"
        /\ next = CHUNK_SIZE_LF => streamPhase' = "size LF"
    BY <1>1, <2>1, NextPhases
  <2>4. Stream!SizeEnd(byte)
    <3>1. \/ byte = SEMI /\ streamPhase' = "extension"
          \/ byte = CR /\ hex_count > 0 /\ streamPhase' = "size LF"
      <4>1. CASE next = CHUNK_EXT
        BY <1>4, <2>3, <4>1
      <4>2. CASE next = CHUNK_SIZE_LF
        <5>1. byte = CR /\ hex_count # 0
          BY <1>4, <4>2
        <5>2. hex_count > 0
          BY <1>1, <5>1
        <5>3. streamPhase' = "size LF"
          BY <2>3, <4>2
        <5> QED BY <5>1, <5>2, <5>3, Zenon
      <4> QED BY <1>4, <4>1, <4>2
    <3> QED BY <1>1, <1>2, <2>1, <2>2, <3>1, Alphabet DEF Stream!SizeEnd
  <2> QED BY <2>2, <2>4 DEF Stream!Next
<1> QED BY <1>3, <1>4 DEF ChunkSize, CHUNK_EXT, CHUNK_SIZE_LF

LEMMA ChunkDataRefines ==
  ASSUME RInv, ChunkData
  PROVE  Stream!Next
<1>1. state = CHUNK_DATA /\ pc = "decoding" /\ status # IHTP_ERROR /\ bytes_left_in_chunk \in Nat
  BY DEF ChunkData, At, RInv, Healthy, IInv, TypeOK
<1> DEFINE bytes == SubSeq(input, src + 1, src + to_copy)
           n == Len(streamRead') - Len(streamRead)
<1>2. /\ to_copy \in 1..bytes_left_in_chunk
      /\ streamRead' = streamRead \o bytes
      /\ streamPayload' = streamPayload \o bytes
      /\ Len(bytes) = to_copy
      /\ Len(streamRead') = Len(streamRead) + to_copy /\ Len(streamRead) \in Nat
      /\ SubSeq(streamRead', Len(streamRead) + 1, Len(streamRead')) = bytes
  BY DataReads
<1>3. /\ bytes_left_in_chunk' = bytes_left_in_chunk - to_copy
      /\ state' = IF bytes_left_in_chunk' = 0 THEN CHUNK_DATA_CR ELSE CHUNK_DATA
      /\ UNCHANGED <<hex_count, consume_trailer, status>>
  BY DEF ChunkData, result
<1> HIDE DEF to_copy, bytes
<1>4. n = to_copy
  BY <1>1, <1>2
<1> HIDE DEF n
<1>5. /\ streamPhase = "data"
      /\ streamPhase' = IF bytes_left_in_chunk' = 0 THEN "data CR" ELSE "data"
  BY <1>1, <1>3, Phases, NextPhases
<1>6. state # CHUNK_SIZE /\ state' # CHUNK_SIZE
  BY <1>1, <1>3 DEF CHUNK_SIZE, CHUNK_DATA, CHUNK_DATA_CR
<1>7. \E b \in {SubSeq(streamRead', Len(streamRead) + 1, Len(streamRead'))} :
        /\ Len(b) = n
        /\ streamRead' = streamRead \o b
        /\ streamPayload' = streamPayload \o b
  BY <1>2, <1>4, Zenon
<1>8. n \in 1..bytes_left_in_chunk /\ bytes_left_in_chunk' = bytes_left_in_chunk - n
  BY <1>2, <1>3, <1>4
<1>9. Stream!Data(n)
  BY <1>3, <1>5, <1>6, <1>7, <1>8, Zenon DEF Stream!Data
<1> QED BY <1>9 DEF Stream!Next, n

(* A rejected byte is one the stream does not allow.                       *)
LEMMA RejectRefines ==
  ASSUME RInv, Reject,
         ChunkSize \/ ChunkExt \/ ChunkSizeLF \/ ChunkDataCR \/ ChunkDataLF \/ ChunkTrailer
  PROVE  Stream!Next
<1>1. pc = "decoding" /\ src < avail /\ status # IHTP_ERROR /\ hex_count \in Nat
  <2>1. pc = "decoding" /\ src < avail
    BY DEF ChunkSize, ChunkExt, ChunkSizeLF, ChunkDataCR, ChunkDataLF, ChunkTrailer, At
  <2>2. hex_count \in Nat
    BY WidthAssumption DEF RInv, IInv, TypeOK
  <2> QED BY <2>1, <2>2 DEF RInv, Healthy
<1>2. pc' = "ready" /\ status' = IHTP_ERROR
  BY DEF Reject
<1>3. byte \in Stream!Bytes \ Stream!Allowed /\ streamPhase \notin {"data", "done", "bad"}
  <2>1. CASE ChunkSize
    <3>1. state = CHUNK_SIZE /\ streamPhase = "size"
      BY <1>1, <2>1, Phases DEF ChunkSize, At
    <3>2. \/ byte \in HexDigits /\ ~(hex_count < MaxHexDigits)
          \/ byte = CR /\ ~(hex_count > 0)
          \/ byte \notin HexDigits \cup {SEMI, CR}
      BY <1>1, <1>2, <2>1 DEF ChunkSize, SizeDigit, SizeDigitFits, Frame
    <3>3. Stream!Allowed = (IF hex_count < MaxHexDigits THEN HexDigits ELSE {})
                             \cup {SEMI} \cup (IF hex_count > 0 THEN {CR} ELSE {})
      BY <3>1, Alphabet DEF Stream!Allowed
    <3>4. byte \notin Stream!Allowed
      BY <3>2, <3>3, DigitAssumption DEF CR, SEMI
    <3> QED BY <1>1, <3>1, <3>4, ByteRead, Alphabet
  <2>2. CASE ChunkExt
    <3>1. streamPhase = "extension" /\ byte = LF
      BY <1>1, <1>2, <2>2, Phases DEF ChunkExt, At, Frame
    <3> QED BY <1>1, <3>1, ByteRead, Alphabet DEF Stream!Allowed
  <2>3. CASE ChunkSizeLF
    <3>1. streamPhase = "size LF" /\ byte # LF
      BY <1>1, <1>2, <2>3, Phases DEF ChunkSizeLF, At, Frame, Complete, IHTP_ERROR, Reject, decoder, CHUNK_SIZE_LF, CHUNK_DONE
    <3> QED BY <1>1, <3>1, ByteRead, Alphabet DEF Stream!Allowed
  <2>4. CASE ChunkDataCR
    <3>1. streamPhase = "data CR" /\ byte # CR
      BY <1>1, <1>2, <2>4, Phases DEF ChunkDataCR, At, Frame
    <3> QED BY <1>1, <3>1, ByteRead, Alphabet DEF Stream!Allowed
  <2>5. CASE ChunkDataLF
    <3>1. streamPhase = "data LF" /\ byte # LF
      BY <1>1, <1>2, <2>5, Phases DEF ChunkDataLF, At, NextChunk
    <3> QED BY <1>1, <3>1, ByteRead, Alphabet DEF Stream!Allowed
  <2>6. CASE ChunkTrailer
    <3>1. streamPhase = trailerPhase /\ state = CHUNK_TRAILER /\ state' = state
      BY <1>1, <2>6, Phases DEF ChunkTrailer, At, Reject, decoder
    <3>2. \/ streamPhase \in {"trailer", "trailer line"} /\ byte = LF
          \/ streamPhase \in {"trailer LF", "last LF"} /\ byte # LF
      BY <1>1, <1>2, <2>6, <3>1, TrailerPhases
         DEF ChunkTrailer, TrailerLineStart, TrailerDoneLF, TrailerLine, TrailerLineLF, Frame, Complete, CHUNK_TRAILER, CHUNK_DONE
    <3> QED BY <1>1, <3>2, ByteRead, Alphabet DEF Stream!Allowed
  <2> QED BY <2>1, <2>2, <2>3, <2>4, <2>5, <2>6
<1>4. streamPhase' = "bad"
  BY <1>2 DEF streamPhase
<1>5. Stream!Bad(byte)
  BY <1>1, <1>3, <1>4, RejectReads DEF Stream!Bad
<1> QED BY <1>3, <1>5 DEF Stream!Next

-----------------------------------------------------------------------------
(* Every step of the decoder is a step of the stream or leaves it alone.   *)
LEMMA StepRefines == RInv /\ [Next]_vars => [Stream!Next]_Stream!vars
<1> SUFFICES ASSUME RInv, [Next]_vars PROVE Stream!Next \/ UNCHANGED Stream!vars
  OBVIOUS
<1>1. ASSUME UNCHANGED <<streamRead, streamPayload, decoder>>, streamPhase' = streamPhase
      PROVE  UNCHANGED Stream!vars
  BY <1>1 DEF Stream!vars, decoder
<1>2. CASE \E slice \in Slices : Call(slice)
  BY <1>1, <1>2, CallStutters DEF Call, decoder, streamPhase, trailerPhase
<1>3. CASE NeedMore
  <2>1. status # IHTP_ERROR /\ status' # IHTP_ERROR /\ UNCHANGED decoder
    BY <1>3 DEF NeedMore, RInv, Healthy, IHTP_ERROR, IHTP_INCOMPLETE
  <2> QED BY <1>1, <1>3, <2>1, NeedMoreStutters DEF decoder, streamPhase, trailerPhase
<1>4. CASE ChunkDone
  <2>1. status # IHTP_ERROR /\ src \in Nat /\ src < avail /\ state = CHUNK_DONE /\ Complete(src)
    BY <1>4 DEF ChunkDone, At, RInv, Healthy, IInv, TypeOK
  <2>2. status' # IHTP_ERROR
    BY <2>1, CompleteStatus DEF RInv, IInv, TypeOK
  <2>3. UNCHANGED decoder
    BY <2>1 DEF Complete, decoder
  <2> QED BY <1>1, <1>4, <2>1, <2>2, <2>3, ChunkDoneStutters, Phases, NextPhases DEF decoder
<1>5. CASE UNCHANGED vars
  BY <1>5 DEF vars, decoder, call, result, history, Stream!vars, streamRead, streamPayload,
     streamPhase, trailerPhase
<1>6. CASE ChunkData
  BY <1>6, ChunkDataRefines
<1>7. CASE ChunkSize \/ ChunkExt \/ ChunkSizeLF \/ ChunkDataCR \/ ChunkDataLF \/ ChunkTrailer
  BY <1>7, RejectRefines, ChunkSizeRefines, ChunkExtRefines, ChunkSizeLFRefines, DataEndRefines,
     ChunkTrailerRefines
<1> QED BY <1>2, <1>3, <1>4, <1>5, <1>6, <1>7 DEF Next, Step

LEMMA InitRefines == Init => Stream!Init
<1> SUFFICES ASSUME Init PROVE Stream!Init
  OBVIOUS
<1>1. streamRead = <<>> /\ streamPayload = <<>>
  <2>1. <<>> \in Seq(Bytes)
    OBVIOUS
  <2> QED BY <2>1, NoBytes DEF Init, streamRead, streamPayload
<1>2. streamPhase = "size"
  BY Phases DEF Init, IHTP_OK, IHTP_ERROR
<1> QED BY <1>1, <1>2 DEF Init, Stream!Init

(* ihtp_decode_chunked(), called slice by slice by a caller that stops at  *)
(* an error and whose slices an int can count, reads the stream and builds *)
(* the body exactly as the byte-by-byte decoder of ChunkedBody does.       *)
THEOREM Refinement ==
  ASSUME RetryAfterError = FALSE, IntSlices
  PROVE  Spec => ImplementsStream
<1>1. Init => RInv
  <2>1. Init => Healthy
    BY WidthAssumption DEF Init, Healthy
  <2> QED BY <2>1, InitEstablishes DEF RInv
<1>2. RInv /\ [Next]_vars => RInv'
  BY StepPreserves, StepHealthy DEF RInv
<1> QED BY <1>1, <1>2, InitRefines, StepRefines, PTL DEF Spec, ImplementsStream, Stream!Spec
=============================================================================
