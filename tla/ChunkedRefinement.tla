-------------------------- MODULE ChunkedRefinement --------------------------
(***************************************************************************)
(* The decoder implements the stream of ChunkedBody: whatever the slices   *)
(* and whatever is moved in the buffer, what it has read and returned is   *)
(* what reading the stream byte by byte gives.  Stated for callers that    *)
(* stop at an error.                                                       *)
(***************************************************************************)
EXTENDS ChunkedDecoder

(* The stream: what earlier calls consumed and what this one has read.     *)
streamRead    == consumed \o (IF pc = "decoding" THEN SubSeq(input, 1, src) ELSE <<>>)
streamPayload == delivered \o (IF pc = "decoding" THEN SubSeq(buf, 1, dst) ELSE <<>>)

trailerPhase ==
  CASE hex_count = TRAILER_LINE_START -> "trailer"
    [] hex_count = TRAILER_DONE_LF    -> "last LF"
    [] hex_count = TRAILER_LINE       -> "trailer line"
    [] OTHER                          -> "trailer LF"

streamPhase ==
  IF status = IHTP_ERROR THEN "bad"
  ELSE CASE state = CHUNK_SIZE    -> "size"
         [] state = CHUNK_EXT     -> "extension"
         [] state = CHUNK_SIZE_LF -> "size LF"
         [] state = CHUNK_DATA    -> "data"
         [] state = CHUNK_DATA_CR -> "data CR"
         [] state = CHUNK_DATA_LF -> "data LF"
         [] state = CHUNK_TRAILER -> trailerPhase
         [] OTHER                 -> "done"

Stream == INSTANCE ChunkedBody WITH
  phase    <- streamPhase,
  digits   <- IF state = CHUNK_SIZE THEN hex_count ELSE 0,
  left     <- bytes_left_in_chunk,
  read     <- streamRead,
  payload  <- streamPayload,
  trailers <- consume_trailer

(* ihtp_decode_chunked() is the stream decoder of ChunkedBody: the wrap of *)
(* the 64-bit size, the counter that is digit count and trailer sub-state, *)
(* the copy in place and the cuts between calls are invisible.             *)
ImplementsStream == Stream!Spec
=============================================================================
