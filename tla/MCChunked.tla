------------------------------ MODULE MCChunked ------------------------------
(* Small instances of the chunked decoder for TLC.                          *)
EXTENDS ChunkedReference, ChunkedRefinement, SequencesExt, TLC

MCHexDigits == {"0", "1", "3"}
MCHexValue  == "0" :> 0 @@ "1" :> 1 @@ "3" :> 3
MCPow16     == [n \in 0..MaxHexDigits |-> 16 ^ n]

Char == {"0", "1", ";", "CR", "LF", "x"}

(* Every slice of up to two bytes: each body in every way it can be cut.    *)
ShortSlices == BoundedSeq(Char, 2)

(* Long slices and a few fragments, so that whole chunks, chunks of three   *)
(* bytes cut anywhere, trailers and the bytes of a following message meet   *)
(* in one call.                                                             *)
LongSlices ==
  { <<>>, <<"x">>, <<"CR">>, <<"1", "CR">>, <<"LF", "x">>,
    <<"LF", "x", "CR", "LF", "0", "CR">>,
    <<"1", "CR", "LF", "x", "CR", "LF">>,
    <<"3", "CR", "LF", "x">>,
    <<"x", "x", "CR", "LF">>,
    <<"0", "CR", "LF", "CR", "LF", "x", "1">>,
    <<"1", ";", "x", "CR", "LF", "LF", "CR", "LF", "0", "CR", "LF">>,
    <<"x", "x", "CR", "LF", "CR", "LF", "x">> }
=============================================================================
