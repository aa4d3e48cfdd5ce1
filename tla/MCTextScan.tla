------------------------------ MODULE MCTextScan ------------------------------
(* Texts for the scanning loops, with words and blocks of a few bytes.      *)
EXTENDS TextScan

(* Bytes on both sides of every limit a validator has.                      *)
EdgeBytes == {0, 9, 31, 32, 33, 126, 127, 128, 255}

(* What the kernels tell apart, and the NUL that pads a needle.             *)
ScanBytes == {0, 32, 58, 200}

(* Texts of n bytes, at most two of them not the letter a.                  *)
Sprinkled(n, S) ==
  {[[k \in 1..n |-> 97] EXCEPT ![i] = b, ![j] = c] : i, j \in 1..n, b, c \in S}

(* Every byte beside every edge byte in a word, and longer texts that reach *)
(* the pair loop twice.                                                     *)
Neighbours == {<<a, b>> : a \in Byte, b \in EdgeBytes} \cup {<<a, b>> : a \in EdgeBytes, b \in Byte}

MCTexts(f) ==
  IF f \in {TARGET, FIELD}
  THEN Neighbours \cup UNION {Sprinkled(n, EdgeBytes) : n \in 0..11}
  ELSE UNION {Sprinkled(n, ScanBytes) : n \in 0..8}

(* The last is longer than a needle may be.                                 *)
MCDelims == {<<>>, <<58>>, <<58, 32>>, <<97, 58, 32, 200>>}
=============================================================================
