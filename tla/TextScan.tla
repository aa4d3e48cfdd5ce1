------------------------------- MODULE TextScan -------------------------------
(***************************************************************************)
(* The loops that look at text a word or a block at a time: the validators *)
(* request_target_is_valid() and field_text_is_valid() of                  *)
(* src/ihtp_parser.c, which test eight bytes with a few operations on one  *)
(* unsigned word, and the scanner's kernels for the scalar, SSE4.2 and     *)
(* AVX2 backends.  Begin is a call; every iteration of a loop is one       *)
(* action.  A text is a sequence of byte values; offsets are from 0.       *)
(***************************************************************************)
EXTENDS Integers, Sequences

CONSTANTS
  Texts(_),   \* the texts a function is called on
  Delims,     \* delimiter strings for find_char
  WordBytes,  \* sizeof(uint64_t)
  SseBlock,   \* 16, the bytes of an SSE register and of the longest needle
  AvxBlock    \* 32, the bytes of an AVX2 block

Byte == 0..255

TARGET   == "request_target_is_valid"
FIELD    == "field_text_is_valid"
FIND     == "find_char"
IS_TOKEN == "is_token"
SKIP_LWS == "skip_lws"

Backends == {"scalar", "sse42", "avx2"}

ASSUME ScanAssumption ==
  /\ \A f \in {TARGET, FIELD, FIND, IS_TOKEN, SKIP_LWS} : Texts(f) \subseteq Seq(Byte)
  /\ Delims \subseteq Seq(Byte \ {0})
  /\ WordBytes \in Nat \ {0} /\ SseBlock \in Nat \ {0} /\ AvxBlock \in Nat \ {0}

VARIABLES
  fn, text,       \* the function and the text it is called on
  allow_spaces,   \* its other arguments: of the target validator,
  delims,         \* of find_char,
  backend,        \* and the kernel the dispatch table holds
  stage,          \* the loop it is in: pairs, words, blocks, bytes; or returned
  p,              \* the offset it has reached
  answer,         \* what it returned, a verdict or an offset; <<>> before
  loaded          \* history: the end of the furthest byte it has loaded

args == <<fn, text, allow_spaces, delims, backend>>
vars == <<args, stage, p, answer, loaded>>

len  == Len(text)
at   == text[p + 1]
left == len - p

-----------------------------------------------------------------------------
(* ihtp_token_table, ihtp_is_lws                                           *)
TokenChar ==
  {33, 35, 36, 37, 38, 39, 42, 43, 45, 46, 94, 95, 96, 124, 126}
    \cup 48..57 \cup 65..90 \cup 97..122
Lws == {32, 9}

(* 256 ^ j, the weight of byte j of a word.                                *)
Weight[j \in Nat] == IF j = 0 THEN 1 ELSE 256 * Weight[j - 1]

(* Unsigned arithmetic of a word of WordBytes bytes.                       *)
WordSize == Weight[WordBytes]
ones     == (WordSize - 1) \div 255
Minus(a, b) == (a - b) % WordSize

(* Whether byte j of w has its high bit set: what "& highs" keeps.         *)
High(w, j) == (w \div (128 * Weight[j])) % 2 = 1

(* memcpy(&chunk, p + n, sizeof(chunk)): the bytes, and the word they are. *)
Chunk(n) == [j \in 1..WordBytes |-> text[p + n + j]]

Word(bytes) ==
  LET w[j \in 0..WordBytes] == IF j = 0 THEN 0 ELSE w[j - 1] + bytes[j] * Weight[j - 1]
  IN  w[WordBytes]

(* chunk ^ (ones * 0x7f)                                                   *)
Xor7f(bytes) ==
  [j \in 1..WordBytes |-> IF bytes[j] < 128 THEN 127 - bytes[j] ELSE 383 - bytes[j]]

(* (w - k * ones) & ~w & highs: the bytes it marks.                        *)
Below(w, k) == {j \in 0..WordBytes - 1 : High(Minus(w, k * ones), j) /\ ~High(w, j)}

(* Slip: no test for DEL.                                                  *)
SuspectNoDel(n, k) == Below(Word(Chunk(n)), k) # {}

(* low_controls | has_del of the word at p + n.                            *)
Suspect(n, k) == Below(Word(Chunk(n)), k) \cup Below(Word(Xor7f(Chunk(n))), 1) # {}

-----------------------------------------------------------------------------
Max2(a, b) == IF a > b THEN a ELSE b

Load(end) == loaded' = Max2(loaded, end)

Return(a) == stage' = "returned" /\ answer' = <<a>> /\ UNCHANGED <<args, p>>

Goto(s) == stage' = s /\ UNCHANGED <<args, p, answer>>

Advance(n) == p' = p + n /\ UNCHANGED <<args, stage, answer>>

(* The first loop of each function: the SSE4.2 kernel leaves an empty or   *)
(* long needle to the scalar one, and is_token altogether.                 *)
FirstLoop ==
  CASE fn = TARGET -> IF allow_spaces THEN "bytes" ELSE "words"
    [] fn = FIELD  -> "pairs"
    [] fn = FIND   -> IF \/ backend = "scalar"
                         \/ backend = "sse42" /\ Len(delims) \notin 1..SseBlock
                      THEN "bytes" ELSE "blocks"
    [] fn = IS_TOKEN -> IF backend = "avx2" THEN "blocks" ELSE "bytes"
    [] OTHER -> "bytes"

Begin == stage = "called" /\ Goto(FirstLoop) /\ UNCHANGED loaded

(* Slip: two words are loaded where only one may be left.                  *)
PairsFitShort == left >= WordBytes

PairsFit == left >= 4 * WordBytes

(* Two words at a time, while four are left.                               *)
Pairs ==
  /\ stage = "pairs"
  /\ \/ ~PairsFit /\ Goto("words") /\ UNCHANGED loaded
     \/ /\ PairsFit /\ Load(p + 2 * WordBytes)
        /\ IF Suspect(0, 32) \/ Suspect(WordBytes, 32) THEN Goto("words")
           ELSE Advance(2 * WordBytes)

(* Slip: the loop goes round without moving on.                            *)
WordPassedStays == Advance(0)

WordPassed == Advance(WordBytes)

Words ==
  /\ stage = "words"
  /\ \/ left < WordBytes /\ Goto("bytes") /\ UNCHANGED loaded
     \/ /\ left >= WordBytes /\ Load(p + WordBytes)
        /\ IF Suspect(0, IF fn = TARGET THEN 33 ELSE 32) THEN Goto("bytes") ELSE WordPassed

-----------------------------------------------------------------------------
delimiter == {delims[d] : d \in 1..Len(delims)}

(* Where the first byte of the block that ends the scan is, if there is    *)
(* one: _mm_cmpestri, or the inner loop of the AVX2 kernels.               *)
Stops(b) == IF fn = FIND THEN b \in delimiter ELSE b \notin TokenChar

Hits(n) == {j \in 0..n - 1 : Stops(text[p + j + 1]) /\ \A i \in 0..j - 1 : ~Stops(text[p + i + 1])}

block == IF backend = "sse42" THEN SseBlock ELSE AvxBlock

Blocks ==
  /\ stage = "blocks"
  /\ \/ p + block > len /\ Goto("bytes") /\ UNCHANGED loaded
     \/ /\ p + block <= len /\ Load(p + block)
        /\ \/ Hits(block) = {} /\ Advance(block)
           \/ \E j \in Hits(block) : Return(IF fn = FIND THEN p + j ELSE FALSE)

-----------------------------------------------------------------------------
(* The byte loop of each function: what ends it early, and with what.      *)
Rejected(b) ==
  CASE fn = TARGET   -> ~(b = 32 /\ allow_spaces) /\ (b <= 32 \/ b = 127)
    [] fn = FIELD    -> b # 9 /\ (b < 32 \/ b = 127)
    [] fn = SKIP_LWS -> b \notin Lws
    [] OTHER         -> Stops(b)

EarlyAnswer == IF fn \in {FIND, SKIP_LWS} THEN p ELSE FALSE
EndAnswer   == IF fn \in {FIND, SKIP_LWS} THEN len ELSE TRUE

Bytes ==
  /\ stage = "bytes"
  /\ \/ p >= len /\ Return(EndAnswer) /\ UNCHANGED loaded
     \/ /\ p < len /\ Load(p + 1)
        /\ IF Rejected(at) THEN Return(EarlyAnswer) ELSE Advance(1)

-----------------------------------------------------------------------------
Init ==
  /\ fn \in {TARGET, FIELD, FIND, IS_TOKEN, SKIP_LWS}
  /\ text \in Texts(fn)
  /\ allow_spaces \in IF fn = TARGET THEN BOOLEAN ELSE {FALSE}
  /\ delims \in IF fn = FIND THEN Delims ELSE {<<>>}
  /\ backend \in IF fn \in {FIND, IS_TOKEN} THEN Backends ELSE {"scalar"}
  /\ stage = "called" /\ p = 0 /\ answer = <<>> /\ loaded = 0

Next == Begin \/ Pairs \/ Words \/ Blocks \/ Bytes

Spec == Init /\ [][Next]_vars

(* A call runs on: the loops are plain sequential code.                    *)
FairSpec == Spec /\ WF_vars(Next)

-----------------------------------------------------------------------------
Valid(b) ==
  CASE fn = TARGET -> b \in (33..126 \cup 128..255) \cup (IF allow_spaces THEN {32} ELSE {})
    [] fn = FIELD  -> b \in {9} \cup 32..126 \cup 128..255
    [] fn = IS_TOKEN -> b \in TokenChar

FirstAt(S) == IF \E i \in 1..len : text[i] \in S
              THEN (CHOOSE i \in 1..len : text[i] \in S /\ \A j \in 1..i - 1 : text[j] \notin S) - 1
              ELSE len

(* A validator answers what looking at every byte by itself answers, and   *)
(* a search finds the first delimiter, whatever the backend: no byte hides *)
(* behind its neighbours in a word (a borrow, a high bit), in the half of  *)
(* a pair, or at the seam of two loops (src/ihtp_parser.c:235-343 and the  *)
(* kernels; ihtp_scanner.h: "Pointer to first delimiter found, or buf+len  *)
(* if none found").                                                        *)
VerdictExact ==
  stage = "returned" =>
    answer = CASE fn = FIND     -> <<FirstAt(delimiter)>>
               [] fn = SKIP_LWS -> <<FirstAt(Byte \ Lws)>>
               [] OTHER         -> <<\A i \in 1..len : Valid(text[i])>>

(* No loop loads a byte past the end of the text, however little of it a   *)
(* wider loop has left (the memcpy and loadu calls).                       *)
LoadsInside == p <= len /\ loaded <= len

(* Every call returns: each loop moves on or hands over to the next.       *)
ScanReturns == <>(stage = "returned")
=============================================================================
