-------------------------- MODULE ParserReference --------------------------
(***************************************************************************)
(* What a message head is, said of a whole buffer at once: a line begins   *)
(* behind every LF, the fields are the lines that are not continuations,   *)
(* and the head ends at the first empty line or at the first line that is  *)
(* malformed.  There is no cursor, phase or partial result.                *)
(***************************************************************************)
EXTENDS MessageParser, FiniteSets

(* Where the lines begin, the unfinished one after the last LF included.   *)
Begins == {b \in 0..len : b = 0 \/ buf[b] = LF}

IsStartLine(b) == b = 0 /\ mode # HEADERS

(* The line from b to the LF at lf.                                        *)
Folded(b)    == buf[b + 1] \in Lws
Blank(b, lf) == ~IsStartLine(b) /\ line_end(b, lf) = b

(* The lines before b that begin a field.                                  *)
FieldsBefore(b) == {f \in Begins : f < b /\ ~IsStartLine(f) /\ ~Folded(f)}

BareLF(b, lf) == ~IsCRLF(b, lf) /\ policy.reject_bare_lf

StartOf(q) == IF mode = REQUEST THEN RequestLine(0, q) ELSE StatusLine(0, q)

BadStartLine(q) == (mode = REQUEST /\ q > MaxRequestLine) \/ StartOf(q) = {}

(* Folding is refused, there is no field to go on with, or the text is     *)
(* not a field's.                                                          *)
BadFold(b, q) ==
  policy.reject_obs_fold \/ FieldsBefore(b) = {} \/ ~field_text_is_valid(b, q)

BadField(b, q) ==
  \/ Cardinality(FieldsBefore(b)) >= max_headers
  \/ \A c \in NameColon(b, q) : \E x \in c + 2..q : buf[x] \in {CR, "CTL"}

BadLine(b, lf) ==
  LET q == line_end(b, lf) IN
  \/ BareLF(b, lf)
  \/ IsStartLine(b) /\ BadStartLine(q)
  \/ /\ ~IsStartLine(b) /\ q # b
     /\ \/ q - b > MaxHeaderLine
        \/ Folded(b) /\ BadFold(b, q)
        \/ ~Folded(b) /\ BadField(b, q)

(* The unfinished line from b to the end of the first n symbols.           *)
BadRest(b, n) ==
  IF IsStartLine(b) THEN mode = REQUEST /\ n > MaxRequestLine
  ELSE n - b > MaxHeaderLine \/ (n > b /\ Folded(b) /\ policy.reject_obs_fold)

(* The head goes on behind the line that begins at b.                      *)
Plain(b) == \E lf \in FirstLF(b) : ~Blank(b, lf) /\ ~BadLine(b, lf)

Reached(b) == b \in Begins /\ \A c \in Begins : c < b => Plain(c)

(* The lines before b that are folded into the field that begins at f.     *)
Folds(f, b) ==
  {g \in Begins : f < g /\ g < b /\ \A x \in Begins : f < x /\ x <= g => Folded(x)}

(* The field that begins at f, with the lines before b that are folded     *)
(* into it, as a header.                                                   *)
FieldAt(f, b) ==
  {h \in Header :
     \E lf \in FirstLF(f) : \E c \in NameColon(f, line_end(f, lf)) :
       \E v \in Trimmed(c + 1, line_end(f, lf)) :
         /\ h.name = span(f, c) /\ h.value.at = v.at
         /\ Folds(f, b) = {} => h.value = v
         /\ \A g \in Folds(f, b) :
              (\A x \in Folds(f, b) : x <= g) => \E e \in FirstLF(g) : End(h.value) = line_end(g, e)}

(* The first num headers of hs are the fields before b, in order.          *)
Lists(hs, b, num) ==
  /\ num = Cardinality(FieldsBefore(b))
  /\ {hs[k].name.at : k \in 1..num} = FieldsBefore(b)
  /\ \A j, k \in 1..num : j < k => hs[j].name.at < hs[k].name.at
  /\ \A k \in 1..num : \E f \in FieldsBefore(b) : hs[k] \in FieldAt(f, b)

(* The outputs are the start line and the num fields of the lines before b. *)
Agree(b, num) ==
  /\ mode # HEADERS /\ b # 0 => \E lf \in FirstLF(0) : start \in StartOf(line_end(0, lf))
  /\ Lists(headers, b, num)

(* A look at the first n symbols that comes to the line at b ends in phase *)
(* ph, with the offset end behind what it has taken.                       *)
Stops(b, ph, end, n) ==
  LET lfs == {lf \in FirstLF(b) : lf < n} IN
  \/ ph = DONE /\ \E lf \in lfs : Blank(b, lf) /\ ~BadLine(b, lf) /\ end = lf + 1
  \/ ph = ERROR /\ \E lf \in lfs : BadLine(b, lf)
  \/ ph = ERROR /\ lfs = {} /\ BadRest(b, n)
  \/ ph \notin {DONE, ERROR} /\ lfs = {} /\ ~BadRest(b, n) /\ end = b

(* However the bytes of a message arrive and however many calls look at    *)
(* them, the parser is where one look at the whole buffer puts it: same    *)
(* verdict, same end, same start line, and the same headers, folded lines  *)
(* included.                                                               *)
SplitIndependent ==
  pc = "ready" =>
    \E b \in Begins : /\ Reached(b) /\ b <= seen
                      /\ Stops(b, phase, cursor, seen)
                      /\ phase # ERROR => Agree(b, num_headers)

(* ihtp_types.h:54: "Request-line or header exceeds size limit": the line  *)
(* without its CR is longer than the limit.                                *)
TooLongExceedsLimit ==
  pc = "ready" /\ phase = ERROR /\ status = IHTP_ERROR_TOO_LONG =>
    \E b \in {0} \cup {i + 1 : i \in {i \in 0..len - 1 : buf[i + 1] = LF}} :
      \E e \in b..len :
        /\ \A i \in b + 1..e : buf[i] # LF /\ (buf[i] = CR => i < e)
        /\ e - b > IF mode = REQUEST /\ b = 0 THEN MaxRequestLine ELSE MaxHeaderLine
=============================================================================
