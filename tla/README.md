# A TLA+ model of iohttpparser

iohttpparser is a C23 library that reads HTTP/1.1 messages off a byte stream. It owns no
memory, no socket and no thread: a caller hands it buffers and gets back spans, decisions
and counts. What makes it hard is that every entry point may be called with *part* of a
message, cut anywhere, and must go on from there in the next call; that the body decoder
rewrites the buffer it is reading; that structs and decoders are reused from one message to
the next; and that the one piece of process-wide state, the scanner's dispatch table, is
initialised on first use by whichever thread comes first.

This directory holds TLA+ modules for those parts, TLC configurations that check them on
small instances, and TLAPS proofs for every value of the constants. `PROJECT.json` lists
components, runs, hazards and theorems, and maps each definition to the lines it models.
Paths below are relative to the repository root; `src/` is the library's own `src/`.

## 1. Inventory

| Component | State it keeps | Operations | Module |
|---|---|---|---|
| Chunked body decoder, `src/ihtp_body_decoder.c:15-223` | `state`, `hex_count`, `bytes_left_in_chunk`, `total_decoded`, `consume_trailer` | `ihtp_decode_chunked` | `ChunkedDecoder` |
| Fixed-length body decoder, `src/ihtp_body_decoder.c:225-252` | `remaining`, `total_decoded` | `ihtp_fixed_decoder_init`, `ihtp_decode_fixed` | `FixedBody` |
| Content-Length conversion, `src/ihtp_semantics.c:66-87` | none between calls | `parse_content_length` | `FixedBody` |
| Message parser, `src/ihtp_parser.c` | `mode`, `phase`, `cursor`; outputs: start line, headers, `num_headers` | `ihtp_parser_state_init`/`_reset`, three `_stateful` entry points, three stateless wrappers | `MessageParser` |
| Semantics layer, `src/ihtp_semantics.c` | the decision fields of the message struct | `ihtp_request_apply_semantics`, `ihtp_response_apply_semantics` | `Semantics` |
| Scanner dispatch, `src/ihtp_scanner_scalar.c:56-137` | `scanner_vtable`, `scanner_initialized` (process-wide) | `ihtp_scanner_get`, `_init`, `_select_vtable` | `ScannerDispatch` |
| Policies and limits, `include/iohttpparser/ihtp_types.h` | none | constants and `ihtp_policy_t` presets | parameters of the above |
| Scanner kernels and SWAR validators, `src/ihtp_parser.c:235-343`, `src/ihtp_scanner_*.c` | none between calls | `request_target_is_valid`, `field_text_is_valid`, `find_char`, `is_token`, `skip_lws` | `TextScan` |
| Consumer integration, `bench/bench_extended_contract.c`, `examples/` | bytes read and not used, the decoder in use, the message structs | parse, apply semantics, decode, go on with the next message, hand over, close | `Connection` |
| Method table, `src/ihtp_parser.c:43-114` | none | `ihtp_method_from_str` | `Connection` (the names only) |
| Performance counters, version header | none | look-ups | not modelled |
| Benchmark harness, fuzzers | - | - | not modelled |

How they interact. The caller accumulates bytes and calls the parser until it returns
`IHTP_OK`; it hands the struct the parser filled to the semantics layer, which writes the
body mode, the content length and the connection decision into the same struct; it then
drives the decoder of that body mode over the bytes after `bytes_consumed`, and begins the
next message where the decoder stopped. The parser and the semantics layer reach the token
check through the scanner's table. There are no callbacks, timers or messages; the only
concurrency is several threads using the library at once, and the only state they share is
the scanner's table.

Behaviours that are hard to test: input cut at any byte, with a partial result carried over
to the next call; in-place decoding; one counter used for two purposes (`hex_count`);
unsigned counters at the ends of their range; a verdict that depends on several header lines
together, in any order; state left by an earlier message; words of eight bytes tested at
once; bytes passed from one component to the next; a connection that breaks between any two
steps; unsynchronised first use. The
`hazards` of `PROJECT.json` list them line by line.

What makes each component correct:

* chunked decoder: it never overwrites bytes it has still to read; it takes exactly the
  bytes each size line declares; what it delivers, and where the body ends, do not depend on
  the slicing; bytes of the next message come back intact; each call returns.
* fixed body: the converted number is exact, and the body ends after exactly that many bytes.
* parser: a call resumes where the last one stopped, inside the buffer; the spans are in
  order and in the message; the verdict does not depend on how the bytes arrived; errors and
  completion latch; each call returns.
* semantics: a message is accepted exactly when its header lines together are well formed;
  framing and persistence are those of RFC 9112; nothing leaks from an earlier message.
* dispatch: every call goes to a kernel that exists and that the machine can execute.
* scanning: a verdict on a word or a block is the verdict on each of its bytes, for every
  backend, and no load leaves the text.
* consumer: the application gets the heads and bodies the peer sent, whole and in order; each
  byte is used by exactly one component; the connection never waits for what will not come.

## 2. Modules

```
ChunkedDecoder ── ChunkedReference ──┐
      │  └─────── ChunkedRefinement ─┴ MCChunked         (TLC)
      │                │  └ ChunkedBody (what it implements)
      └────────── ChunkedDecoderProofs                   (TLAPS; with ChunkedRefinement)
                       └ ChunkedSliceProofs              (TLAPS; with ChunkedReference)
FixedBody ─────── FixedBodyProofs                        (TLAPS; TLC runs FixedBody itself)
MessageParser ─── ParserReference ─── MCParser           (TLC)
      └────────── MessageParserProofs                    (TLAPS; with ParserReference)
Semantics ─────── SemanticsReference ─ MCSemantics       (TLC)
                       └ SemanticsProofs                 (TLAPS)
TextScan ──────── MCTextScan                             (TLC)
      └────────── TextScanProofs                         (TLAPS)
ScannerDispatch ─ ScannerDispatchProofs                  (TLAPS; TLC runs ScannerDispatch itself)
Connection ────── MCConnection                           (TLC)
   │  └────────── ConnectionProofs                       (TLAPS)
   └ instances of MessageParser, Semantics, ChunkedDecoder, FixedBody
```

A `*Reference` module says what the result should be without any incremental state, and the
properties compare the two. Operators named after a definition with a suffix and commented
as a slip (`NextChunkKeepsCount`, `HeadersPartialAssigns`, ...) are deliberately wrong
variants; each property is confirmed to fail when the definition is replaced by one of them.

**ChunkedDecoder.** The decoder struct and the locals `src`, `dst`, `avail` of a call are
variables. `Call` begins `ihtp_decode_chunked` on a slice, each iteration of its loop is one
action named for the `case` it executes, and `Complete`, `Reject` and `NeedMore` are its
returns. The buffer is rewritten by `memmove` as in the code, and `input` remembers what it
was. A byte is a hex digit, `;`, CR, LF or any other. The 64-bit accumulator is modulo
`Pow16[MaxHexDigits]`, the cast of the trailing count to `ihtp_status_t` is modulo the range
of an `int`. `RetryAfterError` is a caller that goes on after `IHTP_ERROR`, which the decoder
does not latch. `total_decoded` is not reduced modulo 2^64.

**ChunkedBody, ChunkedRefinement.** `ChunkedBody` is the promise of
`include/iohttpparser/ihtp_body.h`: the chunked coding as one stream of bytes, with no calls,
slices, buffer or word size, a number for the size and a name for each state. Data may be taken
one byte or many at a time. `ChunkedRefinement` maps the decoder to it: what is read is what
earlier calls consumed and this one has passed; the payload is what was returned and what this
call has moved to the front of the buffer; `hex_count` is a digit count in one state and the
trailer's sub-state in another. `ImplementsStream` is `ChunkedBody`'s specification under that
mapping. A byte that may not be there ends the stream, and the payload decoded by the call that
met it is not reported, as in the code.

**ChunkedReference.** The chunked coding as a grammar, decoded in one piece: `RefDecode` is a
recursive function of all the bytes, which reads a size line, takes the data and its CRLF, and
goes on with the rest; `Trailer` reads lines up to an empty one. It has no state to carry over
and nothing to resume, so it cannot share a mistake of the decoder's.

**FixedBody.** `parse_content_length` digit by digit, then `ihtp_fixed_decoder_init` with its
result, then `ihtp_decode_fixed` on pieces of any length, then the next message on the same
decoder. All words wrap at `UINT64_MAX`.

**MessageParser.** `ihtp_parser_state_t`, the outputs, and a buffer that grows between calls.
`ParseStateful(m)` is the entry point for mode `m`, called in the wrong mode too;
`StartLine`/`StartLinePartial` are its first phase and each iteration of `parse_header_block`
is one step (`HeadersPartial`, `LineRefused`, `HeaderLine`). `ParseStateless` is a wrapper:
it clears the outputs and initialises a fresh state in every call. Bytes are classes
(token character, SP, HT, colon, CR, LF, other control) and three literals stand for the two
version texts and a valid status code; `Words` are more tokens, for the layers above. Lengths
are counted in symbols. After a refused start line the outputs are `Torn`: what was written
before the refusal is not tracked. The caller of `Reset` also clears its outputs and drops the
bytes of a finished message, as `include/iohttpparser/ihtp_parser.h` leaves to it. A stateless
caller in headers mode may pass its capacity again before it retries, or leave in
`*num_headers` what the last call wrote there (`Places`).

**Semantics.** Each iteration of the loop over the headers is one action named for the field,
`Conclude` is what follows the loop, with the writes to the struct in the order of the code
(`Framed` is what a message refused for its Trailer leaves behind). A value is the sequence
of its comma-separated parts; case folding and blank trimming are not modelled. `Reuse` is
the caller going on to the next message with the same struct, cleared or not.
`SemanticsReference` says of all the lines of a field together (`Lines`, `Lists`, `IsLast`) what
the code works out line by line.

**ScannerDispatch.** Each load and each store of the flag and of the two slots by each thread
is a step; `stores[t]` are the positions in the program of `ihtp_scanner_init` whose stores are not
visible yet. `reorders` chooses between stores in program order and plain stores an optimising
compiler may reorder and merge (the code has a data race, so both are outcomes of a build).

**TextScan.** A call of one of the five functions on a text of byte values; each iteration of
each loop is one action. The word tests are the code's arithmetic on an unsigned word:
`Below(w, k)` is `(w - k * ones) & ~w & highs` as the set of bytes it marks, and `Weight[j]` is
256^j. The wider loops
hand over to the narrower ones as in the code: a suspect word ends the word loop for good. For
the SSE4.2 kernel the instruction `_mm_cmpestri` is taken by its definition. `loaded` remembers
the furthest byte loaded.

**Connection.** The consumer of `bench_extended_contract.c` and the examples: one scenario of
the benchmark shows one path (reuse, chunked, pipelined, trailers, upgrade, CONNECT, fixed,
refusal), and the module is all of them on one connection. The four components are instances
of their modules with their variables renamed, so `ParseStep`, `SemanticsStep`, `ChunkedStep`
and `DecodeFixed` are the components' own actions; the module adds what passes between them:
`Parsed` (the parser's spans read as the header lines the semantics layer sees), `AfterHead`,
`BeginBody`, `Trailing`, `Finish`. The environment is marked external: the consumer reads only
when it is `Starved`, in pieces; it may move its buffer once per head (`MoveBuffer`; it then
resets the parser, because spans into the old buffer are gone, see
`docs/en/06-parser-state.md:33` and `include/iohttpparser/ihtp_parser.h:62`); the peer closes
after its last byte; the connection may be lost at any wait. A span into a buffer that was
freed reads as `"freed"`. Field values on the wires are single words: lists are `Semantics`'
own subject. The scenarios' fixed buffers (`tail[256]`) and the reply to `Expect` are left out.

Early returns for null arguments are not modelled: they write nothing.

## 3. Runs

| Run | What it shows | Bounds |
|---|---|---|
| `chunked_short` | accounting, trailer sub-state, trailing bytes, counters, slice independence, finality, and that each call returns | every string of up to 7 bytes over {0, 1, `;`, CR, LF, x} in slices of 0 to 2 |
| `chunked_long` | in-place copy, trailing bytes, payload count, slice independence and the refinement of `ChunkedBody` over whole chunks, extensions, trailers and pipelined bytes | up to 24 bytes from 12 fragments |
| `fixed_body` | number and count exact on a reused decoder | word of 0..31, 3 digits, pieces 0, 1, 2, 7, 30, 31 |
| `parser` | types, buffer bounds, spans, start line, consumption, split independence, progress, calls return; all modes, stateful and stateless, with resets and shrunken capacities | every header block of up to 6 symbols over {t, `:`, SP, CR, LF} cut into ones and twos; requests of up to 12, responses of up to 10 symbols from fragments; three policies; 2 headers (1 in headers mode), lines of 6 and 5 |
| `semantics` | verdict, framing, persistence, signals | up to 2 lines of 27, up to 3 of the 13 framing or the 14 connection lines, each also behind a Host, both kinds, every status class, both values of `reject_te_cl`; on a request struct that is never cleared, up to 2 lines and Host per message, any number of messages, refused ones between |
| `text_scan` | verdicts byte-wise exact, loads inside, loops end | words of 2 bytes, blocks of 3 and 4; every byte value beside the 9 values at a limit, and texts of up to 11 bytes of which two are anything else than a letter |
| `connection` | heads and bodies as sent, place in the stream, bytes conserved, every message arrives | one or two messages: 12 requests, 6 responses; wires of up to 127 symbols; reads of 1, 3 or all; one move of the buffer per head; one loss |
| `dispatch` | kernels called exist and can run; the table settles | 3 threads, 4 SIMD levels, both orders of stores |
| `chunked_nosize` (violated) | a `;` before any digit is taken as size 0 | see section 6 |
| `parser_toolong` (violated) | a line within the limit is refused when cut between CR and LF | |
| `semantics_eof` (violated) | keep-alive is reported for a body that ends with the connection | |
| `dispatch_first` (violated) | with stores reordered, a thread calls through a null slot | |

Why the bounds are enough. The decoder's `switch` looks at one byte and bounded counters: a
chunk with the first byte of the next, a last chunk with a trailer line, and a size of one
digit more than the (scaled) limit of four fit the short run; what takes longer (several
chunks, chunks of three bytes, trailers behind data) is in the fragments. The parser's header blocks reach a field, a fold, the empty line, and a second
header beyond the limit of 1; its messages add start lines, lines beyond their limits, control
bytes and the bytes of a next message. A semantic
verdict depends on at most three lines of the same field (two conflicting lines with one
between them), and each order of them is enumerated. Words of two bytes are enough for the
validators: a borrow can only come out of a byte that is below the limit and hence marked
itself, so whether a word is suspect is decided by single bytes and by one neighbour; the pair
loop is entered at 8 bytes and repeated at 10. On a connection what one message can do to
another it does to the next one, so two are enough; their bodies are made of line ends, method
and version words, so that a byte taken for framing shows.

Deadlock checking is off in the chunked, parser, scanning and connection runs: callers stop at
the bound on the bytes they hand over or after an error, a scan ends when it has returned, and
a connection ends.

Fairness. `FairSpec` adds weak fairness of `Step`, the disjunction of the actions inside a
call: a call that has begun is plain sequential code without waiting, so some iteration of
its loop follows until it returns. Nothing is assumed of the caller. `CallReturns` then says
that no iteration leaves everything as it was. `TextScan` has the same for its loops
(`ScanReturns`). In `Connection` the fairness is of `GoOn`: the consumer is one sequential
loop, and the bytes a peer has sent arrive unless the connection is lost; moving the buffer and
losing the connection are never forced. `EveryMessageArrives` is about the waits: it fails for
a consumer that waits for bytes before it reports a body of length zero.

## 4. Proofs

`ChunkedDecoderProofs` proves, for every alphabet, every set of slices, every width of at
least four hex digits and every bound on the input:
`TypeCorrect`, `InPlaceSafe`, `AccountingExact`, `TrailerSubStateAlways`,
`TrailingBytesKept`, `DoneStays` and, for a caller that stops at an error, `TotalExact`.
The invariant is

    IInv == TypeOK /\ InPlace /\ ChunkAccounting /\ SizeBound /\ TrailerSubState

`InPlace` (the write position never passes the read position) is what makes the unread bytes
the caller's own. `ChunkAccounting` alone is not inductive: that the accumulator does not
wrap on the next digit needs `SizeBound`, the number spelled by `hex_count` digits is below
16^`hex_count`, and the test of `hex_count` before the digit is used. `TrailerSubState` needs
the reset of `hex_count` at the end of the last size line. `TrailingBytesKept` and
`TotalExact` strengthen `IInv` by themselves. All but `TotalExact` hold whether or not the
caller goes on after an error.

The second part of `ChunkedDecoderProofs` proves `Refinement`, that the decoder implements `ChunkedBody`: initial
states map to initial states, and each case of the `switch`, each return and each new call to a
step of the stream or to a stutter. It needs `IInv` above, that the caller stops at an error
(`RetryAfterError = FALSE`: the decoder does not latch one, and the stream has ended) and that an
`int` can count the slices (`IntSlices`: otherwise the cast of the trailing count makes a status
that reads as an error). `RInv` adds `Healthy`, a caller that has not met an error yet. What
is read is a prefix of a concatenation, so most of this part is the lemmas on prefixes.

`ChunkedSliceProofs` proves `SlicesDoNotMatter` (`SliceIndependent`): for bodies and slices of any
length, the calls together report what `RefDecode` makes of all the bytes at once. The hypotheses
are those of `Refinement`. That the bytes so far decode alike is not inductive: a body cut inside a
size line and one cut behind it both decode to "more". The invariant `SInv == RInv /\ ReadSoFar`
speaks of the bytes to come instead (`Reads`, `Continues`): for *every* continuation z,

    RefDecode[read \o z] = Prepend(payload, Resume(phase, ..., z))

where `Resume` is what the grammar makes of z when it begins in the middle of a size line, an
extension, data, a trailer line and so on. In the middle of a size some digits have been read that
spell the number in `bytes_left_in_chunk` (`Spells`); a size line is looked at as a whole by the
grammar and digit by digit by the decoder (`SizeSplit`, `SizeEnds`, `SizeBad`). Each byte of framing
and each run of data takes one `Resume` to the next (`ExtensionStep` to `DataMore`), so each step of
the stream keeps `ReadSoFar`, and by `StepRefines` each step of the decoder does. With z empty it is
`SliceIndependent`. Before that, the module shows that `Number`, `Trailer` and `RefDecode` are the
functions their equations say (`Recursion`: a step that looks only at values on shorter
sequences has a function that satisfies it).

`FixedBodyProofs` proves `LengthNeverWraps`, `RefusalExact`, `FixedExact` and
`FixedComplete` for every `UINT64_MAX` of at least 9 and all pieces, from
`IInv == TypeOK /\ LengthExact /\ FixedAccounting /\ OkMeansWhole`. The crux is
`OverflowTestExact`: `result > (UINT64_MAX - digit) / 10` holds exactly when
`result * 10 + digit` leaves the word. The count of the body cannot wrap because both
counters sum to a number that fits.

`MessageParserProofs` proves, for every buffer, every cut of it into slices, every policy, every
limit and both kinds of caller, `TypeCorrect`, `ParsesInsideBuffer`, `HeaderSpansOrdered`,
`StartLineReported`, `ConsumedWhenDone` and the action property `ProgressKept`. The invariant is

    IInv == TypeOK /\ CallerKept /\ InsideBuffer /\ SpansOrdered /\ ValuesEndBefore
              /\ StartLineKept /\ ConsumedOnlyWhenDone

`SpansOrdered` alone is not inductive: a folded line stretches the value before it, so each value
must be known to end before the line that comes next (`ValuesEndBefore`; at least an LF lies in
between). `CallerKept` ties the start-line phase of a call to position 0 and no headers.

The second part of `MessageParserProofs` proves `VerdictOfWhole` (`SplitIndependent`): the parser's phase, cursor,
start line and headers are those `ParserReference` reads off the buffer at once. There the lines
are the offsets behind an LF (`Begins`), the fields those that are not folded (`FieldsBefore`), and
`Reached(b)` says that every line before b is complete, not empty and not malformed. The invariant

    SInv == IInv /\ Capacity /\ InCall /\ SplitIndependent

adds that inside a call the line the loop is at is reached and the headers so far are the fields
before it (`InCall`), and that a stateful caller gives the same places each time (`Capacity`;
otherwise a line taken by one call would be malformed for the next). Three kinds of lemma carry it:
what a line is depends only on the symbols up to its end, so more bytes or another call change
nothing behind the cursor (`SamePrefix`, `SameLine` to `SameAgree`); the line to the next LF is the
only one between, so the fields and the folded lines grow by it (`NextFields`, `NextFolds`,
`ListsField`, `ListsFold`); and the guards of each branch of the loop are the conditions of
`BadLine` (`BadHeaderLine`, `ValueText`: trimming drops white space only, `OneColon`).

`SemanticsProofs` proves `AcceptsWellFormed`, `FramesAsRFC`, `SignalsOfMessage` and
`PersistsAsRFC` for any sequence of header lines, where the run has up to four. The invariant says
what the flags know of the lines the loop has passed (`Knows`, a part for each field), such as:
`chunked` is in the flags exactly when the last Transfer-Encoding line passed ends in it, and
`chunked_count <= 1` exactly when two passed places that say chunked are one. Behind the loop the
lines passed are all lines (`AllPassed`), so the flags decide what the reference says
(`FlagsDecide`, `ModeDecides`), and the checks that are left refuse exactly the messages that are
left to refuse (`RefusedIffIllFormed`). `PersistsAsRFC` assumes `FreshResponses`, that responses
are parsed into cleared structs: without it the property is false, see section 6. The run has the
same callers.

`ScannerDispatchProofs` proves `RunnableKernels` and `Settles` for any number of threads, every
SIMD level and both orders of stores. The invariant `IInv == TypeOK /\ LastIsPending /\ Settling
/\ InOrder` says that a thread which still has a store to a slot to make has the last one to
make (`LastIsPending`), that from the first initialisation on a slot holds the reported backend or
some thread is still to store it there (`Settling`), and, for stores in program order, that
whoever sees the flag finds both slots filled (`InOrder`).

`TextScanProofs` proves `Exact` and `Inside` for every text, every needle and every size of word
and block; the run has words of two bytes, the code has words of eight. Its first part is
arithmetic: `Low`, the number spelled by the lower bytes, decides whether a borrow reaches a byte
(`NoBorrow`, `Above`, `HighByte`), the lowest byte below the limit is marked whatever the bytes
above it are (`ByteMarked`), and so a word without a mark has no byte below the limit
(`NoneBelow`). A mark above that one may be false, which costs the code only the fast path: the
word is then looked at byte by byte. The invariant `IInv == TypeOK /\ LoopOf /\ LoadsInside /\ Passed /\ VerdictExact` says which
loop a call may be in, and that each loop passes only bytes the byte loop would have passed.

`ConnectionProofs` proves `NoByteLost` (`BytesConserved`) for the four components at work together:
for every stream of bytes, well formed or not, every read size, alphabet, numeral and header limit,
every move of the buffer and every loss. The bytes of a connection are at any time those the
components have `Used` of the message at hand, those the consumer has `Held` but not given to one,
and those `unread` on the network. A step moves the two borders and leaves the concatenation alone,
or it delivers the message and drops exactly what was used for it. The proof asks of each component
only what a hand-over rests on (`HandOversSound`):

    CInv == unread \in Seq(Byte) /\ HeadOK /\ SemanticsOK /\ IdleOK /\ ChunkedOK /\ RestOK

* `HeadOK`: `bytes_consumed` of a finished parser lies in the buffer, so the bytes behind the head
  are the rest of it;
* `SemanticsOK`: a length that is announced is a number, followed from the header line through the
  locals of the loop into the message struct; the fixed decoder then counts down a natural number,
  and does not take bytes of the next message;
* `IdleOK`: between two messages the chunked decoder is a new one and the consumer holds nothing else;
* `ChunkedOK`: inside a call the unread part of the slice is still what was read from the network
  although the payload is written over it, `dst <= src <= avail`, so at the end of the body the move
  of the trailing bytes and the status that counts them give `Trailing` its exact bytes;
* `RestOK`: what is held for trailers, a fixed body or another protocol are bytes of the stream.

`WireAssumption` is all it rests on: what peers send are bytes the parser tells apart, and no stream
is longer than an `int` can count (`MaxWire`; see the cast in section 6). It says nothing of what a
well-formed message means: that is for the properties below.

Induction over the bytes of a word, over the digits of a number and over the length of a body is
done with *sets* (`Induction`: a set of naturals that holds 0 and every successor holds them all,
from the library's well-foundedness theorem; `Recursion`: a function given by a first value and a
step exists). The library's own induction theorems have an operator parameter, which the provers do
not instantiate.

Assumptions are named in the modules: `DigitAssumption`, `WidthAssumption`, `CallerAssumption`,
`WordAssumption`, `ParserAssumption`, `SemanticsAssumption`, `DispatchAssumption`,
`ScanAssumption`, `WireAssumption`. TLC evaluates them in every run of
their modules.

Only model-checked:

* the liveness properties (`CallReturns`, `ScanReturns`, `EveryMessageArrives`): fairness and
  ENABLED are out of the prover's reach;
* `HeadsAsSent`, `BodiesAsSent` and `PlaceInStream` of `Connection`: they compare what arrives with
  the messages a well-formed wire was built from. A proof needs, besides `BytesConserved`, that
  parser, semantics layer and decoders together invert the wire's encoding, a flattening of sequences
  of sequences chosen message by message, and so an induction over that data.

## 5. Not modelled

`ihtp_method_to_str` (a table of names for printing); the benchmark's performance counters, its
clock and its tables; fuzzer entry points; the version header; case folding and the splitting of
values at commas; null arguments; the sizes of the consumers' own buffers. A consumer of trailer
sections of its own (`consume_trailer` off) is modelled on bodies that have trailer fields, the
only ones on which the scenario's search for CR LF CR LF finds the end of the trailer section
and not of the next head.

## 6. Where code and documentation part

Shown by a violated run:

* `chunked_nosize`: a size line `;ext` is read as size 0 and ends the body, where RFC 9112
  asks for at least one digit.
* `parser_toolong`: without its LF a line is measured with its CR, so a line of exactly the
  limit is refused if the buffer ends between CR and LF, and accepted otherwise. (This is
  the one place where the verdict depends on how the bytes arrive; `SplitIndependent` takes
  the number of bytes the parser has looked at as given.)
* `semantics_eof`: `Connection: keep-alive` on a response of unknown length gives
  `keep_alive` together with `IHTP_BODY_EOF`.
* `dispatch_first`: the flag and the table are plain variables, and a thread that sees the
  flag early calls a null pointer.

Further observations made while modelling, which no run checks:

* `ihtp_decode_chunked` leaves `*bufsz` at the input length on an error, although a prefix of
  the buffer may hold payload already; `ihtp_body.h:45` says it is the decoded length.
* A call with no bytes on a finished chunked decoder returns `IHTP_INCOMPLETE`.
* The count of trailing bytes is cast from `size_t` to an `int`-sized enum; beyond `INT_MAX`
  it is negative. `TrailingBytes` is stated for slices an `int` can count.
* `ihtp_types.h:33` counts the CRLF in the request-line limit; the code does not.
* A response struct that is not cleared keeps `keep_alive` of the response before it when the
  new one is HTTP/1.0 without a Connection decision, or has an EOF body (the request
  function writes it always).
* With `reject_te_cl` off, a response whose Transfer-Encoding does not end in chunked is
  framed by its Content-Length. `LenientBoth` excepts it from `FramingFollowsRFC`.
* An Upgrade value must be one token: lists and `name/version` are refused.
* `ihtp_parse_headers` retried without setting `*num_headers` again has as many places as the
  last call found headers, and refuses a block that would have fitted; it stays in bounds.
* A fixed decoder of length 0 reports completion only when it is called with no bytes.
* The search for CR LF CR LF in `bench_extended_contract.c:243` needs a trailer field.
* A response to HEAD is framed by its fields; the semantics layer is not told the method.

## 7. Status

Done: the chunked decoder with its proofs, `ChunkedBody` which it implements and the proof that it
does, and the proof that it agrees with the grammar however the bytes are cut; the fixed body, the
parser, the semantics layer, the dispatch table and the scanning loops with their proofs; the
connection that composes the components, with the proof that no byte is lost between them.

Left: a proof of the three properties of `Connection` named in section 4, from the agreement of each
component with its reference and an argument that each reference inverts the wire's encoding.
