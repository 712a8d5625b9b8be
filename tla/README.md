# silentjson in TLA+

Specifications of [silentjson](../src/README.md), a Go library that decodes JSON
arrays of records, serially, in parallel and from streams. The modules model the
code under `src/`; TLC checks them on small instances and the TLA+ proof system
proves the properties that matter most for every value of the constants.

Check a model with `tlc -config stream_chunks.cfg MCStreamDecoder.tla` (every
`.cfg` names its run; the run's module is given below), and a proof with
`tlapm StreamDecoder_proofs.tla`.

## The system

| component | source | state it keeps | operations | interacts with |
|---|---|---|---|---|
| Stream decoder | `stream.go` 16-350, 556-721 | sliding buffer (`buf`, `head`, `tail`, its capacity), `isEOF`, `hasStarted`, `hasEnded`, `deliveredFirst`, `afterComma`, `tailTruncated`, the mode | `fill`, `nextChunk`, `Decode`, `Next`, `NextRaw`, `NextRawBlock`, `Tolerant` | calls the reader, the splitter, the value grammar, the object parser; reports to the problem sink |
| NextChan | `stream.go` 360-397 | a ring of objects, a channel, the count of records | one goroutine; the caller receives | calls `nextChunk`; shares the ring with the caller through pointers |
| NextChanParallel | `stream.go` 399-555 | ring, two queues, a done channel per batch, the caller's channel | producer, workers, submitter; the caller receives | calls `NextRawBlock`; workers re-split and parse |
| Parallel array decoder | `parallel.go` 341-587 | destination slice, task and error channels, wait group, scan position | splitter loop, workers, cleanup; a single-core loop | splitter, object parser, pool of chunk buffers |
| Serial array decoders | `parallel.go` 11-339, `tolerant.go` | scan window, records written, problems | `UnmarshalSlice`, `UnmarshalSliceTolerant` | splitter, gap and tail checks, object parser |
| Splitters | `scalar.go`, `find_quote_amd64.s` | bracket depth, string and escape state | array elements, object boundaries | called by all array decoders |
| Object parser and value grammar | `parser.go` 223-1227 | position, the target being filled, which is reused | `ParseObject`, typed slices, `skipValueStrict` | registry, number and string primitives |
| Registry | `registry.go` | the cache of built registries, a lock, the map of those being built, a key hash table, a pool of chunk buffers | `BuildRegistry`, lookup | shared by all decoders |
| Primitives | `primitives.go` | none | integers, floats, escapes | object parser |
| Marshaler | `parser.go` 154-221, `registry.go` 510-732 | none | `MarshalObject`, `MarshalSlice`, a function per kind of field | what it writes the object parser reads |
| Raw field access, dispatch, samples | `raw.go`, `dispatch_amd64.go`, `samples/` | none | pure functions and I/O | |

What is hard here: resuming a grammar at any byte after any sequence of short,
empty or failing reads, or at the edge of a window; several methods sharing one
decoder's flags; sticky end states; objects reused in rings, slices and slots while
a caller still holds pointers into them or an earlier record's data is still
there; results of workers put back in order; errors that overtake results; bounded
queues between goroutines that stop at different moments; a cache read without
the lock under which recursive types are built; the same grammar read by several
loops, fast and slow, each with its own exits; integers at their width.

## What makes each part correct

* Stream decoder: it hands out the elements of the *whole* input, in order, each
  once and whole, wherever the reads fall; it ends cleanly only at the bracket;
  a truncation is reported once; every call returns.
* NextChan, NextChanParallel: results in input order; an error is last and never
  lost; no object is written to while the caller may look at it; a caller that
  keeps reading reaches the end.
* Parallel array decoder: the result is that of a serial decode; no error of a
  worker is lost; no worker writes after the call returned.
* Serial array decoders: windows neither lose nor repeat records; strict success
  only for well-formed arrays; the tolerant decoder finds nothing to note exactly
  where the strict one succeeds, and loses no healthy record beside a damaged one.
* Registry: nobody sees a registry that is not filled, and what is returned does
  not change; an unsupported field is known to all types that refer to it; a
  lookup finds the field that a search in order would.
* Object parser: exactly the documents of the type are taken; a used target ends
  as the document says; of a document cut short the fields it held are kept.
* Marshaler: what it writes is JSON, and is read back as it was.
* Primitives: the three functions that look at a number agree with the grammar and
  with each other; an integer is taken exactly when its field holds it; surrogate
  halves pair up only when both are there.
* Splitters: both kernels and a reference definition cut a well-formed array the
  same way.

## Modules

### ElementFeed: the abstract specification

What a decoder promises, without buffer or reads. The elements are read off the
whole input by counting brackets (`Cuts`, `Elements`, `Rest`); `Deliver` hands
out the next element or a block of adjacent ones, `Salvage` a complete last
element that lost its terminator, `Truncate` ends an input that stops short,
perhaps with the partial value, and `Close` ends at the bracket once everything
was delivered. A tolerant feed may step over empty elements (stray commas), a
strict one may not.

### StreamDecoder

One state per iteration of the code's loops. `pc` is `idle` between calls,
`enter` at the checks on entry, `top` at the loop head shared by `nextChunk` and
`NextRawBlock`, `scan` at the call of the splitter. Variables carry the names of
the struct's fields; `buf` is the live prefix, `cap` its allocated length,
`rpos` what the reader produced, `out` and the two report counters are history.
`Fill` slides, doubles and reads as `fill` does, the number of bytes, the end of
file and a failed read chosen by the reader. `Top...` are the branches of the
loop head, `Chunk...` those of `nextChunk` after the splitter with what its
callers do to the chunk (`HandOut`), `Block...` those of `NextRawBlock`.

Bytes are the brackets and braces, the comma, white space and `1` for any byte
of a number, each named by a word, because the provers read words better than signs. Strings are not in the alphabet: which bytes are inside one is the
splitter's business. `IsValue` and `Decodes` stand for `skipValueStrict` and
`parseObjectStrict` on that alphabet; they look at a number of digits, or a
bracketed value with nothing in it, which is enough to have whole, partial and
undecodable elements. The scalar splitter stops at a stray closing brace and
starts a chunk behind white space, the AVX2 one does neither: the constant
`Kernel` chooses.

### NextChan

`NextRecord`, `ParseWhole`, `ParseDamaged`, `Send`, `SendError`, `Close` are the
goroutine, `Receive`, `SeeClosed`, `Leave` the caller. The input is a list of
whole and damaged records: what `nextChunk` returns is `StreamDecoder`'s matter.
A slot of the ring holds the number of its record, or is torn from the moment
`parseObjectStrict` starts to write until it ends well.

### ParallelStream

The three kinds of goroutine with their channels, one action per channel
operation. A batch is torn in the ring from `TakeTask` to `FinishTask`, which
covers every order in which a worker's stores can be seen. `Written` says which
records of a batch a worker decodes: the block ends before its last separator,
so the splitter finds one record less than the block has. `Base` is `baseIdx`.
The raw buffers are private copies of one batch and are left out; so is the
check for empty batches, which are never dispatched. The code's batch size 64
and padding 16 are the constants `Batch` and `Pad`.

### ArrayScan

What the slice decoders share: the scalar splitter (`Split`, a scan from an offset
until the chunk buffer is full), the gap between two chunks and the test for a
closed tail. An array is a sequence of tokens: elements, the comma, brackets.
`Array` is the reference. White space, which every check skips, is left out, and
so are strings: which bytes are inside one is settled by the splitter before a
token is seen. `Batch` is the length of the chunk buffer, 1024 or more in the code.
`Picked` is the one loop over a sequence that keeps some of its items (the chunks that are
not empty, the ends of a window), written as a recursive function so that it can be
reasoned about; `PickedTo` is how far it came.

### ParallelArray

`UnmarshalArrayParallel` over these tokens. `pc` follows the calling goroutine:
`check` is the head of the loop, `split` the call of the splitter, `many` the
checks on its chunks, `send` the blocking send, `cleanup` and `wait` the end;
`window` and `one` are the same points of the second loop, which runs when there
is one processor. `chunks` is the buffer as the splitter leaves it, `Valid` what
the code compacts it to. A worker decodes one element per step, so that errors
and results interleave at every element. `errCh` counts the errors in the channel
(which one is returned does not matter), `bufs` the chunk buffers out of the pool:
a branch that takes a buffer and puts it back leaves it alone. `dst` holds the
offset of the element in each slot.

### SliceScan

`UnmarshalSlice` and `UnmarshalSliceTolerant`, one after the other in the source
and nearly the same: `mode` says which. A step is a window scanned
(`ScanWindow`), its separators checked (`RejectGap`, `EnterRecords`, `Overfull`), one
record decoded (`DecodeRecord`, `DamagedRecord`), the move to the next window, and
the tail (`Closed`, `Unterminated`, `Salvage`). `written` is `total` in the strict
function; `problems` is the list the tolerant one returns. A slot of `dst` records
the element in it and all elements whose data it still holds, because a damaged
record is decoded into the slot that its successor gets. With an empty slice both
functions panic (`Panic`).

### RegistryCache

`BuildRegistry` and `buildRegistryLocked`. A goroutine reads the cache without the
lock (`LoadHit`, `LoadMiss`), takes the lock, looks again (`CheckHit`) or builds:
`stack` holds the open calls, one field is looked at per step, and a field that
refers to a type opens a call (`NestedField`) unless its type is anchored further
out (`AnchoredField`). `Publish` ends a call: the registry leaves the map of those
being built and enters the cache, and the error it has by then goes to the caller.
A registry is its type, the registries it refers to, its error, and whether all
its fields have been looked at. What else a registry holds, the tags that hide
fields, and the difference of structs, pointers and slices of them, which the code
treats alike here, are left out.

### ObjectParser and ObjectCodec

`ObjectParser` has the parsing functions, as functions from a document and the
target's old content to the place where the value ended and the target's new
content, after an error too: `ParseMembers` is the loop of `parseObjectAt`,
`ParseStructs`, `ParseItems`, `ParseScalar` and `ParseRaw` its branches, `SkipValue`
is `skipValueStrict`, `ParseRoot` the entry. A document is a sequence of tokens; a number
token is one that fits an integer field, one that is too wide, a fraction, or one
whose end is missing. White space and the inside of tokens are left out (the
latter is in `Scalars`). The functions are recursive operators, as the code is.

`ObjectCodec` decodes up to two documents into one target, so that the second meets a used
one, and may damage the second on its way (`DecodeFirst`, `DecodeNext`). It has the
marshaler, and the meaning of documents to compare with: a document is a tree,
`Text` its tokens, `JsonValue` the grammar of JSON on any sequence of tokens (by
splitting at commas, not by scanning), `Fits` what a field's type allows and
`Applied` what the field holds afterwards.

### KeyTable, Scalars, Members

`KeyTable` is the search for a key: linear up to 16 fields, else the open hash table,
then once more in lower case. A key is what the search sees of it: its length, the
word its bytes pack into, its lower case. `Scalars` reads and prints integers,
numbers and strings character by character with the code's accumulator, exits and
two passes; machine words have `WordBits` bits and wrap. The value of a number is
its mantissa: the IEEE arithmetic is left out, and so is the scale of an exponent.
`Members` composes the two: a registry is declared field by field (`Declare`,
`Complete`, with any hash function), and a member is decoded with it
(`DecodeMember`): its key looked up, its text read as the field's type says,
checked against the width, stored and loaded.

### MC modules and proofs

`MCStreamDecoder`, `MCNextChan`, `MCParallelStream`, `MCParallelArray`, `MCSliceScan`,
`MCRegistryCache`, `MCObjectCodec` and `MCMembers` define the inputs TLC enumerates.
The theorems are in `StreamDecoder_proofs`, `NextChan_proofs`, `ParallelStream_proofs`,
`ParallelArray_proofs`, `SliceScan_proofs`, `RegistryCache_proofs` and `Members_proofs`;
`ArrayScan_proofs` has the lemmas about windows that both array decoders rest on.
Definitions introduced by a comment "Mutant of X" are deliberately wrong variants
of X: put in its place, they make the property they are named with fail, which
shows that the property depends on the code it is about.

## Runs

| run | module | shows |
|---|---|---|
| `stream_chunks` | MCStreamDecoder | `Decode` and `NextRaw`, strict and tolerant, over the AVX2 splitter, implement the feed; the buffer is the matching stretch of the input; a clean end is earned; stray commas and a truncation are reported; every call returns |
| `stream_blocks` | MCStreamDecoder | `NextRawBlock` mixed with `Next`, over the scalar splitter, implements the feed; every call returns |
| `chan` | MCNextChan | order, pointer stability and completeness of NextChan, and that a reading caller reaches the end |
| `parallel` | MCParallelStream | order, errors in their place, no object in use overwritten, termination of all goroutines |
| `array` | MCParallelArray | success is the whole array with every element in its slot, no good array is refused, batches stay inside the slice and apart, buffers are put back, nothing is written after the return, and the call returns |
| `slices` | MCSliceScan | strict success is the whole array and nothing else is accepted, at any window boundary; tolerant decoding is silent exactly then; no damaged record costs a healthy one, each is noted once, and nothing is decoded outside the slice |
| `registry` | MCRegistryCache | what is returned is filled and stays as it is, the idle cache is complete, errors reach the types that refer to a bad one, every call returns |
| `object` | MCObjectCodec | exactly the documents of the type are taken and mean what they say, damaged ones are JSON if accepted, cut ones leave what they held, the marshaler's text reads back |
| `members` | MCMembers | the right field is found, and an integer, number or string is taken exactly when it is one, and prints back |
| `doc_...` | | a statement of the code's comments that the code does not keep, see below |

Bounds. `stream_chunks` takes every array of up to four bytes over six
characters, every one of five bytes of the characters that are elements and
separators or that nest, and a few inputs that are no array: they hold two elements
with a doubled, leading or trailing comma, nested and unbalanced brackets, and
every truncation. The buffer starts at two bytes, so that it is slid and
doubled within them; a read delivers any number of bytes, and `MaxHiccups` bounds
reads that fail or deliver nothing (they only repeat a state). `stream_blocks`
adds longer arrays, so that a block can be full (`MaxCount` = 2) with an element
left, and a buffer of eight so that a block has several elements. `chan` has
nine records in a ring of six, `parallel` sixteen in a ring of fourteen: both
wrap with the caller lagging as far as it can. `parallel` has two workers, so that a
later block may finish first, and eight blocks against queues of four, so that
the producer is blocked by a submitter that stopped. `array` takes every inside
of up to five tokens, alone and with two workers, into a slice that is empty, too
short or long enough, and arrays of up to thirteen elements in windows of three:
six batches against a task channel of four, and up to five of them failing against
an error channel of two, so that both are full at times.

`slices` takes every inside of up to five tokens, where a window of four fills up
and the next starts at a comma, and arrays of up to eleven elements, four windows,
with one token replaced, doubled or dropped anywhere or the end cut off.
`registry` has three types in seventy declarations: a type refers to another once
or twice, to itself, or back, before or after a bad field, and a third type is a
slice or a struct over them; two goroutines are enough for every race of a read of
the cache with a build, and three calls let one of them find what the other left.
A registry is built again when it is nested, at most twelve in three calls
(`MaxRegistries` is never reached). `object` has one struct type for each kind of
field (plain, pointer, with omitempty) and a target that is fresh or has all its fields
set; documents give a field every value, alone, with a neighbour, twice, or beside
an unknown member. Of those with a neighbour or an unknown member every cut is tried,
and into fresh targets also every token lost, doubled or replaced. `members` has up to three fields, two of them searched in order and three
through the table, with keys that collide in every way; words of two bytes and
bytes of four values, so that a key's length wraps; integers of five bits, so that
the accumulator, the sign and a field of three bits overflow within three digits; all
texts of up to four digits, signs, points and exponents, and of up to three
escapes, which hold two surrogate halves with something between them or behind.

Fairness. In the stream runs a method that was called keeps running (weak
fairness of `Step`): it is a loop in one goroutine, and the reader, an
environment step inside it, returns. It may return nothing only `MaxHiccups`
times, the promise `io.Reader` asks of its implementations. In the channel runs
each goroutine has weak fairness of its own, as the Go scheduler gives a
runnable goroutine, and so has the caller's receive; a caller may leave at any
moment instead, and the liveness properties promise nothing then.
In `array` the calling goroutine and each worker have weak fairness, in `registry`
each goroutine inside BuildRegistry; the lock needs no more, because the few calls
that are made cannot keep taking it from one who waits (Go's mutex would not let
them either). The other runs check no liveness.
The runs disable TLC's deadlock check where the system stops: the call returned, all
goroutines ended or are stranded by a caller that left, or the documents and calls
are used up.

## Proofs

The theorems hold for every value of the constants that satisfies the named assumptions of
the modules. These say that constants have their types, that a chunk buffer or a ring has
room (`Batch` of at least two, `BufferSize` of at least one), that the types, or workers, of
one program are finitely many, that the first damaged record of a block is one of its
records, and of keys what packing does to them (`KeyAssumption`: two short keys with the
same length and word are the same key, and lower case makes no key empty). Four theorems
about the stream have a hypothesis of their own, named below.

Several proofs need induction over the naturals. The library's induction rule takes an
operator as a parameter, which no installed prover can instantiate; `NatSets` says the
same of a set, follows from the well-foundedness of `<`, and gives what a recursive
*function* computes for every argument. Recursive *operators* remain out of reach.

### Stream decoder

`WindowSafe`, `WindowHolds`: for every set of inputs,
capacity and behaviour of the reader, indices stay in range and the live buffer
is the stretch of the input that ends at `rpos`. The pair `TypeOK`, `BufferWindow`
is inductive as it stands; `FillKeeps` is the heart of it, the other steps move
`head` inside the window (`InsideWindow`) and leave the bytes alone.

`ImplementsFeedHolds`: the decoder implements the abstract feed, every step a step of it or
a stutter (the safety part of the refinement). The link is `Track`: with the place
`Here`, counted in the input and not in the buffer, the decoder stands behind the elements
delivered and before the rest, and its flags say on which side of a separator. Bracket depth
counted from the place agrees with depth counted from the opening bracket (`LocalCuts`), so
the first chunk the splitter finds is the next element of the whole input (`FirstElement`), a
block is a run of whole elements (`BlockIsWhole`), and a chunk that ends with the
input is the tail (`TrackCutOff`, `TrackSalvage`). The hypothesis `FeedAssumption` excludes
`NextRawBlock` over the AVX2 splitter, where it fails: there an element of nothing
but white space is counted (last section).

`OneEndHolds`, `CleanEOFHolds`: the two ends exclude each other, a tolerant
decoder has reported a truncation exactly once when it is latched, and `io.EOF` is answered
only behind the bracket or after that report. Both assume that the caller does
not use `NextRawBlock`, which knows no problem sink and latches without reporting. A latch is
set by four steps, none of which is possible once either is set, because `enter`
lets no call into the loop.

`StrayCommasHolds`: under `FeedAssumption`, a tolerant decoder that reached the bracket has
reported the empty elements it stepped over. The invariant (`Strays`) compares the
reports so far with the number of empty elements in front of the place: equal, or one more
when the bracket was seen behind a comma.

### NextChan and NextChanParallel

`PointersHold`, `OrderHolds`, `CleanCloseHolds` (NextChan_proofs): for every
`BufferSize` and list of records. The invariant adds to the properties that the
record waiting to be sent is whole and in its slot (`Waiting`), and why the goroutine
stopped (`Reason`). The ring argument is `WriteIsSafe`: the
record being written is less than `RingSize` ahead of every record in use, and
`SlotsDiffer` says that such numbers differ modulo `RingSize`.

`OrderHolds`, `ObjectsStableHolds`, `ErrorsInPlaceHolds` (ParallelStream_proofs): for
every number of workers, batch and buffer size and list of blocks. The first invariant
(`Order`) says that the batches follow one another without a gap (`Chained`), that the
submitter's queue and the workers' queue hold consecutive batches (`Queued`, `Tasked`),
that a batch in front of the submitter's is answered and one still with a worker is not
(`Submitting`, `Tasked`), and that the channel holds what was sent and not received
(`Channel`). `Intact` adds the ring: a record of an answered batch stays in its slot
until the dispatched batches have come round to it. A worker writes only batches that are
dispatched and not answered; `Clear` shows that these records and the ones to be kept
lie within one turn of the ring, so that their slots differ. `RingCovers` is why the ring is
large enough: the dispatched batches are at most `RawRingSize` ahead of the
submitter's, as many as its queue holds, the submitter is at most `BufferSize` records
ahead of the caller, and what is left of the ring is the batch being sent and the
`Batch + Pad` records received last. The end of the stream needs two
more parts: an answer says what is in the batch (`Answers`), and a submitter that
stopped either met a failed batch or sent everything (`Ending`).

### Windows of an array

`ArrayScan_proofs` says what the scan of one window returns, for every sequence of tokens,
offset and buffer length. `SplitIs`: the chunks lie one behind the other, each ends where
the depth is back to zero, and there is no such place that they leave out. `Resumes` is an
offset where a window may start, `SameEnds` that depth counted from there finds the same
ends as depth counted from the front. Therefore every window finds the same items, the
stretches with something in them between two ends, as one scan of the whole
(`FilledRises`, `WholeScan`): a window with elements has the next items without a
gap (`WindowBetween`), and one without elements has no item behind it or is full of commas
(`WindowEmpty`).

### Parallel array decoder

For every number of workers, batch size, input and slice.

`WritesStayApart`, `NoLateWritesHolds`: `WritesApart` is not inductive: two batches
are apart because they were cut from the slice in order. The invariant says so
(`Ordered`): each queued batch lies behind every one queued before it and every
one a worker holds, and all end at or before `itemsFound`, which the capacity
check keeps inside the slice; taking the head of the queue keeps the order, and
a new batch starts at `itemsFound`. `Alone` says that no worker runs before the
loop or after the call, which `wg.Wait` establishes.

`BuffersReturnedHolds`: the buffers out of the pool are those in the queue, in the hands of
workers and with the batch about to be sent (`Counted`); when the call returns
there are none of these.

`OkIsCompleteHolds`: success means the whole array with every element in its slot. While it
runs, the call is either bound to fail (`Doomed`: an error is noted, or an element that fails
to decode lies in a batch somewhere) or what it accepted is right (`Exact`): after some
commas the elements alternate with single commas, each batch holds the elements of its
slots, and a slot whose batch is done holds its element. How many commas in front are
forgiven is what makes it delicate: a window full of commas is not an error before the first
element, and the next window starts at its last comma, so that the offset of the first
element is known only up to a number of such windows (`Lead`).

`ErrorsHaveCauseHolds`: an array of decodable elements that fits is never refused. The
invariant (`BlameInv`) follows the scan through such an array: as many elements are accepted
as lie in front of the offset, no batch holds one that fails, no error is noted. The window
lemmas say that its chunks are the next elements with single commas between them
(`BlamelessScan`).

### Serial array decoders

For every input, slice and buffer length, and wherever windows end.

`WritesInSliceHolds`: no record is decoded outside the slice; the check on the
whole window (`Fits`) and the count of the records in it keep it so.

`StrictIsExactHolds`, `CleanIsStrictHolds`: strict success, and tolerant silence, are
the whole array and nothing else. One half is `Sound`: as long as nothing was noted, the
records counted are laid out in front of the place with single commas between them, and the
window starts at the comma behind the last of them or cannot move. The first gap of a window
is measured from the last comma the one before it saw, so when that is the second of a
doubled comma nobody looks at the first; the
property names these arrays (`Straddles`), and the proof counts commas to show
that nothing else slips through. The other half, `Complete`, tracks a good array
window by window: nothing is ever noted, and the tail is found closed. `Modes` says what
differs between the two functions.

`HealthyKeptHolds`: a damaged record costs itself only. The invariant (`Faithful`) is stated
with the records of one scan of the whole array: the windows so far held the first `m` of
them, of which the healthy ones are in the slots in order and the others noted (`Slots`).
In a slot is its record and whatever the damaged ones directly in front left there, and the
next free slot holds such remains already. Inside a window `m` advances with every record
(`Carried`); at its end `WindowBetween` says that the next one starts behind it. At the
closed end all records are seen, and `SalvageResult` adds the last one of an array without
its bracket.

### Registry

For any goroutines, finitely many types, any declarations, recursive ones included, and any
number of calls.

`Invariant`, `IdleMeansBuiltHolds`, `AnswersAreFilled`: while nobody holds the lock
every registry is filled and none is anchored, and a call is answered only filled
registries although the cache is read without
the lock. The properties are not inductive: the invariant adds that a goroutine past
`Lock` holds it and that calls of `buildRegistryLocked` are open only then
(`Locked`), that what is not filled or still anchored belongs to an open call
(`Pending`), and that what the cache names is filled (`Filled`). A publication then
fills the registry of the innermost call and takes the anchor of its type, and the lock
is given back with the last call, when nothing is pending.

`BuiltWhenReturnedHolds`, `ErrorsPropagateHolds`, `ReturnedIsConstantHolds`: the same of
everything a returned registry refers to, at any depth, unless types are recursive. What it
reaches is a closure, an iteration of one step as often as there are registries; `NatSets`
shows that it stays inside any set closed under that step, and counting shows that it is
closed itself. The invariant (`Deep`) adds that the open calls are nested as the types refer
to each other (`Nested`), that a registry refers only to registries of types its own type uses
(`Declared`), and that a filled registry of a type that is not recursive has references
that are filled, and an error exactly if its type or one it uses has a field that is
not supported (`Known`). Only a recursive type meets its own anchor, so the others find
filled registries in the fields they have passed.

### Registry lookup

`LookupExactHolds` (Members_proofs): whatever the keys are, however many fields there are and
wherever the hash function sends them (`HashFunctions` are all of them), the search ends, and
finds the first field of that name, or the first that differs in case only. The table has a
free slot at all times because it is larger than twice the number of fields (`Sparse`,
`SomeVacant`), so every search ends. What makes the search exact is `Holds`: each field is in
the table at some distance from its hash, and all slots on the way hold earlier
fields. Entering a field keeps this, because it takes the first free slot on its way.

### Numbers and strings

`FloatsExactHolds` (Members_proofs): on every text, however long, and for every bound on the
exact mantissas, the fast path, the grammar and the test for a number cut short agree with
the grammar of JSON. Each of the three scans and the grammar is shown to ask for the same
`Parts`: where the digits of the integer end and where the exponent begins (`ValidIs`,
`NumberIs`, `FastIs`). A text cut short has `CutParts`, and `ExtendedIs` compares them with
the parts of the text with one digit more.

`StringsExactHolds` (Members_proofs): on every text, however long and whatever its
characters, a string literal is read as its units say, up to the one quote that can end it,
and what is printed of the value is read back. Code and grammar are both functions of the
place they read from on, so the argument goes by induction from the end of the text
(`Downwards`): a literal up to a quote has exactly the reading the code returns when the code
stops at that quote, and none otherwise (`ReadingIs`). The step needs that a place begins at
most one unit, a pair counting before its halves (`UnitsDiffer`, `HalvedIs`), and that the
code refuses where none begins. `ReadStringIs` shows that the copied prefix changes nothing.
What `PrintString` writes is the escapes of the characters one after the other
(`PrintStringIs`), and each escape is read as its character wherever it stands
(`EscapeReads`).

`IntsExactHolds` (Members_proofs): on every text, however long, for every word size and every
width of a field, an integer is taken when the width holds it, and its value is kept. The
invariant of the accumulator (`AccumulatedIs`) is that it holds the value of the digits read
so far, or has given up and the value of the whole is too large for a word: no wrapping
passes unnoticed, because the code compares before it multiplies. `WidthIs` shows that store
and load lose nothing of a value that fits, from the powers of two (`Pow2Is`, `Pow2Rises`).
What `PrintInt` writes has the grammar of an integer and the value it was written for
(`DecimalsIs`, `SignedIs`, by the induction over the digits that `DecimalsOf` makes), so
`ParseInt` reads it again (`PrintIs`); of the scalar kernel's `-0` only that it is read as 0.
The word size and the bound on mantissas are any numbers (`ScalarsAssumption`).

### What is only model-checked

* All liveness, which is out of the prover's reach: that every call returns, that a
  caller who keeps reading reaches the end.
* `ObjectCodec`: the parser and the marshaler are recursive operators, as the code is
  recursive, and no prover here can unfold one.
* The runs about the comments, which are counterexamples.

The type invariants of StreamDecoder, NextChan and RegistryCache are part of the theorems and
no run repeats them.

## What the comments say and the code does not do

| run | statement | code |
|---|---|---|
| `doc_par_decoded` | the last record of a batch is parsed, `stream.go:458` | it is handed out undecoded |
| `doc_registry_built` | a returned registry is always fully built, `registry.go:81` | not what it refers to, when types refer to each other |
| `doc_empty_slice` | two laxnesses remain, both inside strings, `README.md:43` | a third: behind an empty slice of structs the comma is not looked for, and a right one is refused |

Others have no run of their own; the properties name the case where they would
otherwise fail.

Streams:

* A trailing comma is accepted when a read ends behind it (`stream.go:163`).
* A complete last element is not delivered when white space follows it (`stream.go:47`).
* A truncation is not reported when `NextRawBlock` salvaged the tail of a tolerant
  decoder (`stream.go:49`).
* NextChan's pointers stay good for three iterations, whatever `bufferSize` (`stream.go:362`),
  and it stops at a damaged record of a tolerant decoder (`stream.go:269`).
* `NextRawBlock` never reads `maxSize` (`stream.go:560`); for `[1,,]` it latches a
  truncation although the bracket is there (`stream.go:43`, `672`); on AVX2 it counts a
  trailing comma followed by white space as an element (`stream.go:650`).

Arrays:

* With one processor a truncated array is accepted (`parallel.go:34`), and a bad
  separator puts the chunk buffer into the pool twice (`parallel.go:414`, `448`;
  `BuffersReturned`).
* 1024 commas in front of the first element pass (`parallel.go:53`, `532`;
  `OkIsComplete`), and so does a doubled comma shared by two windows in the serial
  decoders (`parallel.go:156`; `Straddles`).
* The tolerant decoder numbers a damaged record from the slot it would have had, not
  by its index in the array (`parallel.go:298`, `tolerant.go:27`), stops at a window
  full of commas (`CommaRun`), and leaves what a damaged record wrote in the slot of the next one
  (`parallel.go:296`; `HealthyKept` says how far).
* An empty destination slice makes the serial decoders panic (`parallel.go:128`).

Objects:

* A nil slice of structs and a nil element are written as `null`, which is refused
  (`registry.go:262`, `parser.go:939`; `Lossy`).
* A slice of strings or integers that fails half way has overwritten items of the old
  one (`parser.go:1132`).
* Of two types that refer to each other the inner one misses an error found later in
  the outer one (`registry.go:384`; `ErrorsPropagate`), and nested builds replace cached
  registries (`registry.go:110`).
* An empty key, which the tag `json:",omitempty"` makes, is found among 16 fields and
  lost among 17 (`registry.go:458`; `LookupExact`).
* Without AVX2 the most negative integer is printed as `-0` (`scalar.go:67-86`;
  `IntsExact`).

## Plan

What is left, in this order:

1. ChunkPool: callers of one registry sharing its pool of chunk buffers, with the
   double Put of ParallelArray and what two users of one buffer then decode.
2. Splitter: strings and escapes in the scalar scan and in blocks with their carry,
   against the definition by depth.
3. Raw field access.
4. An abstract ordered feed of results implemented by NextChan and ParallelStream.

## Not modelled

* Strings inside the splitters, and the assembly kernels: what they return on tokens
  is modelled, the registers and block carries are not.
* Floating point parsing and formatting (IEEE arithmetic): which texts are numbers
  is modelled, not the value beyond the mantissa.
* White space between tokens in the array and object modules; every check skips it.
* A slice type given an object at the root, which is read as one of its elements.
* Raw field access (`raw.go`), sequential functions on the bytes of one object.
* What two users of one chunk buffer do to each other.
* The chunker sample and examples (I/O), generated protobuf code and benchmark
  payloads.
