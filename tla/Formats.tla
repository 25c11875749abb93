------------------------------ MODULE Formats ------------------------------
(***************************************************************************)
(* What records look like on the wire and on disk.  obj.class tells the    *)
(* formats apart:                                                          *)
(*                                                                         *)
(*  "frames"   requests cut out of a byte stream (framing)                 *)
(*  "varints"  integers of varying width (varint)                          *)
(*  "column"   a column of numbers (deltaencoding, runlength)              *)
(*  "keys"     sorted keys that share prefixes (prefixcompression)         *)
(*  "runs"     sorted runs merged into one (mergeiterator)                 *)
(*  "batches"  the offsets a batch covers, compacted or not (batchheader)  *)
(*  "schemas"  the registry of a topic's schemas (schemas)                 *)
(***************************************************************************)
EXTENDS Integers, Sequences, SequencesExt, FiniteSets, FiniteSetsExt

CONSTANTS
  MaxSize,    \* FrameReader.max_size
  MaxItems    \* bound: frames, integers, keys, batches or schemas

VARIABLE obj

(***************************************************************************)
(* Frames.  A byte is a cell of CELL values and the length takes HEADER    *)
(* cells, signed (256 and 4 in the code, with the same arithmetic).  sent  *)
(* are the payloads the peer sent, wire what has not arrived, bad whether  *)
(* the peer sent a length that no frame may have.                          *)
(***************************************************************************)
CELL == 4
HEADER == 2
BAD_LENGTHS == {-1, MaxSize + 1}

FramesInit ==
  obj = [class |-> "frames", sent |-> <<>>, wire |-> <<>>, buffer |-> <<>>, got |-> <<>>,
         bad |-> FALSE, refused |-> FALSE]

Length(b) == LET n == b[1] * CELL + b[2] IN IF 2 * n < CELL * CELL THEN n ELSE n - CELL * CELL
AsLength(n) == LET u == n % (CELL * CELL) IN <<u \div CELL, u % CELL>>

SendFrame(payload) ==
  /\ obj.class = "frames" /\ ~ obj.bad /\ Len(obj.sent) < MaxItems
  /\ obj' = [obj EXCEPT !.sent = Append(@, payload), !.wire = @ \o AsLength(Len(payload)) \o payload]

SendBadLength(n) ==
  /\ obj.class = "frames" /\ ~ obj.bad
  /\ obj' = [obj EXCEPT !.bad = TRUE, !.wire = @ \o AsLength(n)]

\* A plausible slip: a frame waits for a byte of the next one.
WholeAndMore(b) == Len(b) - HEADER > Length(b)
\* The buffer holds the whole payload that the length promises.
Whole(b) == Len(b) - HEADER >= Length(b)

\* The loop of FrameReader.feed, over the buffer b and the frames cut out of it.
RECURSIVE Carve(_, _)
Carve(b, frames) ==
  IF Len(b) < HEADER THEN [buffer |-> b, frames |-> frames, refused |-> FALSE]
  ELSE IF Length(b) < 0 \/ Length(b) > MaxSize THEN [buffer |-> b, frames |-> frames, refused |-> TRUE]
  ELSE IF ~ Whole(b) THEN [buffer |-> b, frames |-> frames, refused |-> FALSE]
  ELSE Carve(SubSeq(b, HEADER + Length(b) + 1, Len(b)),
             Append(frames, SubSeq(b, HEADER + 1, HEADER + Length(b))))

\* FrameReader.feed: a refusal raises, and takes the frames of this call with it
Feed(n) ==
  /\ obj.class = "frames" /\ ~ obj.refused /\ n <= Len(obj.wire)
  /\ LET carved == Carve(obj.buffer \o SubSeq(obj.wire, 1, n), <<>>)
     IN  obj' = [obj EXCEPT !.wire = SubSeq(@, n + 1, Len(@)), !.buffer = carved.buffer,
                            !.refused = carved.refused,
                            !.got = IF carved.refused THEN @ ELSE @ \o carved.frames]

(***************************************************************************)
(* However the bytes are split into reads, the requests come out as they   *)
(* were sent: each as soon as it is whole, none torn, none run together;   *)
(* the reader never holds more than one frame, and refuses only a peer     *)
(* that sent an impossible length.                                         *)
(***************************************************************************)
FramesComeOutWhole ==
  obj.class = "frames" =>
    /\ IsPrefix(obj.got, obj.sent)
    /\ obj.refused => obj.bad
    /\ ~ obj.refused => /\ obj.got \o Carve(obj.buffer \o obj.wire, <<>>).frames = obj.sent
                        /\ Carve(obj.buffer, <<>>).frames = <<>> /\ Len(obj.buffer) < HEADER + MaxSize

-----------------------------------------------------------------------------
(***************************************************************************)
(* Varints.  A byte carries a digit below GROUP and a continuation flag;   *)
(* integers are those of a WORD-bit signed word, for which MAX_BYTES       *)
(* bytes are enough (7 bits, 64 bits and 10 bytes in the code).            *)
(***************************************************************************)
GROUP == 4
MAX_BYTES == 3
WORDS == {-32, -9, -2, -1, 0, 1, 8, 31}

VarintsInit == obj = [class |-> "varints", written |-> <<>>, wire |-> <<>>, data |-> <<>>, read |-> <<>>]

ZigzagEncode(v) == IF v < 0 THEN -2 * v - 1 ELSE 2 * v
ZigzagDecode(n) == IF n % 2 = 1 THEN -(n \div 2) - 1 ELSE n \div 2

RECURSIVE Digits(_)
Digits(n) ==
  IF n \div GROUP = 0 THEN << [digit |-> n % GROUP, more |-> FALSE] >>
  ELSE << [digit |-> n % GROUP, more |-> TRUE] >> \o Digits(n \div GROUP)

\* encode_varint
WriteVarint(v) ==
  /\ obj.class = "varints" /\ Len(obj.written) < MaxItems
  /\ obj' = [obj EXCEPT !.written = Append(@, v), !.wire = @ \o Digits(ZigzagEncode(v))]

ByteArrives ==
  /\ obj.class = "varints" /\ obj.wire # <<>>
  /\ obj' = [obj EXCEPT !.data = Append(@, Head(obj.wire)), !.wire = Tail(@)]

\* Bytes up to and including the first without the flag.
LastByte(data) == {i \in DOMAIN data : i <= MAX_BYTES /\ ~ data[i].more}

\* decode_varint: truncated data is refused, and can be tried again with more
ReadVarint ==
  /\ obj.class = "varints" /\ LastByte(obj.data) # {}
  /\ LET n   == Min(LastByte(obj.data))
         raw == FoldLeft(LAMBDA acc, i : acc + obj.data[i].digit * GROUP^(i - 1), 0, [i \in 1..n |-> i])
     IN  obj' = [obj EXCEPT !.read = Append(@, ZigzagDecode(raw)), !.data = SubSeq(@, n + 1, Len(@))]

\* The integers read are those written, in order; none is overrun, and once all
\* bytes are there nothing is left that cannot be read.
VarintsRoundTrip ==
  obj.class = "varints" =>
    /\ IsPrefix(obj.read, obj.written)
    /\ Len(obj.data) >= MAX_BYTES \/ obj.wire = <<>> => (LastByte(obj.data) = {} => obj.data = <<>>)

-----------------------------------------------------------------------------
\* Columns, keys and runs grow; what they encode to is looked at in every state.
SortedSeq(s) == \A i \in 2..Len(s) : s[i - 1] <= s[i]

ColumnInit == obj = [class |-> "column", values |-> <<>>]

AddValue(v) ==
  /\ obj.class = "column" /\ Len(obj.values) < MaxItems + 1
  /\ obj' = [obj EXCEPT !.values = Append(@, v)]

\* deltaencoding.encode, of a sorted column
DeltaEncode(s) == [i \in DOMAIN s |-> IF i = 1 THEN s[1] ELSE s[i] - s[i - 1]]

\* deltaencoding.decode
DeltaDecode(s) == FoldLeft(LAMBDA out, d : Append(out, IF out = <<>> THEN d ELSE Last(out) + d), <<>>, s)

\* runlength.encode
RunsOf(s) ==
  FoldLeft(LAMBDA out, v : IF out # <<>> /\ Last(out)[1] = v
                           THEN [out EXCEPT ![Len(out)] = <<v, @[2] + 1>>]
                           ELSE Append(out, <<v, 1>>), <<>>, s)

\* runlength.decode
FromRuns(runs) == FoldLeft(LAMBDA out, run : out \o [i \in 1..run[2] |-> run[1]], <<>>, runs)

\* Both encodings give the column back; deltas of sorted values are never
\* negative, and no two runs in a row are of the same value.
ColumnsRoundTrip ==
  obj.class = "column" =>
    LET runs == RunsOf(obj.values) deltas == DeltaEncode(obj.values)
    IN  /\ SortedSeq(obj.values) => DeltaDecode(deltas) = obj.values /\ \A i \in DOMAIN deltas : deltas[i] >= 0
        /\ FromRuns(runs) = obj.values /\ \A i \in 2..Len(runs) : runs[i - 1][1] # runs[i][1]

\* The keys are words over two letters.
KEYS == UNION {[1..n -> 0..1] : n \in 1..3}

KeysInit == obj = [class |-> "keys", keys |-> <<>>]

\* _shared_len
SharedLen(a, b) == Max({n \in 0..Min({Len(a), Len(b)}) : SubSeq(a, 1, n) = SubSeq(b, 1, n)})

\* The order of strings.
AtOrAfter(b, a) == LET n == SharedLen(a, b) IN n < Len(a) => n < Len(b) /\ a[n + 1] < b[n + 1]

\* encode refuses keys out of order
AddKey(key) ==
  /\ obj.class = "keys" /\ Len(obj.keys) < MaxItems
  /\ obj.keys # <<>> => AtOrAfter(key, Last(obj.keys))
  /\ obj' = [obj EXCEPT !.keys = Append(@, key)]

\* prefixcompression.encode
PrefixEncode(keys) ==
  [i \in DOMAIN keys |->
     LET shared == IF i = 1 THEN 0 ELSE SharedLen(keys[i - 1], keys[i])
     IN  <<shared, SubSeq(keys[i], shared + 1, Len(keys[i]))>>]

\* prefixcompression.decode: each key begins as the one before
PrefixDecode(entries) ==
  FoldLeft(LAMBDA out, e : Append(out, (IF out = <<>> THEN <<>> ELSE SubSeq(Last(out), 1, e[1])) \o e[2]), <<>>, entries)

\* The keys come back; only a repeated key or one that the next extends leaves
\* a suffix empty or the prefix whole.
KeysRoundTrip ==
  obj.class = "keys" =>
    LET entries == PrefixEncode(obj.keys)
    IN  /\ PrefixDecode(entries) = obj.keys
        /\ \A i \in 2..Len(entries) :
             /\ entries[i][1] <= Len(obj.keys[i - 1])
             /\ entries[i][2] = <<>> => obj.keys[i] = obj.keys[i - 1]

-----------------------------------------------------------------------------
\* The streams are lists of numbers.
RunsInit == obj = [class |-> "runs", streams |-> << <<>>, <<>>, <<>> >>]

\* _check_sorted
AddToRun(i, v) ==
  /\ obj.class = "runs" /\ Len(FlattenSeq(obj.streams)) < MaxItems + 2
  /\ obj.streams[i] # <<>> => v >= Last(obj.streams[i])
  /\ obj' = [obj EXCEPT !.streams[i] = Append(@, v)]

\* merge: the smallest head, of the first stream that has it
RECURSIVE Merge(_, _, _)
Merge(streams, dedupe, out) ==
  LET live == {i \in DOMAIN streams : streams[i] # <<>>}
  IN  IF live = {} THEN out
      ELSE LET smallest == Min({Head(streams[i]) : i \in live})
               chosen   == Min({i \in live : Head(streams[i]) = smallest})
           IN  Merge([streams EXCEPT ![chosen] = Tail(@)], dedupe,
                     IF dedupe /\ out # <<>> /\ Last(out) = smallest THEN out ELSE Append(out, smallest))

\* The merged run is sorted and has every value as often as the streams have it,
\* or each value once.
MergeIsExact ==
  obj.class = "runs" =>
    LET all  == FlattenSeq(obj.streams)
        full == Merge(obj.streams, FALSE, <<>>)
        once == Merge(obj.streams, TRUE, <<>>)
        count(s, v) == Cardinality({i \in DOMAIN s : s[i] = v})
    IN  /\ SortedSeq(full) /\ \A v \in Range(all) \cup Range(full) : count(full, v) = count(all, v)
        /\ Range(once) = Range(all) /\ \A i \in 2..Len(once) : once[i - 1] < once[i]

-----------------------------------------------------------------------------
\* Batch headers; live are the offsets whose records are still there.
BatchesInit == obj = [class |-> "batches", headers |-> <<>>, live |-> {}]

LastOffset(h) == h.base_offset + h.last_offset_delta

\* BatchHeader.next_base_offset
NextBase(headers) == IF headers = <<>> THEN 0 ELSE LastOffset(Last(headers)) + 1

AppendBatch(delta) ==
  /\ obj.class = "batches" /\ Len(obj.headers) < MaxItems
  /\ LET base == NextBase(obj.headers)
     IN  obj' = [obj EXCEPT
           !.headers = Append(@, [base_offset |-> base, last_offset_delta |-> delta, record_count |-> delta + 1]),
           !.live = @ \cup base..(base + delta)]

\* Compaction drops a record, not the newest, and keeps the span of its batch; a
\* batch without records goes.
CompactAway(offset) ==
  /\ obj.class = "batches" /\ offset \in obj.live /\ offset + 1 # NextBase(obj.headers)
  /\ LET i == CHOOSE j \in DOMAIN obj.headers :
                /\ obj.headers[j].base_offset <= offset /\ offset <= LastOffset(obj.headers[j])
     IN  obj' = [obj EXCEPT
           !.live = @ \ {offset},
           !.headers = IF @[i].record_count > 1 THEN [@ EXCEPT ![i].record_count = @ - 1] ELSE RemoveAt(@, i)]

\* BatchHeader.offset_of
Covers(h, offset) == offset - h.base_offset \in 0..h.last_offset_delta

\* Compaction never makes an offset ambiguous or loses one: each record left is
\* covered by one batch, batches stay in order, and the next base is new.
BatchesCover ==
  obj.class = "batches" =>
    /\ \A offset \in obj.live :
         Cardinality({i \in DOMAIN obj.headers : Covers(obj.headers[i], offset)}) = 1
    /\ \A i \in 2..Len(obj.headers) : LastOffset(obj.headers[i - 1]) < obj.headers[i].base_offset
    /\ \A i \in DOMAIN obj.headers :
         obj.headers[i].record_count = Cardinality({o \in obj.live : Covers(obj.headers[i], o)})
    /\ \A offset \in obj.live : offset < NextBase(obj.headers)

-----------------------------------------------------------------------------
(***************************************************************************)
(* Schemas: each of two fields is absent, optional or required.  history   *)
(* holds the registered schemas with the mode each was let in under.       *)
(***************************************************************************)
MODES == {"backward", "forward", "full", "none"}
SCHEMAS == [{"f1", "f2"} -> {"absent", "optional", "required"}]

FieldNames(s) == {f \in DOMAIN s : s[f] # "absent"}
RequiredNames(s) == {f \in DOMAIN s : s[f] = "required"}

\* _backward_ok
BackwardOk(old, new) ==
  /\ RequiredNames(old) \subseteq FieldNames(new)
  /\ RequiredNames(new) \subseteq FieldNames(old)

\* The checks of SchemaRegistry.register; _forward_ok
Compatible(mode, old, new) ==
  /\ mode \in {"backward", "full"} => BackwardOk(old, new)
  /\ mode \in {"forward", "full"} => BackwardOk(new, old)

SchemasInit == obj = [class |-> "schemas", mode |-> "backward", history |-> <<>>]

\* SchemaRegistry.set_mode
SetMode(mode) ==
  /\ obj.class = "schemas" /\ mode # obj.mode
  /\ obj' = [obj EXCEPT !.mode = mode]

\* SchemaRegistry.register
Register(schema) ==
  /\ obj.class = "schemas" /\ Len(obj.history) < MaxItems
  /\ obj.history # <<>> => Compatible(obj.mode, Last(obj.history).schema, schema)
  /\ obj' = [obj EXCEPT !.history = Append(@, [schema |-> schema, mode |-> obj.mode])]

\* The records a producer with schema s may write, as the fields they carry.
RecordsOf(s) == {r \in SUBSET FieldNames(s) : RequiredNames(s) \subseteq r}

\* What a mode promises of the schema before and the new one (schemas.py:9-15): a
\* new reader reads old records under backward, an old reader new ones under
\* forward, either under full, whatever the mode was changed to later.  What the
\* checks give is that a reader misses only a field that the writer's schema has
\* as optional: such a field may become required unnoticed.
SchemasKeepTheirMode ==
  obj.class = "schemas" =>
    \A i \in 2..Len(obj.history) :
      LET old == obj.history[i - 1].schema
          new == obj.history[i].schema
          misses(reader, writer) == UNION {RequiredNames(reader) \ r : r \in RecordsOf(writer)}
          mayMiss(writer) == FieldNames(writer) \ RequiredNames(writer)
      IN  /\ obj.history[i].mode \in {"backward", "full"} => misses(new, old) \subseteq mayMiss(old)
          /\ obj.history[i].mode \in {"forward", "full"} => misses(old, new) \subseteq mayMiss(new)

-----------------------------------------------------------------------------
Init ==
  \/ FramesInit \/ VarintsInit \/ ColumnInit \/ KeysInit \/ RunsInit \/ BatchesInit \/ SchemasInit

Next ==
  \/ \E n \in 0..MaxSize : SendFrame([i \in 1..n |-> 3])
  \/ \E n \in BAD_LENGTHS : SendBadLength(n)
  \/ \E n \in 1..(MaxItems * (HEADER + MaxSize) + HEADER) : Feed(n)
  \/ (\E v \in WORDS : WriteVarint(v)) \/ ByteArrives \/ ReadVarint
  \/ \E v \in 0..3 : AddValue(v) \/ \E i \in 1..3 : AddToRun(i, v)
  \/ \E key \in KEYS : AddKey(key)
  \/ (\E delta \in 0..2 : AppendBatch(delta)) \/ \E offset \in 0..(3 * MaxItems) : CompactAway(offset)
  \/ (\E mode \in MODES : SetMode(mode)) \/ \E schema \in SCHEMAS : Register(schema)

\* What was written is what is read, in every format, and schemas keep what their
\* mode promises.
FormatsRoundTrip ==
  /\ FramesComeOutWhole /\ VarintsRoundTrip /\ ColumnsRoundTrip /\ KeysRoundTrip /\ MergeIsExact
  /\ BatchesCover /\ SchemasKeepTheirMode
=============================================================================
