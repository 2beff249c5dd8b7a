------------------------------- MODULE Codec -------------------------------
(***************************************************************************)
(* The deterministic CBOR of every version 2 document.  The production     *)
(* codec is core/src/wire_v2.rs; the verifier, the composer and the        *)
(* acceptor each have a decoder of their own.  The four run the same loops *)
(* over the input; what each one admits is a record of rules of its own,   *)
(* read off its own file.  A byte is an integer, and an unsigned 64-bit    *)
(* number is the sequence of its significant bytes, most significant       *)
(* first, so that every width is the real one.                             *)
(*                                                                         *)
(* An input is enumerated byte by byte: it is extended only while one of   *)
(* the decoders runs off its end.                                          *)
(***************************************************************************)
EXTENDS Integers, FiniteSets, Sequences, SequencesExt, TLC

CONSTANTS
    Alphabet,    \* the bytes of an input
    Seeds,       \* what an input starts with
    MaxAdded,    \* bound on the bytes added to a seed
    MaxDepth, MaxItems  \* MAX_DEPTH and MAX_ITEMS

\* Utf8 knows no character of three or four bytes.
ASSUME AlphabetAssumption ==
    /\ Alphabet \subseteq 0..255 /\ Alphabet \intersect (224..244) = {}
    /\ MaxItems \in 1..65535

VARIABLES input, added

codecVars == <<input, added>>

-----------------------------------------------------------------------------
(* Bytes and numbers. *)

\* The order of byte slices.
Precedes(a, b) ==
    \/ IsStrictPrefix(a, b)
    \/ \E i \in DOMAIN a \intersect DOMAIN b :
          a[i] < b[i] /\ \A j \in 1..(i - 1) : a[j] = b[j]

Significant(bytes) ==
    LET from == {i \in DOMAIN bytes : bytes[i] # 0} IN
    IF from = {} THEN <<>> ELSE SubSeq(bytes, Min(from), Len(bytes))

\* The number as an integer, where it is small.
Small(number) == Len(number) <= 2
Magnitude(number) == FoldLeft(LAMBDA n, b : 256 * n + b, 0, number)
NumberOf(n) == Significant(<<n \div 256, n % 256>>)

RECURSIVE Utf8(_)
Utf8(bytes) ==
    \/ bytes = <<>>
    \/ bytes[1] < 128 /\ Utf8(Tail(bytes))
    \/ /\ Len(bytes) > 1 /\ bytes[1] \in 194..223 /\ bytes[2] \in 128..191
       /\ Utf8(SubSeq(bytes, 3, Len(bytes)))

-----------------------------------------------------------------------------
(* Decoding.  A result has an error, or a value and the place after it.    *)
(* Input that ends too soon is invalid to the code; here it is            *)
(* "truncated", so that Extend can tell.                                   *)

Ok(value, offset, items) ==
    [error |-> "none", value |-> value, offset |-> offset, items |-> items]
Fail(code) == [error |-> code, value |-> <<>>, offset |-> 0, items |-> 0]

\* Decoder::take: a length beyond the input, or beyond the address space.
TakeError(bytes, offset, length) ==
    IF Len(length) = 8 /\ (\A i \in 1..7 : length[i] = 255)
       /\ length[8] + offset > 255
    THEN "limit"
    ELSE IF ~Small(length) \/ offset + Magnitude(length) > Len(bytes)
    THEN "truncated" ELSE "none"

\* The order of numbers.
AtLeast(number, least) ==
    \/ Len(number) > Len(least)
    \/ Len(number) = Len(least) /\ ~Precedes(number, least)

\* The rules of a decoder: what the additional bits of an argument announce
\* (a width and the least number it may carry), the kinds of item, the simple
\* values, the kinds of key, whether a key may repeat, and its limits.
ProducerRules ==
    [width   |-> 24 :> 1 @@ 25 :> 2 @@ 26 :> 4 @@ 27 :> 8,
     least   |-> 24 :> <<24>> @@ 25 :> <<1, 0>> @@ 26 :> <<1, 0, 0>>
                   @@ 27 :> <<1, 0, 0, 0, 0>>,
     kinds   |-> 0 :> "unsigned" @@ 1 :> "negative" @@ 2 :> "bytes"
                   @@ 3 :> "text" @@ 4 :> "array" @@ 5 :> "map",
     simple  |-> 20 :> "false" @@ 21 :> "true" @@ 22 :> "null",
     keys    |-> {"text"}, repeats |-> FALSE,
     depth   |-> MaxDepth, items |-> MaxItems]

VerifierRules ==
    [width   |-> 24 :> 1 @@ 25 :> 2 @@ 26 :> 4 @@ 27 :> 8,
     least   |-> 24 :> <<24>> @@ 25 :> <<1, 0>> @@ 26 :> <<1, 0, 0>>
                   @@ 27 :> <<1, 0, 0, 0, 0>>,
     kinds   |-> 0 :> "unsigned" @@ 1 :> "negative" @@ 2 :> "bytes"
                   @@ 3 :> "text" @@ 4 :> "array" @@ 5 :> "map",
     simple  |-> 20 :> "false" @@ 21 :> "true" @@ 22 :> "null",
     keys    |-> {"text"}, repeats |-> FALSE,
     depth   |-> MaxDepth, items |-> MaxItems]

ComposerRules ==
    [width   |-> 24 :> 1 @@ 25 :> 2 @@ 26 :> 4 @@ 27 :> 8,
     least   |-> 24 :> <<24>> @@ 25 :> <<1, 0>> @@ 26 :> <<1, 0, 0>>
                   @@ 27 :> <<1, 0, 0, 0, 0>>,
     kinds   |-> 0 :> "unsigned" @@ 1 :> "negative" @@ 2 :> "bytes"
                   @@ 3 :> "text" @@ 4 :> "array" @@ 5 :> "map",
     simple  |-> 20 :> "false" @@ 21 :> "true" @@ 22 :> "null",
     keys    |-> {"text"}, repeats |-> FALSE,
     depth   |-> MaxDepth, items |-> MaxItems]

\* Mutant: one decoder alone accepts a number that would fit in four bytes.
AcceptorRulesWide == [ComposerRules EXCEPT !.least[27] = <<1, 0, 0>>]

AcceptorRules ==
    [width   |-> 24 :> 1 @@ 25 :> 2 @@ 26 :> 4 @@ 27 :> 8,
     least   |-> 24 :> <<24>> @@ 25 :> <<1, 0>> @@ 26 :> <<1, 0, 0>>
                   @@ 27 :> <<1, 0, 0, 0, 0>>,
     kinds   |-> 0 :> "unsigned" @@ 1 :> "negative" @@ 2 :> "bytes"
                   @@ 3 :> "text" @@ 4 :> "array" @@ 5 :> "map",
     simple  |-> 20 :> "false" @@ 21 :> "true" @@ 22 :> "null",
     keys    |-> {"text"}, repeats |-> FALSE,
     depth   |-> MaxDepth, items |-> MaxItems]

\* Decoder::argument: the shortest of the widths that hold the number.
Argument(rules, bytes, offset, additional) ==
    IF additional < 24 THEN Ok(Significant(<<additional>>), offset, 0)
    ELSE IF additional \notin DOMAIN rules.width
    THEN Fail(IF additional = 31 THEN "non-deterministic" ELSE "invalid")
    ELSE
    LET end == offset + rules.width[additional]
        number == Significant(SubSeq(bytes, offset + 1, end))
    IN
    CASE end > Len(bytes) -> Fail("truncated")
      [] end <= Len(bytes) /\ AtLeast(number, rules.least[additional]) ->
           Ok(number, end, 0)
      [] end <= Len(bytes) /\ ~AtLeast(number, rules.least[additional]) ->
           Fail("non-deterministic")

\* The strings, of bytes or of text.
String(bytes, kind, argument, items) ==
    LET error == TakeError(bytes, argument.offset, argument.value)
        end == argument.offset + Magnitude(argument.value)
        content == SubSeq(bytes, argument.offset + 1, end)
    IN
    IF error # "none" THEN Fail(error)
    ELSE IF kind = "text" /\ ~Utf8(content) THEN Fail("invalid")
    ELSE Ok(<<kind, content>>, end, items)

SimpleValue(rules, additional, offset, items) ==
    IF additional \in DOMAIN rules.simple
    THEN Ok(<<rules.simple[additional]>>, offset, items)
    ELSE Fail("invalid")

BoundedCount(rules, number) ==
    Small(number) /\ Magnitude(number) <= rules.items

\* An item joins those read before it.  Keys and values of a map alternate,
\* and a key is kept with its encoding.
AddElement(read, item) ==
    IF item.error # "none" THEN item
    ELSE [item EXCEPT !.value = Append(read.value, @)]
AddKey(rules, read, key, encoding) ==
    LET previous == read.value[Len(read.value) - 1][2] IN
    CASE key.error # "none" -> key
      [] key.error = "none" /\ key.value[1] \notin rules.keys -> Fail("invalid")
      [] key.error = "none" /\ key.value[1] \in rules.keys ->
           IF \/ read.value = <<>> \/ Precedes(previous, encoding)
              \/ rules.repeats /\ previous = encoding
           THEN [key EXCEPT !.value = Append(read.value, <<@[2], encoding>>)]
           ELSE Fail("non-deterministic")

IsKey(kind, read) == kind = "map" /\ Len(read.value) % 2 = 0
AddItem(rules, bytes, kind, read, item) ==
    IF IsKey(kind, read)
    THEN AddKey(rules, read, item, SubSeq(bytes, read.offset + 1, item.offset))
    ELSE AddElement(read, item)

\* The loops of Decoder::item over arrays and maps: the first error ends
\* them.
RECURSIVE Item(_, _, _, _, _)
Items(rules, bytes, kind, count, start, depth) ==
    FoldLeft(LAMBDA read, i :
                 IF read.error # "none" THEN read
                 ELSE AddItem(rules, bytes, kind, read,
                          Item(rules, bytes, read.offset, read.items, depth + 1)),
             start, [i \in 1..count |-> i])

Collection(kind, read) ==
    IF read.error # "none" THEN read
    ELSE IF kind = "array" THEN [read EXCEPT !.value = <<"array", @>>]
    ELSE [read EXCEPT !.value =
             <<"map", [i \in 1..(Len(@) \div 2) |->
                          <<@[2 * i - 1][1], @[2 * i]>>]>>]

\* What follows an argument.
Body(rules, bytes, kind, argument, items, depth) ==
    CASE argument.error # "none" -> argument
      [] argument.error = "none" /\ kind \in {"unsigned", "negative"} ->
           Ok(<<kind, argument.value>>, argument.offset, items)
      [] argument.error = "none" /\ kind \in {"bytes", "text"} ->
           String(bytes, kind, argument, items)
      [] argument.error = "none" /\ kind \in {"array", "map"} ->
           IF ~BoundedCount(rules, argument.value) THEN Fail("limit")
           ELSE Collection(kind,
                    Items(rules, bytes, kind,
                          (IF kind = "map" THEN 2 ELSE 1)
                              * Magnitude(argument.value),
                          Ok(<<>>, argument.offset, items), depth))
      [] argument.error = "none" /\ kind = "other" -> Fail("invalid")

\* Decoder::item.
Item(rules, bytes, offset, items, depth) ==
    IF depth > rules.depth \/ items >= rules.items THEN Fail("limit")
    ELSE IF offset >= Len(bytes) THEN Fail("truncated")
    ELSE
    LET major == bytes[offset + 1] \div 32
        additional == bytes[offset + 1] % 32
        kind == IF major \in DOMAIN rules.kinds THEN rules.kinds[major] ELSE "other"
    IN
    IF major = 7 THEN SimpleValue(rules, additional, offset + 1, items + 1)
    ELSE Body(rules, bytes, kind, Argument(rules, bytes, offset + 1, additional),
              items + 1, depth)

\* decode: one item, and nothing after it.
AtEnd(bytes, read) ==
    IF read.error = "none" /\ read.offset # Len(bytes) THEN Fail("invalid")
    ELSE read
DecodeWith(rules, bytes) ==
    IF bytes = <<>> THEN Fail("limit")
    ELSE AtEnd(bytes, Item(rules, bytes, 0, 0, 0))

Decode(bytes) == DecodeWith(ProducerRules, bytes)

\* The decoders of the verifier, the composer and the acceptor; the last two
\* do not tell errors apart.
Untold(read) == IF read.error = "none" THEN read ELSE Fail("invalid")
VerifierDecode(bytes) == DecodeWith(VerifierRules, bytes)
ComposerDecode(bytes) == Untold(DecodeWith(ComposerRules, bytes))
AcceptorDecode(bytes) == Untold(DecodeWith(AcceptorRules, bytes))

-----------------------------------------------------------------------------
(* Encoding.  No item has an empty encoding: <<>> stands for an error. *)

Padded(number, width) == [i \in 1..(width - Len(number)) |-> 0] \o number

EncodeArgument(major, number) ==
    LET prefix == 32 * major
        few == Len(number) <= 1 /\ Magnitude(number) < 24
    IN
    CASE few -> <<prefix + Magnitude(number)>>
      [] ~few /\ Len(number) = 1 -> <<prefix + 24>> \o number
      [] Len(number) = 2 -> <<prefix + 25>> \o number
      [] Len(number) \in 3..4 -> <<prefix + 26>> \o Padded(number, 4)
      [] Len(number) \in 5..8 -> <<prefix + 27>> \o Padded(number, 8)

EncodeLength(major, length) == EncodeArgument(major, NumberOf(length))
EncodeText(text) == EncodeLength(3, Len(text)) \o text

\* The parts in order, unless one is an error.
Join(parts) == IF <<>> \in ToSet(parts) THEN <<>> ELSE FlattenSeq(parts)

\* The pairs of an encoded key and an encoded value, by key.
SortedEntries(entries) ==
    SortSeq(entries, LAMBDA a, b : Precedes(a[1], b[1]))
EncodeEntries(entries) ==
    LET sorted == SortedEntries(entries) IN
    Join(<<EncodeLength(5, Len(entries))>>
            \o [i \in DOMAIN sorted |-> Join(sorted[i])])

RECURSIVE EncodeItem(_)
EncodeItem(value) ==
    CASE value[1] = "unsigned" -> EncodeArgument(0, value[2])
      [] value[1] = "negative" -> EncodeArgument(1, value[2])
      [] value[1] = "bytes" -> EncodeLength(2, Len(value[2])) \o value[2]
      [] value[1] = "text" -> EncodeText(value[2])
      [] value[1] = "array" ->
           Join(<<EncodeLength(4, Len(value[2]))>>
                \o [i \in DOMAIN value[2] |-> EncodeItem(value[2][i])])
      [] value[1] = "map" ->
           IF ~IsInjective([i \in DOMAIN value[2] |-> value[2][i][1]]) THEN <<>>
           ELSE EncodeEntries([i \in DOMAIN value[2] |->
                    <<EncodeText(value[2][i][1]), EncodeItem(value[2][i][2])>>])
      [] value[1] = "false" -> <<244>>
      [] value[1] = "true" -> <<245>>
      [] value[1] = "null" -> <<246>>

\* encode_bound_map: the fields of a receipt are bound as bytes, each of
\* which must be canonical by itself.
EncodeBoundMap(fields) ==
    IF \/ ~IsInjective([i \in DOMAIN fields |-> fields[i][1]])
       \/ \E i \in DOMAIN fields :
             LET r == Decode(fields[i][2]) IN
             r.error # "none" \/ EncodeItem(r.value) # fields[i][2]
    THEN <<>>
    ELSE EncodeEntries([i \in DOMAIN fields |->
                            <<EncodeText(fields[i][1]), fields[i][2]>>])

-----------------------------------------------------------------------------
(* The inputs. *)

CodecInit == input \in Seeds /\ added = 0

Extend(byte) ==
    /\ added < MaxAdded
    /\ \/ input = <<>>
       \/ \E rules \in {ProducerRules, VerifierRules, ComposerRules,
                        AcceptorRules} :
             DecodeWith(rules, input).error = "truncated"
    /\ input' = Append(input, byte) /\ added' = added + 1

CodecNext == \E byte \in Alphabet : Extend(byte)

CodecSpec == CodecInit /\ [][CodecNext]_codecVars

-----------------------------------------------------------------------------
(* Properties. *)

EncodesTo(bytes, value) == EncodeItem(value) = bytes
BoundMapIs(bytes, entries) ==
    EncodeBoundMap([i \in DOMAIN entries |->
        <<entries[i][1], EncodeItem(entries[i][2])>>]) = bytes
IsCanonical(bytes, read) ==
    /\ VerifierDecode(bytes) = read
    /\ ComposerDecode(bytes) = Untold(read)
    /\ AcceptorDecode(bytes) = Untold(read)
    /\ read.error = "none" =>
        /\ EncodesTo(bytes, read.value)
        /\ read.value[1] = "map" =>
              /\ EncodesTo(bytes, <<"map", Reverse(read.value[2])>>)
              /\ BoundMapIs(bytes, Reverse(read.value[2]))

\* A value has one accepted encoding, the one the encoder writes: what the
\* decoder accepts, the encoder gives back byte for byte, whatever the order
\* of the entries it is given; a map bound field by field has the same
\* bytes; and the decoders of the verifier, the composer and the acceptor,
\* each under its own rules, read the same value from the same inputs and
\* refuse the others.  Digests are taken over these bytes.
CarrierIsCanonical == IsCanonical(input, Decode(input))
=============================================================================
