--------------------------------- MODULE Codecs ---------------------------------
(* The encodings of internal/protocol/bytes.go and ilink.go: varints, protobuf *)
(* fields, the head of a packet, LZ4, and the packet of mmtls_protocol.go.     *)
(* Bytes are numbers; a position is one more than the code's index.            *)
EXTENDS Integers, Sequences, SequencesExt

CONSTANTS
    Group,      \* bits of a number in a varint byte: 7 in the code
    Word,       \* bits of an integer: 64 in the code
    Fields,     \* numbers of fields in messages
    MaxFields,  \* fields in a message
    HeadFields, \* numbers of fields in heads
    Values,     \* integers
    Strings,    \* byte strings
    Headers,    \* the twelve bytes between the length of a packet and its body
    Texts,      \* LZ4: literals before a match
    Offsets,    \* LZ4: where a match begins, back from where it is written
    Lengths     \* LZ4: lengths of a match

VARIABLE input  \* what is encoded and read back

Pow2[n \in 0 .. Word] == IF n = 0 THEN 1 ELSE 2 * Pow2[n - 1]
More == Pow2[Group]
Limit == Pow2[Word]
Byte == 256
Full == Byte - 1
MaxBytes == Word \div Group + 1

(* The longest varint ends with a byte of one bit, as 64 = 9 * 7 + 1.          *)
ASSUME WidthsAssumption ==
    Group \in Nat /\ Group > 3 /\ Word \in Nat /\ Word > Group /\ Word % Group = 1

(* Tags of messages are single bytes (bytes.go:44).                            *)
ASSUME FieldsAssumption == Fields \subseteq Nat /\ \A f \in Fields : 8 * f + 7 < More

ASSUME InputsAssumption ==
    /\ MaxFields \in Nat
    /\ HeadFields \subseteq 1 .. Pow2[Word - 1] - 1
    /\ Values \subseteq 0 .. Limit - 1
    /\ \A s \in Strings \cup Texts : s \in Seq(Nat)
    /\ \A s \in Strings : Len(s) < Pow2[Word - 1]
    /\ \A h \in Headers : h \in Seq(Nat) /\ Len(h) = 12

(* A match is at least four bytes long; its offset is two bytes.               *)
ASSUME MatchesAssumption ==
    Offsets \subseteq 0 .. Byte * Byte - 1 /\ Lengths \subseteq Nat /\ \A n \in Lengths : n >= 4

Signed(n) == LET m == n % Limit IN IF m < Pow2[Word - 1] THEN m ELSE m - Limit

Error == [ok |-> FALSE, panic |-> FALSE, last |-> TRUE]
Panic == [ok |-> FALSE, panic |-> TRUE, last |-> TRUE]

(* A loop over data: the elements from i to the last one, when each says where *)
(* the next one begins.                                                        *)
Chain(elements, i) ==
    LET from[j \in DOMAIN elements] ==
            LET e == elements[j]
            IN  <<e>> \o (IF e.last THEN <<>> ELSE from[e.next])
    IN  from[i]

--------------------------------------------------------------------------------
Varint[n \in 0 .. Limit - 1] ==
    IF n < More THEN <<n>> ELSE <<(n % More) + More>> \o Varint[n \div More]

(* Up to the first byte without the continuation bit, if it comes in time.     *)
ReadVarint(data, i) ==
    LET from[j \in i .. i + MaxBytes] ==
            IF j > Len(data) \/ j = i + MaxBytes THEN Error
            ELSE IF data[j] < More THEN [ok |-> TRUE, n |-> data[j], next |-> j + 1]
            ELSE LET rest == from[j + 1]
                 IN  IF rest.ok
                     THEN [ok |-> TRUE, n |-> (rest.n * More + (data[j] % More)) % Limit, next |-> rest.next]
                     ELSE rest
    IN  from[i]

(* A field's tag is one byte, whatever its number.                             *)
Tag(field, type) == <<(field * 8 + type) % (2 * More)>>
PbVar(field, n) == Tag(field, 0) \o Varint[n]
PbLen(field, bytes) == Tag(field, 2) \o Varint[Len(bytes)] \o bytes

(* data[i:i+int(ln)] where i+int(ln) is not beyond the end: the sum is signed. *)
Slice(data, i, ln) ==
    LET end == Signed(i - 1 + Signed(ln)) + 1
    IN  IF end - 1 > Len(data) THEN Error
        ELSE IF end < i THEN Panic
        ELSE [ok |-> TRUE, value |-> SubSeq(data, i, end - 1), next |-> end]

FaultyItemOf(tag, arg, bytes) ==
    LET with(value, next) ==
            [ok |-> TRUE, last |-> FALSE, field |-> tag.n \div 8, value |-> value, next |-> next]
    IN  IF ~tag.ok THEN Error
        ELSE IF ~arg.ok THEN Error
        ELSE IF tag.n % 8 = 0 THEN with(Signed(arg.n), arg.next)
        ELSE IF bytes.ok THEN with(bytes.value, bytes.next)
        ELSE with(<<>>, arg.next)

(* What a turn of pbParse makes of a tag, the number behind it and the bytes   *)
(* that this number measures: a number, a byte string, or the end.             *)
ItemOf(tag, arg, bytes) ==
    LET with(value, next) ==
            [ok |-> TRUE, last |-> FALSE, field |-> tag.n \div 8, value |-> value, next |-> next]
    IN  IF ~tag.ok THEN Error
        ELSE IF tag.n % 8 \notin {0, 2} \/ ~arg.ok THEN Error
        ELSE IF tag.n % 8 = 0 THEN with(Signed(arg.n), arg.next)
        ELSE IF bytes.ok THEN with(bytes.value, bytes.next)
        ELSE bytes

Item(data, i) ==
    LET tag == ReadVarint(data, i)
        arg == ReadVarint(data, tag.next)
    IN  ItemOf(tag, arg, Slice(data, arg.next, arg.n))

(* The value of a field is the last one.                                       *)
LastValues(items) ==
    [f \in {items[k].field : k \in DOMAIN items} |->
        items[Max({k \in DOMAIN items : items[k].field = f})].value]

(* The loop ends at the end of the data, as at a tag that is cut.              *)
Items(data) == Chain([i \in 1 .. Len(data) + 1 |-> Item(data, i)], 1)

PbParse(data) ==
    LET items == Items(data)
    IN  [panic |-> Last(items).panic, fields |-> LastValues(Front(items))]

--------------------------------------------------------------------------------
(* The head of a packet: numbers, byte strings, each list in the order of its  *)
(* fields and closed by a zero, and the length of all that.                    *)
Entries(encoded) ==
    FlattenSeq([f \in 1 .. Max(DOMAIN encoded \cup {0}) |->
                   IF f \in DOMAIN encoded THEN Varint[f] \o encoded[f] ELSE <<>>])
EncodedInts(ints) == Entries([f \in DOMAIN ints |-> Varint[ints[f]]])
EncodedByts(byts) == Entries([f \in DOMAIN byts |-> Varint[Len(byts[f])] \o byts[f]])

FaultyWpkgHead(ints, byts) ==
    LET prefix == Varint[1] \o EncodedInts(ints) \o EncodedByts(byts)
    IN  prefix \o <<0>> \o Varint[Len(prefix) + 1]

WpkgPrefix(ints, byts) == Varint[1] \o EncodedInts(ints) \o Varint[0] \o EncodedByts(byts)

WpkgHead(ints, byts) == WpkgPrefix(ints, byts) \o <<0>> \o Varint[Len(WpkgPrefix(ints, byts)) + 1]

(* A turn of the loops of decodeWpkgHead: a field, and its number or bytes.    *)
EntryOf(field, arg, bytes, strings) ==
    LET with(value, next) ==
            [ok |-> TRUE, last |-> FALSE, field |-> field.n, value |-> value, next |-> next]
    IN  IF ~field.ok THEN Error
        ELSE IF field.n = 0 THEN [ok |-> TRUE, last |-> TRUE, next |-> field.next]
        ELSE IF ~arg.ok THEN Error
        ELSE IF ~strings THEN with(arg.n, arg.next)
        ELSE IF ~bytes.ok THEN bytes
        ELSE with(bytes.value, bytes.next)

Entry(data, i, strings) ==
    LET field == ReadVarint(data, i)
        arg == ReadVarint(data, field.next)
    IN  EntryOf(field, arg, Slice(data, arg.next, arg.n), strings)

ReadEntries(data, i, strings) ==
    Chain([j \in 1 .. Len(data) + 1 |-> Entry(data, j, strings)], i)

HeadOf(version, ints, byts, length) ==
    IF ~version.ok THEN Error
    ELSE IF ~Last(ints).ok THEN Last(ints)
    ELSE IF ~Last(byts).ok THEN Last(byts)
    ELSE IF ~length.ok THEN Error
    ELSE [ok |-> TRUE, ints |-> LastValues(Front(ints)), byts |-> LastValues(Front(byts)),
          hlen |-> length.next - 1]

DecodeWpkgHead(data) ==
    LET version == ReadVarint(data, 1)
        ints == ReadEntries(data, version.next, FALSE)
        byts == ReadEntries(data, Last(ints).next, TRUE)
    IN  HeadOf(version, ints, byts, ReadVarint(data, Last(byts).next))

(* The packet: its length in four bytes, twelve more of header, the body.      *)
BuildShortlink(header, body) ==
    LET total == 16 + Len(body)
    IN  <<(total \div (Byte * Byte * Byte)) % Byte, (total \div (Byte * Byte)) % Byte,
          (total \div Byte) % Byte, total % Byte>> \o header \o body

ParseShortlink(pkt) ==
    LET total == ((pkt[1] * Byte + pkt[2]) * Byte + pkt[3]) * Byte + pkt[4]
    IN  IF Len(pkt) < 16 THEN Error
        ELSE IF total > Len(pkt) THEN Error
        ELSE IF total < 16 THEN Panic
        ELSE [ok |-> TRUE, header |-> SubSeq(pkt, 5, 16), body |-> SubSeq(pkt, 17, total)]

--------------------------------------------------------------------------------
(* LZ4: a length that does not fit its four bits goes on in bytes of 255.      *)
LengthRest(n) == [k \in 1 .. n \div Full |-> Full] \o <<n % Full>>

Lz4AllLiteral(data) ==
    IF Len(data) < 15 THEN <<Len(data) * 16>> \o data
    ELSE <<15 * 16>> \o LengthRest(Len(data) - 15) \o data

ReadLength(data, i, nibble, least) ==
    LET last == {j \in i .. Len(data) : data[j] # Full}
    IN  IF nibble < 15 THEN [ok |-> TRUE, n |-> least + nibble, next |-> i]
        ELSE IF last = {} THEN Error
        ELSE [ok |-> TRUE, n |-> least + 15 + Full * (Min(last) - i) + data[Min(last)], next |-> Min(last) + 1]

(* A turn of lz4Decompress: literals, and a match unless the input ends there. *)
Lz4Block(data, i) ==
    LET lit == ReadLength(data, i + 1, data[i] \div 16, 0)
        at == lit.next + lit.n
        match == ReadLength(data, at + 2, data[i] % 16, 4)
        literals == SubSeq(data, lit.next, at - 1)
    IN  IF i > Len(data) THEN [ok |-> TRUE, last |-> TRUE, lit |-> <<>>]
        ELSE IF ~lit.ok THEN Error
        ELSE IF at - 1 > Len(data) THEN Error
        ELSE IF at > Len(data) THEN [ok |-> TRUE, last |-> TRUE, lit |-> literals]
        ELSE IF at + 1 > Len(data) THEN Error
        ELSE IF ~match.ok THEN Error
        ELSE [ok |-> TRUE, last |-> FALSE, lit |-> literals, off |-> data[at] + Byte * data[at + 1],
              len |-> match.n, next |-> match.next]

FaultyCopied(out, off, len) == out \o [j \in 1 .. len |-> out[Len(out) - off + 1]]

(* The match is copied byte by byte: it may reach into what it writes.         *)
Copied(out, off, len) == out \o [j \in 1 .. len |-> out[Len(out) - off + 1 + ((j - 1) % off)]]

(* The output after another block: an offset of 0, or one beyond the output,   *)
(* is an error.                                                                *)
Lz4Written(before, block) ==
    LET written == before.out \o block.lit
    IN  IF ~before.ok \/ ~block.ok THEN Error
        ELSE IF block.last THEN [ok |-> TRUE, out |-> written]
        ELSE IF block.off \notin 1 .. Len(written) THEN Error
        ELSE [ok |-> TRUE, out |-> Copied(written, block.off, block.len)]

Lz4Decompress(data) ==
    LET blocks == Chain([i \in 1 .. Len(data) + 1 |-> Lz4Block(data, i)], 1)
        after[k \in 0 .. Len(blocks)] ==
            IF k = 0 THEN [ok |-> TRUE, out |-> <<>>] ELSE Lz4Written(after[k - 1], blocks[k])
    IN  after[Len(blocks)]

--------------------------------------------------------------------------------
(* What is encoded: a number, a message of some fields, the head of a packet,  *)
(* a packet, and compressed data with one match.                               *)
Field == [field : Fields, type : {"var"}, value : Values]
         \cup [field : Fields, type : {"len"}, value : Strings]
Maps(keys, values) == UNION {[S -> values] : S \in SUBSET keys}

CodecsInit ==
    \/ input \in [kind : {"number"}, n : 0 .. Limit - 1]
    \/ input \in [kind : {"message"}, fields : BoundedSeq(Field, MaxFields)]
    \/ input \in [kind : {"head"}, ints : Maps(HeadFields, Values), byts : Maps(HeadFields, Strings)]
    \/ input \in [kind : {"packet"}, header : Headers, body : Strings]
    \/ input \in [kind : {"lz4"}, first : Texts, off : Offsets, len : Lengths, second : Strings]

CodecsSpec == CodecsInit /\ [][UNCHANGED input]_input

(* Lengths are signed integers: no slice is longer.                            *)
Held(data) == Len(data) < Pow2[Word - 1]

FieldBytes(f) == IF f.type = "var" THEN PbVar(f.field, f.value) ELSE PbLen(f.field, f.value)
Meant(f) == IF f.type = "var" THEN Signed(f.value) ELSE f.value
Message(fields) == FlattenSeq([n \in DOMAIN fields |-> FieldBytes(fields[n])])

(* Every number is read back, from wherever it stands.  A message that is cut  *)
(* anywhere has the fields that came whole, and no other values; of a field    *)
(* that comes twice, the last (bytes.go:10-91).                                *)
MessagesAreRead ==
    /\ input.kind = "number" =>
          \A before, after \in Strings :
              ReadVarint(before \o Varint[input.n] \o after, Len(before) + 1)
                  = [ok |-> TRUE, n |-> input.n, next |-> Len(before) + Len(Varint[input.n]) + 1]
    /\ input.kind = "message" =>
          LET fields == input.fields
              data == Message(fields)
          IN  Held(data) =>
              \A k \in 0 .. Len(data) :
                  LET whole == {n \in DOMAIN fields : Len(Message(SubSeq(fields, 1, n))) <= k}
                      read == PbParse(SubSeq(data, 1, k))
                  IN  /\ ~read.panic
                      /\ DOMAIN read.fields = {fields[n].field : n \in whole}
                      /\ \A n \in whole :
                            (\A m \in whole : m > n => fields[m].field # fields[n].field) =>
                                read.fields[fields[n].field] = Meant(fields[n])

(* What follows a head or a packet begins where the reader says, and nothing   *)
(* of a head or a packet that is cut is taken for one (ilink.go:118-145,       *)
(* 214-265, mmtls_protocol.go:280-320).                                        *)
PacketsAreRead ==
    /\ input.kind = "head" =>
          LET head == WpkgHead(input.ints, input.byts)
          IN  Held(WpkgPrefix(input.ints, input.byts)) =>
              /\ \A body \in Strings :
                    Held(head \o body) =>
                        DecodeWpkgHead(head \o body) =
                            [ok |-> TRUE, ints |-> input.ints, byts |-> input.byts, hlen |-> Len(head)]
              /\ Held(head) => \A k \in 0 .. Len(head) - 1 : ~DecodeWpkgHead(SubSeq(head, 1, k)).ok
    /\ input.kind = "packet" =>
          LET pkt == BuildShortlink(input.header, input.body)
          IN  Len(pkt) \div (Byte * Byte * Byte) < Byte =>
              /\ \A after \in Strings :
                    ParseShortlink(pkt \o after) =
                        [ok |-> TRUE, header |-> input.header, body |-> input.body]
              /\ \A k \in 0 .. Len(pkt) - 1 : ParseShortlink(SubSeq(pkt, 1, k)) = Error

(* LZ4 as its format defines it, without a decoder: literals stand where they  *)
(* fall, and a byte of a match equals the one its offset before it; also when  *)
(* a match overlaps what it writes, and at the lengths where another byte of   *)
(* 255 is needed (bytes.go:163-231).                                           *)
Nibble(n) == IF n < 15 THEN n ELSE 15
Further(n) == IF n < 15 THEN <<>> ELSE LengthRest(n - 15)
Compressed(first, off, len, second) ==
    <<Nibble(Len(first)) * 16 + Nibble(len - 4)>> \o Further(Len(first)) \o first
    \o <<off % Byte, off \div Byte>> \o Further(len - 4) \o Lz4AllLiteral(second)

Lz4IsExact ==
    input.kind = "lz4" =>
        LET n == Len(input.first)
            len == input.len
            r == Lz4Decompress(Compressed(input.first, input.off, len, input.second))
        IN  /\ Lz4Decompress(Lz4AllLiteral(input.first)) = [ok |-> TRUE, out |-> input.first]
            /\ r.ok = (input.off \in 1 .. n)
            /\ r.ok => /\ Len(r.out) = n + len + Len(input.second)
                       /\ SubSeq(r.out, 1, n) = input.first
                       /\ \A p \in n + 1 .. n + len : r.out[p] = r.out[p - input.off]
                       /\ SubSeq(r.out, n + len + 1, Len(r.out)) = input.second
================================================================================
