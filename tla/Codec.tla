-------------------------------- MODULE Codec --------------------------------
(***************************************************************************)
(* The octets of AMQP frames as internal/core/amqp reads and writes them:  *)
(* scalars, strings, tables and arrays (decode.go, encode.go), the layout  *)
(* of every method the broker parses and of every method it sends, and the *)
(* content properties (basic.go, framing.go).                              *)
(*                                                                         *)
(* A string is a sequence of octets.  A scalar of a table keeps the octets *)
(* it was read from: reading and writing a Go integer or float of the same *)
(* width does not change them.  A read is [ok, val, rest].                 *)
(***************************************************************************)
EXTENDS Framing, FiniteSets, FiniteSetsExt, SequencesExt, TLC

Fail == [ok |-> FALSE, val |-> <<>>, rest |-> <<>>]
Got(v, rest) == [ok |-> TRUE, val |-> v, rest |-> rest]
Then(r, Op(_, _)) == IF r.ok THEN Op(r.val, r.rest) ELSE Fail

(* Big-endian numbers, below 2^31. *)
BigEndian(n, w) == [i \in 1..w |-> IF w - i > 3 THEN 0 ELSE (n \div 256^(w - i)) % 256]
Number(s) == FoldLeft(LAMBDA n, x : 256 * n + x, 0, s)

(* Mutant: a short read is filled up with zeros. *)
PadN(buf, n) ==
    IF buf = <<>> /\ n > 0 THEN Fail
    ELSE Got([i \in 1..n |-> IF i <= Len(buf) THEN buf[i] ELSE 0], SubSeq(buf, n + 1, Len(buf)))

(* readN and sliceN: a field is never longer than what is left. *)
ReadN(buf, n) ==
    IF n > Len(buf) THEN Fail ELSE Got(SubSeq(buf, 1, n), SubSeq(buf, n + 1, Len(buf)))

Prefixed(buf, w) == Then(ReadN(buf, w), LAMBDA n, rest : ReadN(rest, Number(n)))
DecodeShortStr(buf) == Prefixed(buf, 1)
DecodeLongStr(buf) == Prefixed(buf, 4)

EncodeShortStr(s) == <<Len(s)>> \o s
EncodeLongStr(s) == BigEndian(Len(s), 4) \o s

-----------------------------------------------------------------------------
(***************************************************************************)
(* Field values: [type, val], type the Go type.  GoType is the Go type a   *)
(* tag is read as, TagOf the tag a Go type is written with: strings come   *)
(* back as long strings.  A decimal is read as an anonymous struct, which  *)
(* the encoder does not know and writes as void.                           *)
(***************************************************************************)
Width == (116 :> 1) @@ (98 :> 1) @@ (66 :> 1) @@ (85 :> 2) @@ (117 :> 2) @@ (73 :> 4) @@ (105 :> 4)
           @@ (76 :> 8) @@ (108 :> 8) @@ (102 :> 4) @@ (100 :> 8) @@ (68 :> 5) @@ (84 :> 8) @@ (86 :> 0)

GoType == (116 :> "bool") @@ (98 :> "int8") @@ (66 :> "uint8") @@ (85 :> "int16") @@ (117 :> "uint16")
            @@ (73 :> "int32") @@ (105 :> "uint32") @@ (76 :> "int64") @@ (108 :> "uint64")
            @@ (102 :> "float32") @@ (100 :> "float64") @@ (68 :> "struct") @@ (84 :> "time")
            @@ (86 :> "nil") @@ (115 :> "string") @@ (83 :> "string") @@ (70 :> "table") @@ (65 :> "array")

Decimal == 68

(* Mutant: the tags of the signed and the unsigned 16-bit integers swapped. *)
TagOfSwapped(type) ==
    CASE type = "int16" -> 117 [] type = "uint16" -> 85 [] type = "string" -> 83
      [] type = "struct" -> 86
      [] OTHER -> CHOOSE tag \in DOMAIN GoType : GoType[tag] = type

TagOf(type) ==
    CASE type = "string" -> 83
      [] type = "struct" -> 86
      [] OTHER -> CHOOSE tag \in DOMAIN GoType : GoType[tag] = type

RECURSIVE DecodeTable(_), DecodeArray(_)

DecodeValue(tag, buf) ==
    IF tag \in DOMAIN Width THEN
         Then(ReadN(buf, Width[tag]), LAMBDA v, rest :
              Got([type |-> GoType[tag],
                   val |-> IF GoType[tag] # "bool" THEN v ELSE IF v = <<0>> THEN v ELSE <<1>>], rest))
    ELSE IF tag \notin DOMAIN GoType THEN Fail
    ELSE Then(IF tag = 115 THEN DecodeShortStr(buf) ELSE DecodeLongStr(buf), LAMBDA s, rest :
              IF GoType[tag] = "string" THEN Got([type |-> "string", val |-> s], rest)
              ELSE Then(IF GoType[tag] = "table" THEN DecodeTable(s) ELSE DecodeArray(s),
                        LAMBDA v, none : Got([type |-> GoType[tag], val |-> v], rest)))

(* A name that occurs twice keeps its last value. *)
DecodeTable(data) ==
    IF data = <<>> THEN Got(<<>>, <<>>)
    ELSE Then(DecodeShortStr(data), LAMBDA name, tagged :
         IF tagged = <<>> THEN Fail
         ELSE Then(DecodeValue(Head(tagged), Tail(tagged)), LAMBDA v, others :
              Then(DecodeTable(others), LAMBDA t, none : Got(t @@ (name :> v), <<>>))))

(* An array has no decimals. *)
DecodeArray(data) ==
    IF data = <<>> THEN Got(<<>>, <<>>)
    ELSE IF Head(data) = Decimal THEN Fail
    ELSE Then(DecodeValue(Head(data), Tail(data)), LAMBDA v, others :
         Then(DecodeArray(others), LAMBDA a, none : Got(<<v>> \o a, <<>>)))

(* The encoder ranges over a Go map, in any order: ord lists all names. *)
RECURSIVE EncodeValue(_, _)

EncodeTable(t, ord) ==
    LET names == SelectSeq(ord, LAMBDA name : name \in DOMAIN t)
    IN  FlattenSeq([i \in DOMAIN names |-> EncodeShortStr(names[i]) \o EncodeValue(t[names[i]], ord)])

EncodeArray(a, ord) == FlattenSeq([i \in DOMAIN a |-> EncodeValue(a[i], ord)])

EncodeValue(v, ord) ==
    <<TagOf(v.type)>> \o
      CASE v.type = "string" -> EncodeLongStr(v.val)
        [] v.type = "table" -> EncodeLongStr(EncodeTable(v.val, ord))
        [] v.type = "array" -> EncodeLongStr(EncodeArray(v.val, ord))
        [] v.type = "struct" -> <<>>
        [] OTHER -> v.val

-----------------------------------------------------------------------------
(***************************************************************************)
(* Methods.  A layout is what a parse function asks of its payload: the    *)
(* least length, the fields before the flags, whether the first must be 0, *)
(* the number of flags (0: no flags octet), and the arguments table: it is *)
(* read when the rest is longer than after, and a table that is cut off is *)
(* refused if strict, and taken for an empty one otherwise.  The methods   *)
(* only a broker sends (start, open-ok) are parsed too, and left out.      *)
(***************************************************************************)
NoArgs == [after |-> -1, strict |-> TRUE]
ArgsAfter(n) == [after |-> n, strict |-> TRUE]
LaxArgs == [after |-> 4, strict |-> FALSE]

Layout(min, fields, zero, bits, args) ==
    [min |-> min, fields |-> fields, zero |-> zero, bits |-> bits, args |-> args]

FieldWidth == [octet |-> 1, short |-> 2, long |-> 4, longlong |-> 8, timestamp |-> 8]

DecodeField(kind, buf) ==
    CASE kind \in DOMAIN FieldWidth ->
            Then(ReadN(buf, FieldWidth[kind]), LAMBDA s, rest : Got(Number(s), rest))
      [] kind = "shortstr" -> DecodeShortStr(buf)
      [] kind = "longstr" -> DecodeLongStr(buf)
      [] kind = "table" -> Then(DecodeLongStr(buf), LAMBDA s, rest :
                           Then(DecodeTable(s), LAMBDA t, none : Got(t, rest)))

DecodeFields(kinds, buf) ==
    FoldLeft(LAMBDA acc, kind : Then(acc, LAMBDA vals, left :
                 Then(DecodeField(kind, left), LAMBDA v, rest : Got(Append(vals, v), rest))),
             Got(<<>>, buf), kinds)

(* Mutant: the first flag is the highest bit. *)
DecodeFlagsHigh(octet, n) == [i \in 1..n |-> (octet \div 2^(8 - i)) % 2 = 1]

DecodeFlags(octet, n) == [i \in 1..n |-> (octet \div 2^(i - 1)) % 2 = 1]

DecodeArguments(args, buf) ==
    IF args.after < 0 \/ Len(buf) <= args.after THEN Got(<<>>, buf)
    ELSE LET s == DecodeLongStr(buf)
         IN  IF ~s.ok /\ ~args.strict THEN Got(<<>>, <<>>)
             ELSE Then(s, LAMBDA data, rest : Then(DecodeTable(data), LAMBDA t, none : Got(t, rest)))

(* What a parse function makes of a payload: the fields, the flags, the arguments. *)
Parse(layout, payload) ==
    IF Len(payload) < layout.min THEN Fail
    ELSE Then(DecodeFields(layout.fields, payload), LAMBDA vals, tail :
         IF layout.zero /\ Head(vals) # 0 THEN Fail
         ELSE Then(IF layout.bits = 0 THEN Got(<<0>>, tail) ELSE ReadN(tail, 1), LAMBDA octet, rest :
              Then(DecodeArguments(layout.args, rest), LAMBDA t, left :
                   Got([fields |-> vals, flags |-> DecodeFlags(Head(octet), layout.bits),
                        arguments |-> t], left))))

BasicQos     == Layout(7, <<"long", "short">>, FALSE, 1, NoArgs)
BasicConsume == Layout(5, <<"short", "shortstr", "shortstr">>, FALSE, 4, ArgsAfter(3))
BasicCancel  == Layout(2, <<"shortstr">>, FALSE, 1, NoArgs)
BasicPublish == Layout(5, <<"short", "shortstr", "shortstr">>, FALSE, 2, NoArgs)
BasicGet     == Layout(0, <<"short", "shortstr">>, TRUE, 1, NoArgs)
BasicAck     == Layout(9, <<"longlong">>, FALSE, 1, NoArgs)
BasicReject  == Layout(9, <<"longlong">>, FALSE, 1, NoArgs)
BasicRecover == Layout(1, <<>>, FALSE, 1, NoArgs)
BasicNack    == Layout(9, <<"longlong">>, FALSE, 2, NoArgs)

QueueDeclare == Layout(6, <<"short", "shortstr">>, TRUE, 5, ArgsAfter(4))
QueueBind    == Layout(6, <<"short", "shortstr", "shortstr", "shortstr">>, TRUE, 1, LaxArgs)
QueueUnbind  == Layout(6, <<"short", "shortstr", "shortstr", "shortstr">>, FALSE, 0, LaxArgs)
QueuePurge   == Layout(4, <<"short", "shortstr">>, FALSE, 1, NoArgs)
QueueDelete  == Layout(6, <<"short", "shortstr">>, TRUE, 3, NoArgs)

ExchangeDeclare == Layout(6, <<"short", "shortstr", "shortstr">>, TRUE, 5, ArgsAfter(4))
ExchangeDelete  == Layout(6, <<"short", "shortstr">>, TRUE, 2, NoArgs)

(* channel.open: the content is not read. *)
ChannelOpen  == Layout(1, <<>>, FALSE, 0, NoArgs)
ChannelFlow  == Layout(1, <<>>, FALSE, 1, NoArgs)
ChannelClose == Layout(6, <<"short", "shortstr", "short", "short">>, FALSE, 0, NoArgs)

ConnectionStartOk == Layout(6, <<"table", "shortstr", "longstr", "shortstr">>, FALSE, 0, NoArgs)
ConnectionTuneOk  == Layout(6, <<"short", "long", "short">>, FALSE, 0, NoArgs)
ConnectionOpen    == Layout(1, <<"shortstr">>, FALSE, 0, NoArgs)
ConnectionClose   == Layout(12, <<"short", "shortstr", "short", "short">>, FALSE, 0, NoArgs)

(* close-ok (a client sends no content with it) and the methods of tx. *)
NoContent == Layout(0, <<>>, FALSE, 0, NoArgs)

ConnectionMethods == (11 :> ConnectionStartOk) @@ (31 :> ConnectionTuneOk) @@ (40 :> ConnectionOpen)
                       @@ (50 :> ConnectionClose) @@ (51 :> NoContent)
ChannelMethods == (10 :> ChannelOpen) @@ (20 :> ChannelFlow) @@ (21 :> ChannelFlow)
                    @@ (40 :> ChannelClose) @@ (41 :> NoContent)
ExchangeMethods == (10 :> ExchangeDeclare) @@ (20 :> ExchangeDelete)
QueueMethods == (10 :> QueueDeclare) @@ (20 :> QueueBind) @@ (30 :> QueuePurge) @@ (40 :> QueueDelete)
                  @@ (50 :> QueueUnbind)
BasicMethods == (10 :> BasicQos) @@ (20 :> BasicConsume) @@ (30 :> BasicCancel) @@ (40 :> BasicPublish)
                  @@ (70 :> BasicGet) @@ (80 :> BasicAck) @@ (90 :> BasicReject) @@ (100 :> BasicRecover)
                  @@ (110 :> BasicRecover) @@ (120 :> BasicNack)
TxMethods == (10 :> NoContent) @@ (20 :> NoContent) @@ (30 :> NoContent)

Classes == (10 :> ConnectionMethods) @@ (20 :> ChannelMethods) @@ (40 :> ExchangeMethods)
             @@ (50 :> QueueMethods) @@ (60 :> BasicMethods) @@ (90 :> TxMethods)

Plain == <<80, 76, 65, 73, 78>>

(* channel.close-ok: more than one octet is refused. *)
TooLong(id, content) == id = <<20, 41>> /\ Len(content) > 1

(* parseMethodFrame: the content of a method, or an error.  start-ok must ask for PLAIN. *)
ParseMethodFrame(payload) ==
    Then(DecodeFields(<<"short", "short">>, payload), LAMBDA id, rest :
         IF id[1] \notin DOMAIN Classes THEN Fail
         ELSE IF id[2] \notin DOMAIN Classes[id[1]] \/ TooLong(id, rest) THEN Fail
         ELSE Then(Parse(Classes[id[1]][id[2]], rest), LAMBDA content, left :
              IF id = <<10, 11>> /\ content.fields[2] # Plain THEN Fail
              ELSE Got([class |-> id[1], method |-> id[2], content |-> content], left)))

-----------------------------------------------------------------------------
(***************************************************************************)
(* The methods the broker sends: the class, the method and the fields its  *)
(* create function lists, each a kind and a value.                         *)
(***************************************************************************)
KV(kind, value) == [kind |-> kind, value |-> value]
Reply(class, method, fields) == [class |-> class, method |-> method, fields |-> fields]

(* Mutant: a long reply text is left as it is. *)
KeepCloseReplyText(text) == text

(* truncateCloseReplyText: octets 128..191 continue a rune. *)
TruncateCloseReplyText(text) ==
    IF Len(text) <= 255 THEN text
    ELSE LET end == CHOOSE n \in 0..255 :
                      /\ n = 0 \/ text[n + 1] \notin 128..191
                      /\ \A k \in (n + 1)..255 : text[k + 1] \in 128..191
         IN  SubSeq(text, 1, end)

CloseFields(code, text, class, method) ==
    <<KV("short", code), KV("shortstr", TruncateCloseReplyText(text)), KV("short", class), KV("short", method)>>

ConnectionCloseReply(code, text, class, method) == Reply(10, 50, CloseFields(code, text, class, method))
ChannelCloseReply(code, text, class, method) == Reply(20, 40, CloseFields(code, text, class, method))
ConnectionStart(properties, mechanism, locale) ==
    Reply(10, 10, <<KV("octet", 0), KV("octet", 9), KV("table", properties), KV("longstr", mechanism),
                    KV("longstr", locale)>>)
ConnectionTune(channelMax, frameMax, heartbeat) ==
    Reply(10, 30, <<KV("short", channelMax), KV("long", frameMax), KV("short", heartbeat)>>)
ConnectionOpenOk == Reply(10, 41, <<KV("octet", 0)>>)
ChannelOpenOk == Reply(20, 11, <<KV("long", 0)>>)
ChannelFlowOk(active) == Reply(20, 21, <<KV("bit", active)>>)
QueueDeclareOk(queue, messages, consumers) ==
    Reply(50, 11, <<KV("shortstr", queue), KV("long", messages), KV("long", consumers)>>)
QueueCountAck(method, messages) == Reply(50, method, <<KV("long", messages)>>)
BasicConsumeOk(tag) == Reply(60, 21, <<KV("shortstr", tag)>>)
BasicCancelSent(tag) == Reply(60, 30, <<KV("shortstr", tag), KV("bit", TRUE)>>)
BasicCancelOk(tag) == Reply(60, 31, <<KV("shortstr", tag)>>)
BasicReturn(code, text, exchange, key) ==
    Reply(60, 50, <<KV("short", code), KV("shortstr", text), KV("shortstr", exchange), KV("shortstr", key)>>)
BasicDeliver(tag, delivery, redelivered, exchange, key) ==
    Reply(60, 60, <<KV("shortstr", tag), KV("longlong", delivery), KV("bit", redelivered),
                    KV("shortstr", exchange), KV("shortstr", key)>>)
BasicGetOk(delivery, redelivered, exchange, key, messages) ==
    Reply(60, 71, <<KV("longlong", delivery), KV("bit", redelivered), KV("shortstr", exchange),
                    KV("shortstr", key), KV("long", messages)>>)
BasicGetEmpty == Reply(60, 72, <<KV("shortstr", <<>>)>>)
EmptyReply(class, method) == Reply(class, method, <<>>)

EncodeField(kv, ord) ==
    CASE kv.kind \in DOMAIN FieldWidth -> BigEndian(kv.value, FieldWidth[kv.kind])
      [] kv.kind = "bit" -> IF kv.value THEN <<1>> ELSE <<0>>
      [] kv.kind = "shortstr" -> EncodeShortStr(kv.value)
      [] kv.kind = "longstr" -> EncodeLongStr(kv.value)
      [] kv.kind = "table" -> EncodeLongStr(EncodeTable(kv.value, ord))

(* formatMethodPayload: a short string of more than 255 octets is an error. *)
FormatMethodPayload(fields, ord) ==
    IF \E i \in DOMAIN fields : fields[i].kind = "shortstr" /\ Len(fields[i].value) > 255 THEN Fail
    ELSE Got(FlattenSeq([i \in DOMAIN fields |-> EncodeField(fields[i], ord)]), <<>>)

FormatFrame(type, channel, payload) ==
    <<type>> \o BigEndian(channel, 2) \o BigEndian(Len(payload), 4) \o payload \o <<FrameEnd>>

(* FormatMethodFrame *)
FormatMethodFrame(channel, reply, ord) ==
    Then(FormatMethodPayload(reply.fields, ord), LAMBDA payload, none :
         Got(FormatFrame(1, channel, BigEndian(reply.class, 2) \o BigEndian(reply.method, 2) \o payload), <<>>))

-----------------------------------------------------------------------------
(***************************************************************************)
(* Content: the header with its properties, and the body.                  *)
(***************************************************************************)
DecodeBasicHeaderFlags(short) ==
    SelectSeq([i \in 1..Len(PropertyKinds) |-> i], LAMBDA i : (short \div 2^(16 - i)) % 2 = 1)

(* createContentPropertiesTable: delivery mode 0 is read as 1. *)
CreateContentPropertiesTable(flags, buf) ==
    FoldLeft(LAMBDA acc, i : Then(acc, LAMBDA props, left :
                 Then(DecodeField(PropertyKinds[i], left), LAMBDA v, rest :
                      IF (i = DeliveryMode /\ v > 2) \/ (i = Priority /\ v > 9) THEN Fail
                      ELSE IF i = DeliveryMode /\ v = 0 THEN Got(props @@ (i :> 1), rest)
                      ELSE IF IsZero(i, v) THEN Got(props, rest)
                      ELSE Got(props @@ (i :> v), rest))),
             Got(<<>>, buf), flags)

(* parseHeaderFrame and parseBasicHeader *)
ParseBasicHeader(payload) ==
    Then(DecodeFields(<<"short", "short", "longlong", "short">>, payload), LAMBDA head, rest :
         IF head[1] # 60 \/ head[2] # 0 THEN Fail
         ELSE Then(CreateContentPropertiesTable(DecodeBasicHeaderFlags(head[4]), rest), LAMBDA props, left :
              Got([size |-> head[3], props |-> props], left)))

FlagsOf(present) == FoldSet(LAMBDA i, n : n + 2^(16 - i), 0, present)

EncodeBasicProperties(props, ord) ==
    LET order == SelectSeq([i \in 1..Len(PropertyKinds) |-> i], LAMBDA i : i \in DOMAIN props)
    IN  FlattenSeq([n \in DOMAIN order |-> EncodeField(KV(PropertyKinds[order[n]], props[order[n]]), ord)])

CreateHeaderFrame(channel, props, size, ord) ==
    FormatFrame(2, channel, BigEndian(60, 2) \o BigEndian(0, 2) \o BigEndian(size, 8)
                              \o BigEndian(FlagsOf(DOMAIN props), 2) \o EncodeBasicProperties(props, ord))

CreateBodyFrame(channel, frameMax, body) ==
    LET chunk == IF frameMax > FrameOverhead /\ frameMax - FrameOverhead < Len(body)
                 THEN frameMax - FrameOverhead ELSE Len(body)
    IN  IF chunk = 0 THEN FormatFrame(3, channel, <<>>)
        ELSE FlattenSeq([n \in 1..((Len(body) + chunk - 1) \div chunk) |->
                 FormatFrame(3, channel, SubSeq(body, (n - 1) * chunk + 1,
                     IF n * chunk < Len(body) THEN n * chunk ELSE Len(body)))])
=============================================================================
