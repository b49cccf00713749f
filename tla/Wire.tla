-------------------------------- MODULE Wire ---------------------------------
(***************************************************************************)
(* FrameLoop and Codec together: the frames of FrameLoop as octets, the    *)
(* content of deliveries and returns, and single methods.  What a client   *)
(* writes and reads is defined here from the protocol.  Parsing and        *)
(* formatting a method keep no state, so a behaviour exchanges either      *)
(* content or one method.                                                  *)
(***************************************************************************)
EXTENDS FrameLoop, Codec

CONSTANTS Names,            \* the names in tables, in the order the client writes them
          Requests,         \* methods a client sends: [class, method, fields, flags, args]
          Replies           \* methods the broker sends: [reply, kinds, values]

VARIABLES mode,        \* "content" or "methods"
          probe        \* the last method parsed on its own: [request, cut, whole, within, parsed]
vars == <<mode, loopVars, probe>>

-----------------------------------------------------------------------------
(***************************************************************************)
(* The client (external): what a message looks like on the wire.  A value  *)
(* of a table is [tag, val].                                               *)
(***************************************************************************)
RECURSIVE ClientValue(_, _)

ClientTable(t, ord) ==
    LET names == SelectSeq(ord, LAMBDA name : name \in DOMAIN t)
    IN  FlattenSeq([i \in DOMAIN names |-> EncodeShortStr(names[i]) \o ClientValue(t[names[i]], ord)])

ClientValue(v, ord) ==
    <<v.tag>> \o CASE v.tag = 115 -> EncodeShortStr(v.val)
                   [] v.tag = 83 -> EncodeLongStr(v.val)
                   [] v.tag = 70 -> EncodeLongStr(ClientTable(v.val, ord))
                   [] v.tag = 65 -> EncodeLongStr(FlattenSeq([i \in DOMAIN v.val |-> ClientValue(v.val[i], ord)]))
                   [] OTHER -> v.val

ClientProperty(i, v, ord) ==
    IF i = Headers THEN EncodeLongStr(ClientTable(v, ord)) ELSE EncodeField(KV(PropertyKinds[i], v), ord)

HeaderPayload(props, size, ord) ==
    BigEndian(60, 2) \o BigEndian(0, 2) \o BigEndian(size, 8) \o BigEndian(FlagsOf(DOMAIN props), 2)
      \o FlattenSeq([i \in 1..14 |-> IF i \in DOMAIN props THEN ClientProperty(i, props[i], ord) ELSE <<>>])

Exchange == <<120>>

PublishPayload(m) ==
    BigEndian(60, 2) \o BigEndian(40, 2) \o BigEndian(0, 2) \o EncodeShortStr(Exchange)
      \o EncodeShortStr(m.key) \o <<IF m.mandatory THEN 1 ELSE 0>>

(* The client reads a write frame by frame. *)
RECURSIVE ClientFrames(_)
ClientFrames(octets) ==
    IF octets = <<>> THEN <<>>
    ELSE LET size == Number(SubSeq(octets, 4, 7))
         IN  <<[type |-> octets[1], payload |-> SubSeq(octets, 8, 7 + size), end |-> octets[8 + size]]>>
               \o ClientFrames(SubSeq(octets, 9 + size, Len(octets)))

-----------------------------------------------------------------------------
(* The parameters of FrameLoop, by message: the client's header, what the broker reads, and
   the content it writes: method, header and body frames. *)
HeaderOf(m) == HeaderPayload(m.props, Len(m.body), Names)

ReadPublish(m) ==
    LET content == ParseMethodFrame(PublishPayload(m)).val.content
    IN  [key |-> content.fields[3], mandatory |-> content.flags[1]]

ContentOctets(channel, frameMax, method, message, ord) ==
    FormatMethodFrame(channel, method, ord).val
      \o CreateHeaderFrame(channel, message.props, Len(message.body), ord)
      \o CreateBodyFrame(channel, frameMax, message.body)

NoRoute == <<78, 111, 32, 114, 111, 117, 116, 101>>

BasicReturnOf(channel, frameMax, message) ==
    ContentOctets(channel, frameMax, BasicReturn(312, NoRoute, Exchange, message.key), message, Names)

Orders == {ord \in [DOMAIN Names -> Range(Names)] : \A i, j \in DOMAIN Names : ord[i] = ord[j] => i = j}

BasicDeliverOf(frameMax, message) ==
    {ContentOctets(1, frameMax, BasicDeliver(<<99>>, 1, FALSE, Exchange, message.key), message, ord) : ord \in Orders}

-----------------------------------------------------------------------------
(***************************************************************************)
(* Single methods.  A request is [class, method, fields, bits, args,       *)
(* unread]: fields of the kinds the protocol gives them, flags if bits is  *)
(* not empty, a table of arguments unless args is Nothing, and octets the  *)
(* broker does not look at.                                                *)
(***************************************************************************)
FlagsOctet(bits) == <<FoldSet(LAMBDA i, n : IF bits[i] THEN n + 2^(i - 1) ELSE n, 0, DOMAIN bits)>>

ClientField(kv) == IF kv.kind = "table" THEN EncodeLongStr(ClientTable(kv.value, Names)) ELSE EncodeField(kv, Names)

(* The parts of a request's payload, in order, with these octets for the arguments. *)
PartsWith(rq, octets) ==
    <<BigEndian(rq.class, 2) \o BigEndian(rq.method, 2)>>
      \o [i \in DOMAIN rq.fields |-> ClientField(rq.fields[i])]
      \o <<IF rq.bits = <<>> THEN <<>> ELSE FlagsOctet(rq.bits),
           IF rq.args = Nothing THEN <<>> ELSE EncodeLongStr(octets), rq.unread>>

ArgumentOctets(rq) == IF rq.args = Nothing THEN <<>> ELSE ClientTable(rq.args, Names)
Parts(rq) == PartsWith(rq, ArgumentOctets(rq))

(* The broker parses a request, whole or cut off after some of its octets. *)
Request(rq, cut) ==
    /\ LET payload == FlattenSeq(Parts(rq))
       IN  /\ cut <= Len(payload)
           /\ probe' = [request |-> rq, cut |-> cut, whole |-> cut = Len(payload), within |-> FALSE,
                        parsed |-> ParseMethodFrame(SubSeq(payload, 1, cut))]
    /\ UNCHANGED <<mode, loopVars>>

(* The broker parses a request whose frame and whose table of arguments have the length they
   declare, while the table's contents are cut off after some of their octets. *)
RequestCutWithin(rq, cut) ==
    /\ cut < Len(ArgumentOctets(rq))
    /\ probe' = [request |-> rq, cut |-> cut, whole |-> FALSE, within |-> TRUE,
                 parsed |-> ParseMethodFrame(FlattenSeq(PartsWith(rq, SubSeq(ArgumentOctets(rq), 1, cut))))]
    /\ UNCHANGED <<mode, loopVars>>

ServerReplies(r) ==
    /\ \E ord \in Orders :
          wrote' = [kind |-> "reply", conn |-> Sub, from |-> r, octets |-> FormatMethodFrame(1, r.reply, ord).val]
    /\ UNCHANGED <<mode, phase, offer, negotiated, channels, channelNum, sending, fate, mixed, stalled,
                   published, probe>>

MaxCut == Max({Len(FlattenSeq(Parts(rq))) : rq \in Requests})

Init == ContentInit /\ mode \in {"content", "methods"} /\ probe = Nothing

MethodsNext ==
    \/ \E rq \in Requests, cut \in 4..MaxCut : Request(rq, cut)
    \/ \E rq \in Requests, cut \in 1..MaxCut : RequestCutWithin(rq, cut)
    \/ \E r \in Replies : ServerReplies(r)

Next ==
    \/ mode = "content" /\ ContentNext /\ UNCHANGED <<mode, probe>>
    \/ mode = "methods" /\ probe = Nothing /\ wrote = Nothing /\ MethodsNext

Spec == Init /\ [][Next]_vars

-----------------------------------------------------------------------------
(* What is left of a client's value after the broker has read and written it: strings are
   long strings, a decimal is void, a Boolean is 0 or 1. *)
RECURSIVE Normal(_)
Normal(v) ==
    CASE v.tag \in {115, 83} -> [v EXCEPT !.tag = 83]
      [] v.tag = 70 -> [v EXCEPT !.val = [name \in DOMAIN v.val |-> Normal(v.val[name])]]
      [] v.tag = 65 -> [v EXCEPT !.val = [i \in DOMAIN v.val |-> Normal(v.val[i])]]
      [] v.tag = Decimal -> [tag |-> 86, val |-> <<>>]
      [] v.tag = 116 -> [v EXCEPT !.val = IF @ = <<0>> THEN @ ELSE <<1>>]
      [] OTHER -> v

NormalProps(props) ==
    [i \in Kept(props) |-> IF i = Headers THEN [name \in DOMAIN props[i] |-> Normal(props[i][name])]
                           ELSE IF i = DeliveryMode /\ props[i] = 0 THEN 1 ELSE props[i]]

(* A consumer, and a publisher whose message comes back, reads what was published: method,
   header and body frames that end in the frame end, the properties the publisher set with
   the same values (up to Normal), and the whole body, in frames within the limit the reader
   asked for and within the server's. *)
DeliveredAsPublished ==
    (wrote # Nothing /\ ~mixed) =>
       (wrote.kind = "content" =>
           LET frames == ClientFrames(wrote.octets)
               m == Messages[wrote.from]
               asked == offer[wrote.conn].frameMax
           IN  /\ \A i \in DOMAIN frames : frames[i].end = FrameEnd
               /\ frames[1].type = 1 /\ frames[2].type = 2
               /\ \E ord \in Orders : frames[2].payload = HeaderPayload(NormalProps(m.props), Len(m.body), ord)
               /\ \A i \in 3..Len(frames) :
                     /\ frames[i].type = 3
                     /\ Fits(frames[i].payload, Tuning.frameMax)
                     /\ asked = 0 \/ Fits(frames[i].payload, asked)
               /\ FlattenSeq([i \in 1..(Len(frames) - 2) |-> frames[i + 2].payload]) = m.body)

(* Requests the least lengths of the parse functions are too long for: delete of a queue or an
   exchange with a name below two octets, connection.close with a reply text below five. *)
TooShort(rq) ==
    \/ rq.class \in {40, 50} /\ <<rq.class, rq.method>> \in {<<40, 20>>, <<50, 40>>} /\ Len(rq.fields[2].value) < 2
    \/ rq.class = 10 /\ rq.method = 50 /\ Len(rq.fields[2].value) < 5

RECURSIVE Read(_)
Read(v) ==
    [type |-> GoType[v.tag],
     val |-> CASE v.tag = 70 -> [name \in DOMAIN v.val |-> Read(v.val[name])]
               [] v.tag = 65 -> [i \in DOMAIN v.val |-> Read(v.val[i])]
               [] v.tag = 116 -> IF v.val = <<0>> THEN v.val ELSE <<1>>
               [] OTHER -> v.val]
ReadTable(t) == [name \in DOMAIN t |-> Read(t[name])]

(* A whole request is read as the client meant it (its fields, flags and arguments), or is one
   of those too short for the parser and refused. *)
RequestsUnderstood ==
    probe # Nothing =>
       (probe.whole =>
           LET rq == probe.request
               content == probe.parsed.val.content
           IN  IF TooShort(rq) THEN ~probe.parsed.ok
               ELSE /\ probe.parsed.ok
                    /\ probe.parsed.val.class = rq.class /\ probe.parsed.val.method = rq.method
                    /\ content.fields = [i \in DOMAIN rq.fields |->
                          IF rq.fields[i].kind = "table" THEN ReadTable(rq.fields[i].value) ELSE rq.fields[i].value]
                    /\ content.flags = rq.bits
                    /\ content.arguments = IF rq.args = Nothing THEN <<>> ELSE ReadTable(rq.args))

(* The cut falls inside a string or a table whose length has been read. *)
CutInside(rq, cut) ==
    LET parts == Parts(rq)
        start(i) == Len(FlattenSeq(SubSeq(parts, 1, i - 1)))
        prefix(i) == IF i = Len(parts) - 1 THEN 4
                     ELSE CASE rq.fields[i - 1].kind = "shortstr" -> 1
                            [] rq.fields[i - 1].kind \in {"longstr", "table"} -> 4
                            [] OTHER -> Len(parts[i])
    IN  {i \in (2..(Len(rq.fields) + 1)) \cup {Len(parts) - 1} :
            start(i) + prefix(i) < cut /\ cut < start(i) + Len(parts[i])}

IsLax(rq) == <<rq.class, rq.method>> \in {<<50, 20>>, <<50, 50>>}

(* The cut falls inside an entry of the table of arguments. *)
CutWithin(rq, cut) ==
    cut \notin {Len(ClientTable(rq.args, SubSeq(Names, 1, n))) : n \in 0..Len(Names)}

(* A field that declares more octets than the frame carries, or than the table it stands in
   carries, is refused by the parse functions, wherever the frame or the table is cut.  Excepted
   is the table of arguments of queue.bind and queue.unbind itself, whose cut-off by the frame
   those two do not look at (TablesRefused). *)
TruncatedRefused ==
    probe # Nothing =>
       IF probe.within THEN CutWithin(probe.request, probe.cut) => ~probe.parsed.ok
       ELSE \A i \in CutInside(probe.request, probe.cut) :
               ~(IsLax(probe.request) /\ i = Len(Parts(probe.request)) - 1) => ~probe.parsed.ok

(* The change log of the repository: "AMQP field tables, arrays and strings that declare more
   bytes than the frame carries are now rejected".  So is the table of arguments of every method;
   queue.bind and queue.unbind drop the error of DecodeLongStr and go on with no arguments. *)
TablesRefused ==
    probe # Nothing =>
       (~probe.within /\ Len(Parts(probe.request)) - 1 \in CutInside(probe.request, probe.cut) =>
           ~probe.parsed.ok)

(* Every method the broker sends is one frame that a client reads, by the kinds the protocol
   gives its fields, as the values meant, with nothing left over; the text of a close is cut to
   what fits a short string, at the end of a character. *)
RepliesReadable ==
    wrote # Nothing =>
       (wrote.kind = "reply" =>
           LET r == wrote.from
               frames == ClientFrames(wrote.octets)
               read == DecodeFields(<<"short", "short">> \o r.kinds, frames[1].payload)
           IN  /\ Len(frames) = 1
               /\ frames[1].end = FrameEnd
               /\ read.ok /\ read.rest = <<>>
               /\ read.val = r.values)
=============================================================================
