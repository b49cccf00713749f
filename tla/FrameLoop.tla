------------------------------ MODULE FrameLoop ------------------------------
(***************************************************************************)
(* The broker's end of a connection once it is open: the limits negotiated *)
(* in connection.tune-ok (tuning.go), the frame loop and the assembly of a *)
(* publish from its method, header and body frames (broker/connection.go,  *)
(* broker/basic.go), the channels of a connection (broker/channel.go), and *)
(* when the content of deliveries and returns is written.                  *)
(*                                                                         *)
(* The publisher Pub and the subscriber Sub are connections of their own.  *)
(* A frame the publisher sends is served at once: the frame loop is the    *)
(* only reader, and what the client does not know yet is kept by letting   *)
(* it go on sending after the broker has closed a channel or a connection. *)
(* How a method, a header and a delivery look in octets is left to the     *)
(* parameters, which Wire defines with Codec.                              *)
(***************************************************************************)
EXTENDS Framing, FiniteSets

CONSTANTS Pub, Sub,
          Server,           \* the configured limits [channelMax, frameMax, heartbeat]
          FrameMinSize,     \* FRAME_MIN_SIZE, 4096 in the code
          DefaultFrameMax,  \* DEFAULT_FRAME_MAX, 131072 in the code
          TuneOks,          \* the limits a client may answer with
          Channels,         \* the channel numbers the publisher tries
          Messages,         \* [message -> [mandatory, key, props, body]]
          Nothing,
          MaxStarted,       \* bound on the messages the publisher starts
          ClientHeader(_),         \* the payload of a message's header frame
          ParsePublish(_),         \* what is read of its method frame: [key, mandatory]
          ParseHeader(_),          \* what is read of a header payload: [ok, val : [size, props]]
          ReturnOctets(_, _, _),   \* basic.return, by channel, frame-max and message
          DeliverOctets(_, _)      \* what a delivery may look like, by frame-max and message

VARIABLES phase,       \* [connection -> "tuning", "serving", "told", "closing" or "closed"]
          offer,       \* [connection -> the client's tune-ok]
          negotiated,  \* [connection -> client.Negotiated]
          channels,    \* connInfo.Channels of Pub: [open channel -> ChannelState]
          channelNum,  \* the frame loop's channel
          sending,     \* [channel -> the message the client is sending, its frames left, or Nothing]
          fate,        \* [message -> what became of it]
          mixed,       \* a method went out on a channel while another was sending content
          stalled,     \* channels that carried an empty body since they were opened
          published,   \* the messages handed to the vhost, not yet delivered
          wrote        \* the last write: [kind, conn, octets, from]
loopVars == <<phase, offer, negotiated, channels, channelNum, sending, fate, mixed, stalled, published, wrote>>

Peers == {Pub, Sub}
MaxUint16 == 65535
Limits == [channelMax : 0..MaxUint16, frameMax : Nat, heartbeat : Nat]

-----------------------------------------------------------------------------
(* Limits: NewServerTuning, getSmalestShortInt, Negotiate. *)

NewServerTuning(s) ==
    [s EXCEPT !.frameMax = IF @ = 0 THEN DefaultFrameMax ELSE IF @ < FrameMinSize THEN FrameMinSize ELSE @]

Tuning == NewServerTuning(Server)

NoLimit(n) == IF n = 0 THEN MaxUint16 ELSE n

GetSmalestShortInt(a, b) == IF NoLimit(a) < NoLimit(b) THEN NoLimit(a) ELSE NoLimit(b)

Refused == [channelMax |-> 0, frameMax |-> 0, heartbeat |-> 0]

(* Mutant: the server's heartbeat wins. *)
NegotiateServer(t) ==
    [channelMax |-> GetSmalestShortInt(Tuning.channelMax, t.channelMax),
     frameMax |-> Tuning.frameMax, heartbeat |-> Tuning.heartbeat]

Negotiate(t) ==
    LET frameMax == IF t.frameMax = 0 THEN Tuning.frameMax ELSE t.frameMax
    IN  IF frameMax < FrameMinSize \/ frameMax > Tuning.frameMax THEN Refused
        ELSE [channelMax |-> GetSmalestShortInt(Tuning.channelMax, t.channelMax),
              frameMax |-> frameMax,
              heartbeat |-> IF Tuning.heartbeat # 0 /\ t.heartbeat > Tuning.heartbeat
                            THEN Tuning.heartbeat ELSE t.heartbeat]

(* heartbeatSendInterval, in half seconds. *)
HeartbeatSendInterval(heartbeat) == IF heartbeat < 2 THEN 2 ELSE heartbeat

(* tune-ok: the server serves the client, or closes the connection with 530.  (The
   subscriber's limits matter once there is a message for it: it connects then.) *)
TuneOk(c) ==
    /\ phase[c] = "tuning" /\ (c = Sub => published # <<>>)
    /\ \E t \in TuneOks :
          /\ offer' = [offer EXCEPT ![c] = t]
          /\ negotiated' = [negotiated EXCEPT ![c] = Negotiate(t)]
          /\ phase' = [phase EXCEPT ![c] = IF Negotiate(t) = Refused THEN "closed" ELSE "serving"]
    /\ UNCHANGED <<channels, channelNum, sending, fate, mixed, stalled, published, wrote>>

-----------------------------------------------------------------------------
(***************************************************************************)
(* The client (external): the frames it sends.                             *)
(***************************************************************************)
FrameMaxes == {Negotiate(t).frameMax : t \in {u \in TuneOks : Negotiate(u) # Refused}} \cup {Tuning.frameMax}

(* A body that is longer than a frame is split; an empty one has no frame. *)
BodyChunks(body, room) ==
    [n \in 1..((Len(body) + room - 1) \div room) |->
        SubSeq(body, (n - 1) * room + 1, IF n * room < Len(body) THEN n * room ELSE Len(body))]

(* The frames of a message after its method, as types and payloads, for every limit. *)
ContentFrames(m, frameMax) ==
    LET chunks == BodyChunks(m.body, frameMax - FrameOverhead)
    IN  <<[type |-> 2, payload |-> ClientHeader(m)]>>
          \o [n \in DOMAIN chunks |-> [type |-> 3, payload |-> chunks[n]]]

Frames == [x \in (DOMAIN Messages) \X FrameMaxes |-> ContentFrames(Messages[x[1]], x[2])]

Fits(payload, frameMax) == Len(payload) + FrameOverhead <= frameMax

(* The codec tells the broker what the client meant: Codec does, and TLC evaluates it there. *)
ASSUME CodecAssumption ==
    \A m \in DOMAIN Messages :
        /\ ParsePublish(Messages[m]).key = Messages[m].key
        /\ LET read == ParseHeader(ClientHeader(Messages[m]))
           IN  read.ok => /\ read.val.size = Len(Messages[m].body)
                          /\ DOMAIN read.val.props = Kept(Messages[m].props)
                          /\ read.val.props # Nothing
ASSUME FrameLoopAssumption ==
    /\ Pub # Sub
    /\ FrameMinSize \in Nat /\ FrameMinSize > FrameOverhead
    /\ DefaultFrameMax \in Nat /\ DefaultFrameMax >= FrameMinSize
    /\ Server \in Limits /\ TuneOks \subseteq Limits
    /\ Channels \subseteq Nat /\ MaxStarted \in Nat
    /\ \A m \in DOMAIN Messages : Messages[m].body \in Seq(0..255)
    /\ \A m \in DOMAIN Messages, max \in FrameMaxes : \A n \in DOMAIN Frames[<<m, max>>] :
          /\ Frames[<<m, max>>][n].payload # Nothing
          /\ [msg |-> m, next |-> n, max |-> max] # Nothing

-----------------------------------------------------------------------------
(***************************************************************************)
(* The channels of the publisher's connection and the frame loop.  A       *)
(* ChannelState has its last method, the header and the body received for  *)
(* it, and ClosingChannel.  phase "told" is a connection.close written     *)
(* without ClosingConnection, "closing" one with it.                       *)
(***************************************************************************)
NoMethod == [kind |-> "none", key |-> <<>>, mandatory |-> FALSE]
ChannelState(method) == [method |-> method, header |-> Nothing, size |-> 0, body |-> Nothing, closing |-> FALSE]

(* A client that has not read connection.close goes on sending; once ClosingConnection is
   set processRequest ignores all of it, so only the client's close-ok is left. *)
Calling == phase[Pub] \in {"serving", "told"}
Ignored(ch) == ch \in DOMAIN channels /\ channels[ch].closing
Become(p) == phase' = [phase EXCEPT ![Pub] = p]

(* The messages given up when the client stops sending on some channels. *)
GivenUp(on) ==
    fate' = [m \in DOMAIN fate |-> IF fate[m].on \in on /\ fate[m].at \in {"sending", "sent"}
                                   THEN [fate[m] EXCEPT !.at = "done"] ELSE fate[m]]

(* The socket is closed and cleanupConnection forgets the connection. *)
Closed ==
    /\ Become("closed")
    /\ channels' = <<>> /\ channelNum' = 0
    /\ sending' = [ch \in Channels |-> Nothing]
    /\ stalled' = {}
    /\ GivenUp(Channels)
    /\ wrote' = Nothing
    /\ UNCHANGED published

(* A method frame moves the loop to its channel. *)
MethodOn(ch) ==
    /\ channelNum' = ch
    /\ mixed' = (mixed \/ \E other \in Channels \ {ch} : sending[other] # Nothing)
    /\ wrote' = Nothing

ClientOpen(ch) ==
    /\ Calling /\ sending[ch] = Nothing
    /\ MethodOn(ch)
    /\ IF Ignored(ch) THEN UNCHANGED <<channels, phase>>
       ELSE IF ch = 0 \/ ch > negotiated[Pub].channelMax \/ ch \in DOMAIN channels
       THEN Become("closing") /\ UNCHANGED channels
       ELSE /\ channels' = [c \in DOMAIN channels \cup {ch} |->
                               IF c = ch THEN ChannelState([NoMethod EXCEPT !.kind = "open"]) ELSE channels[c]]
            /\ UNCHANGED phase
    /\ UNCHANGED <<offer, negotiated, sending, fate, stalled, published>>

(* basic.publish: the method is kept until its content has arrived.  A client may
   split the content by its own limit or, wrongly, by the server's. *)
ClientPublish(ch, m) ==
    /\ Calling /\ sending[ch] = Nothing /\ ch \in DOMAIN channels
    /\ fate[m].at = "unsent" /\ Cardinality({n \in DOMAIN Messages : fate[n].at # "unsent"}) < MaxStarted
    /\ Fits(Frames[<<m, negotiated[Pub].frameMax>>][1].payload, negotiated[Pub].frameMax)
    /\ MethodOn(ch)
    /\ \E max \in {negotiated[Pub].frameMax, Tuning.frameMax} :
          sending' = [sending EXCEPT ![ch] = [msg |-> m, next |-> 1, max |-> max]]
    /\ fate' = [fate EXCEPT ![m] = [at |-> "sending", on |-> ch]]
    /\ channels' = IF Ignored(ch) THEN channels
                   ELSE [channels EXCEPT ![ch].method = [kind |-> "publish", key |-> ParsePublish(Messages[m]).key,
                                                         mandatory |-> ParsePublish(Messages[m]).mandatory]]
    /\ UNCHANGED <<phase, offer, negotiated, stalled, published>>

(* Mutant: the size announced by the header is not stored. *)
StoreHeaderOnly(st, header) == [st EXCEPT !.header = header.props]

StoreHeader(st, header) == [st EXCEPT !.header = header.props, !.size = header.size]

(* Mutant: the next publish finds the header of the last one. *)
ResetMethod(st) == [st EXCEPT !.method = NoMethod, !.body = Nothing]

(* resetChannelState *)
Reset(st) == ChannelState(NoMethod)

Complete(st) == st.header # Nothing /\ st.size > 0 /\ st.body # Nothing

(* basic.return and the content of a delivery, as octets. *)
Content(c, message, octets) == [kind |-> "content", conn |-> c, from |-> message.from, octets |-> octets]

(* What a complete publish comes to: routed; no route; kept for a transaction (module Tx);
   no such exchange, a channel error that leaves the state as it is; another error. *)
Outcomes == {"routed", "unroutable", "buffered", "missing", "error"}

Publish(ch, st, m) ==
    LET message == [from |-> m, key |-> st.method.key, props |-> st.header, body |-> st.body]
    IN  \E outcome \in Outcomes :
          /\ fate' = [fate EXCEPT ![m].at = "done"]
          /\ channels' = [channels EXCEPT ![ch] = CASE outcome = "missing" -> [st EXCEPT !.closing = TRUE]
                                                     [] outcome = "error" -> st
                                                     [] OTHER -> Reset(st)]
          /\ published' = IF outcome = "routed" THEN Append(published, message) ELSE published
          /\ IF outcome = "error" THEN Become("closing") ELSE UNCHANGED phase
          /\ wrote' = IF outcome = "unroutable" /\ st.method.mandatory
                      THEN Content(Pub, message, ReturnOctets(ch, negotiated[Pub].frameMax, message))
                      ELSE Nothing

(* basicPublishHandler, for a content frame of message m that the loop takes for channel ch. *)
BasicPublishHandler(ch, frame, m, undecided) ==
    LET st == channels[ch]
        header == frame.type = 2 /\ st.header = Nothing
        next == IF header THEN StoreHeader(st, ParseHeader(frame.payload).val)
                ELSE IF frame.type = 3 /\ st.body = Nothing THEN [st EXCEPT !.body = frame.payload]
                ELSE st
    IN  IF header \/ ~Complete(next)
        THEN /\ channels' = [channels EXCEPT ![ch] = next]
             /\ fate' = undecided
             /\ wrote' = Nothing
             /\ UNCHANGED <<phase, published>>
        ELSE IF Len(next.body) # next.size
        THEN /\ channels' = [channels EXCEPT ![ch] = next]
             /\ Become("told")
             /\ fate' = undecided
             /\ wrote' = Nothing
             /\ UNCHANGED published
        ELSE Publish(ch, next, m)

(* A header or body frame.  The loop looks the method up on the channel of the last
   method frame. *)
ClientContent(ch) ==
    /\ Calling /\ sending[ch] # Nothing
    /\ LET s == sending[ch]
           frames == Frames[<<s.msg, s.max>>]
           frame == frames[s.next]
           last == s.next = Len(frames)
           undecided == IF last /\ fate[s.msg].at = "sending"
                        THEN [fate EXCEPT ![s.msg].at = "sent"] ELSE fate
       IN  IF \/ ~Fits(frame.payload, negotiated[Pub].frameMax)
              \/ frame.type = 2 /\ ~ParseHeader(frame.payload).ok
           THEN Closed
           ELSE /\ sending' = [sending EXCEPT ![ch] = IF last THEN Nothing ELSE [s EXCEPT !.next = @ + 1]]
                /\ stalled' = IF last /\ Messages[s.msg].body = <<>> THEN stalled \cup {ch} ELSE stalled
                /\ channelNum' = channelNum
                /\ IF \/ channelNum \notin DOMAIN channels
                      \/ channels[channelNum].method.kind = "none" \/ Ignored(channelNum)
                   THEN fate' = undecided /\ wrote' = Nothing /\ UNCHANGED <<phase, channels, published>>
                   ELSE IF channels[channelNum].method.kind = "open"
                   THEN Become("closing") /\ fate' = undecided /\ wrote' = Nothing /\ UNCHANGED <<channels, published>>
                   ELSE BasicPublishHandler(channelNum, frame, s.msg, undecided)
    /\ UNCHANGED <<offer, negotiated, mixed>>

(* channel.close, or the close-ok for the broker's: the channel and what it held are gone. *)
ClientClose(ch) ==
    /\ Calling /\ ch \in DOMAIN channels
    /\ sending[ch] = Nothing \/ channels[ch].closing
    /\ MethodOn(ch)
    /\ channels' = [c \in DOMAIN channels \ {ch} |-> channels[c]]
    /\ sending' = [sending EXCEPT ![ch] = Nothing]
    /\ stalled' = stalled \ {ch}
    /\ GivenUp({ch})
    /\ UNCHANGED <<phase, offer, negotiated, published>>

(* connection.close-ok *)
ClientCloseOk ==
    /\ phase[Pub] \in {"told", "closing"}
    /\ Closed
    /\ UNCHANGED <<offer, negotiated, mixed>>

(* sendDelivery (and basicGetHandler, with get-ok) writes a message to the subscriber. *)
Deliver ==
    /\ phase[Sub] = "serving" /\ published # <<>>
    /\ LET message == Head(published)
       IN  \E octets \in DeliverOctets(negotiated[Sub].frameMax, message) :
              wrote' = Content(Sub, message, octets)
    /\ published' = Tail(published)
    /\ UNCHANGED <<phase, offer, negotiated, channels, channelNum, sending, fate, mixed, stalled>>

-----------------------------------------------------------------------------
ContentInit ==
    /\ phase = [c \in Peers |-> "tuning"]
    /\ offer = [c \in Peers |-> Refused]
    /\ negotiated = [c \in Peers |-> Refused]
    /\ channels = <<>> /\ channelNum = 0
    /\ sending = [ch \in Channels |-> Nothing]
    /\ fate = [m \in DOMAIN Messages |-> [at |-> "unsent", on |-> 0]]
    /\ mixed = FALSE /\ stalled = {}
    /\ published = <<>>
    /\ wrote = Nothing

ContentNext ==
    \/ \E c \in Peers : TuneOk(c)
    \/ \E ch \in Channels : ClientOpen(ch) \/ ClientContent(ch) \/ ClientClose(ch)
    \/ \E ch \in Channels, m \in DOMAIN Messages : ClientPublish(ch, m)
    \/ ClientCloseOk
    \/ Deliver

ContentSpec == ContentInit /\ [][ContentNext]_loopVars

-----------------------------------------------------------------------------
(* What a client that does not mix the content of two channels publishes is what the broker
   hands to the vhost: the key and the body of one message and all properties it set, from
   frames within the limit, whatever was sent before on the channel. *)
PublishedAsSent ==
    ~mixed => \A i \in DOMAIN published :
                 LET p == published[i]
                     m == Messages[p.from]
                 IN  /\ p.key = m.key /\ p.body = m.body /\ DOMAIN p.props = Kept(m.props)
                     /\ Fits(p.body, negotiated[Pub].frameMax)

(* A message whose last frame was sent has been published, returned, dropped as unroutable or
   answered with a close; the exception is a channel on which an empty body was sent, where
   nothing completes any more until the channel is closed. *)
NothingSwallowed ==
    \A m \in DOMAIN Messages :
       fate[m].at = "sent" =>
          mixed \/ phase[Pub] # "serving" \/ fate[m].on \in stalled \/ channels[fate[m].on].closing

(* On a connection that is served, channels stay within both sides' channel-max (0: no limit),
   and heartbeats are sent within the interval the client asked for, and not at all if it asked
   for none (half seconds). *)
LimitsRespected ==
    \A c \in Peers : phase[c] \in {"serving", "told", "closing"} =>
       /\ c = Pub => \A ch \in DOMAIN channels :
                        0 < ch /\ ch <= NoLimit(offer[c].channelMax) /\ ch <= NoLimit(Tuning.channelMax)
       /\ IF offer[c].heartbeat = 0 THEN negotiated[c].heartbeat = 0
          ELSE negotiated[c].heartbeat > 0
                 /\ HeartbeatSendInterval(negotiated[c].heartbeat) <= 2 * offer[c].heartbeat
=============================================================================
