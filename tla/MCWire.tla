------------------------------- MODULE MCWire --------------------------------
(* Small limits, five messages (one exactly two frames of 16 octets), and samples of every method in either direction. *)
EXTENDS Wire

TheServer == [channelMax |-> 2, frameMax |-> 96, heartbeat |-> 3]
Offer(channelMax, frameMax, heartbeat) ==
    [channelMax |-> channelMax, frameMax |-> frameMax, heartbeat |-> heartbeat]
TheOffers == {Offer(0, 0, 0), Offer(1, 24, 1), Offer(9, 96, 5), Offer(2, 97, 3), Offer(2, 23, 3)}

A == <<97>>
B == <<98>>
C == <<99>>
TheNames == <<A, B>>
V(tag, val) == [tag |-> tag, val |-> val]

Nested == (A :> V(115, <<1, 2>>)) @@ (B :> V(70, (A :> V(85, <<0, 1>>)) @@ (B :> V(116, <<7>>))))
Listed == (A :> V(65, <<V(117, <<1, 2>>), V(83, <<5>>)>>)) @@ (B :> V(68, <<2, 0, 0, 0, 7>>))

TheMessages ==
    [rich  |-> [mandatory |-> TRUE, key |-> A, body |-> <<1, 2, 3>>,
                props |-> (1 :> A) @@ (Headers :> Nested) @@ (DeliveryMode :> 0) @@ (Priority :> 5)
                            @@ (10 :> 0) @@ (13 :> <<>>)],
     list  |-> [mandatory |-> FALSE, key |-> B, body |-> <<4, 5, 6>>,
                props |-> (Headers :> Listed) @@ (DeliveryMode :> 2) @@ (6 :> <<9>>)],
     empty |-> [mandatory |-> FALSE, key |-> A, body |-> <<>>, props |-> <<>>],
     long  |-> [mandatory |-> TRUE, key |-> <<>>, body |-> [i \in 1..20 |-> i], props |-> <<>>],
     exact |-> [mandatory |-> FALSE, key |-> B, body |-> [i \in 1..32 |-> i], props |-> <<>>]]

-----------------------------------------------------------------------------
Strings == {<<>>, A, <<97, 98>>}
Flags(n) == {[i \in 1..n |-> i = k] : k \in 0..n}
Tables == {<<>>, Nested, Listed}
Rq(class, method, fields, bits, args, unread) ==
    [class |-> class, method |-> method, fields |-> fields, bits |-> bits, args |-> args, unread |-> unread]
Sh(n) == KV("short", n)
Ss(s) == KV("shortstr", s)
Text(n) == [i \in 1..n |-> 97]

TheRequests ==
    {Rq(10, 11, <<KV("table", t), Ss(Plain), KV("longstr", s), Ss(A)>>, <<>>, Nothing, <<>>) : t \in Tables, s \in Strings}
    \cup {Rq(10, 31, <<Sh(2047), KV("long", 131072), Sh(60)>>, <<>>, Nothing, <<>>)}
    \cup {Rq(10, 40, <<Ss(s)>>, <<>>, Nothing, <<0, 0>>) : s \in Strings}
    \cup {Rq(10, 50, <<Sh(320), Ss(Text(n)), Sh(20), Sh(10)>>, <<>>, Nothing, <<>>) : n \in {0, 4, 5}}
    \cup {Rq(10, 51, <<>>, <<>>, Nothing, <<>>), Rq(20, 10, <<>>, <<>>, Nothing, <<0>>), Rq(20, 41, <<>>, <<>>, Nothing, <<>>)}
    \cup {Rq(20, n, <<>>, f, Nothing, <<>>) : n \in {20, 21}, f \in Flags(1)}
    \cup {Rq(20, 40, <<Sh(200), Ss(s), Sh(60), Sh(40)>>, <<>>, Nothing, <<>>) : s \in Strings}
    \cup {Rq(40, 10, <<Sh(0), Ss(s), Ss(t)>>, f, a, <<>>) : s, t \in Strings, f \in Flags(5), a \in Tables}
    \cup {Rq(40, 20, <<Sh(0), Ss(s)>>, f, Nothing, <<>>) : s \in Strings, f \in Flags(2)}
    \cup {Rq(50, 10, <<Sh(0), Ss(s)>>, f, a, <<>>) : s \in Strings, f \in Flags(5), a \in Tables}
    \cup {Rq(50, 20, <<Sh(0), Ss(A), Ss(s), Ss(t)>>, f, a, <<>>) : s, t \in Strings, f \in Flags(1), a \in Tables}
    \cup {Rq(50, 30, <<Sh(0), Ss(s)>>, f, Nothing, <<>>) : s \in Strings, f \in Flags(1)}
    \cup {Rq(50, 40, <<Sh(0), Ss(s)>>, f, Nothing, <<>>) : s \in Strings, f \in Flags(3)}
    \cup {Rq(50, 50, <<Sh(0), Ss(A), Ss(s), Ss(t)>>, <<>>, a, <<>>) : s, t \in Strings, a \in Tables}
    \cup {Rq(60, 10, <<KV("long", 0), Sh(3)>>, f, Nothing, <<>>) : f \in Flags(1)}
    \cup {Rq(60, 20, <<Sh(0), Ss(A), Ss(t)>>, f, a, <<>>) : t \in Strings, f \in Flags(4), a \in Tables}
    \cup {Rq(60, 30, <<Ss(s)>>, f, Nothing, <<>>) : s \in Strings, f \in Flags(1)}
    \cup {Rq(60, 40, <<Sh(0), Ss(s), Ss(t)>>, f, Nothing, <<>>) : s, t \in Strings, f \in Flags(2)}
    \cup {Rq(60, 70, <<Sh(0), Ss(s)>>, f, Nothing, <<>>) : s \in Strings, f \in Flags(1)}
    \cup {Rq(60, n, <<KV("longlong", 70000)>>, f, Nothing, <<>>) : n \in {80, 90}, f \in Flags(1)}
    \cup {Rq(60, n, <<>>, f, Nothing, <<>>) : n \in {100, 110}, f \in Flags(1)}
    \cup {Rq(60, 120, <<KV("longlong", 1)>>, f, Nothing, <<>>) : f \in Flags(2)}
    \cup {Rq(90, n, <<>>, <<>>, Nothing, <<>>) : n \in {10, 20, 30}}

(* A client reads [reply, kinds, values]; a bit alone is an octet. *)
Sent(reply, kinds, values) ==
    [reply |-> reply, kinds |-> kinds, values |-> <<reply.class, reply.method>> \o values]
Euro == <<226, 130, 172>>
CloseKinds == <<"short", "shortstr", "short", "short">>

TheReplies ==
    UNION {{Sent(ConnectionCloseReply(541, t[1], 50, 10), CloseKinds, <<541, t[2], 50, 10>>),
            Sent(ChannelCloseReply(404, t[1], 60, 40), CloseKinds, <<404, t[2], 60, 40>>)} :
           t \in {<<A, A>>, <<Text(255), Text(255)>>, <<Text(254) \o Euro, Text(254)>>,
                  <<Text(252) \o Euro \o A, Text(252) \o Euro>>, <<Text(253) \o Euro, Text(253)>>}}
    \cup {Sent(ConnectionStart((A :> [type |-> "bool", val |-> <<1>>])
                                 @@ (B :> [type |-> "table", val |-> A :> [type |-> "string", val |-> B]]), Plain, A),
               <<"octet", "octet", "table", "longstr", "longstr">>,
               <<0, 9, (A :> [type |-> "bool", val |-> <<1>>])
                         @@ (B :> [type |-> "table", val |-> A :> [type |-> "string", val |-> B]]), Plain, A>>),
          Sent(ConnectionTune(2047, 131072, 60), <<"short", "long", "short">>, <<2047, 131072, 60>>),
          Sent(ConnectionOpenOk, <<"shortstr">>, <<<<>>>>),
          Sent(EmptyReply(10, 51), <<>>, <<>>),
          Sent(ChannelOpenOk, <<"longstr">>, <<<<>>>>),
          Sent(EmptyReply(20, 41), <<>>, <<>>),
          Sent(QueueDeclareOk(A, 3, 1), <<"shortstr", "long", "long">>, <<A, 3, 1>>),
          Sent(BasicConsumeOk(C), <<"shortstr">>, <<C>>),
          Sent(BasicCancelSent(C), <<"shortstr", "octet">>, <<C, 1>>),
          Sent(BasicCancelOk(C), <<"shortstr">>, <<C>>),
          Sent(BasicReturn(312, NoRoute, A, B), <<"short", "shortstr", "shortstr", "shortstr">>, <<312, NoRoute, A, B>>),
          Sent(BasicGetEmpty, <<"shortstr">>, <<<<>>>>)}
    \cup {Sent(ChannelFlowOk(b), <<"octet">>, <<IF b THEN 1 ELSE 0>>) : b \in BOOLEAN}
    \cup {Sent(QueueCountAck(n, 70000), <<"long">>, <<70000>>) : n \in {31, 41}}
    \cup {Sent(BasicDeliver(C, 300, b, A, B), <<"shortstr", "longlong", "octet", "shortstr", "shortstr">>,
               <<C, 300, IF b THEN 1 ELSE 0, A, B>>) : b \in BOOLEAN}
    \cup {Sent(BasicGetOk(300, b, A, B, 2), <<"longlong", "octet", "shortstr", "shortstr", "long">>,
               <<300, IF b THEN 1 ELSE 0, A, B, 2>>) : b \in BOOLEAN}
    \cup {Sent(EmptyReply(r[1], r[2]), <<>>, <<>>) :
             r \in {<<40, 11>>, <<40, 21>>, <<50, 21>>, <<50, 51>>, <<60, 11>>, <<60, 111>>,
                    <<90, 11>>, <<90, 21>>, <<90, 31>>}}
=============================================================================
