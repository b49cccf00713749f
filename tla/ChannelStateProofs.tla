------------------------- MODULE ChannelStateProofs -------------------------
(***************************************************************************)
(* What the operators of ChannelState do to a channel's delivery state:    *)
(* its type, its records and the agreement of its three indexes.           *)
(***************************************************************************)
EXTENDS ChannelState, FiniteSetTheorems, TLAPS

(***************************************************************************)
(* The operations on the channel state keep its type (delivery.go, ack.go, *)
(* consumer.go, recover.go).                                               *)
(***************************************************************************)
LEMMA TakeTagType ==
    ASSUME NEW s \in ChannelDeliveryState
    PROVE  TakeTag(s) \in ChannelDeliveryState
BY DEF TakeTag, ChannelDeliveryState

LEMMA NewRecordType ==
    ASSUME NEW t \in Nat, NEW c \in ConsumerTags \cup {NoConsumer},
           NEW q \in Queues, NEW m \in Messages
    PROVE  NewRecord(t, c, q, m) \in DeliveryRecord
BY DEF NewRecord, DeliveryRecord

LEMMA TrackConsumerType ==
    ASSUME NEW s \in ChannelDeliveryState, NEW c \in ConsumerTags,
           NEW q \in Queues, NEW m \in Messages
    PROVE  TrackConsumer(s, c, q, m) \in ChannelDeliveryState
<1>1. s.last + 1 \in Nat
  BY DEF ChannelDeliveryState
<1>2. NewRecord(s.last + 1, c, q, m) \in DeliveryRecord
  BY <1>1, NewRecordType
<1> QED
  BY <1>1, <1>2 DEF TrackConsumer, ChannelDeliveryState

LEMMA TrackGetType ==
    ASSUME NEW s \in ChannelDeliveryState, NEW q \in Queues, NEW m \in Messages
    PROVE  TrackGet(s, q, m) \in ChannelDeliveryState
<1>1. s.last + 1 \in Nat
  BY DEF ChannelDeliveryState
<1>2. NewRecord(s.last + 1, NoConsumer, q, m) \in DeliveryRecord
  BY <1>1, NewRecordType
<1> QED
  BY <1>1, <1>2 DEF TrackGet, ChannelDeliveryState

LEMMA UntrackSourceType ==
    ASSUME NEW s \in ChannelDeliveryState, NEW T
    PROVE  UntrackSource(s, T) \in ChannelDeliveryState
BY DEF UntrackSource, ChannelDeliveryState

LEMMA DeleteUnackedType ==
    ASSUME NEW s \in ChannelDeliveryState, NEW T
    PROVE  DeleteUnacked(s, T) \in ChannelDeliveryState
<1>1. UntrackSource(s, T) \in ChannelDeliveryState
  BY UntrackSourceType
<1>2. {r \in s.unacked : r.tag \notin T} \subseteq DeliveryRecord
  BY DEF ChannelDeliveryState
<1> QED
  BY <1>1, <1>2 DEF DeleteUnacked, ChannelDeliveryState

LEMMA PopUnackedType ==
    ASSUME NEW s \in ChannelDeliveryState, NEW t, NEW multiple
    PROVE  PopUnacked(s, t, multiple) \in ChannelDeliveryState
<1> DEFINE d == DeleteUnacked(s, Tags(AckedRecords(s, t, multiple)))
<1>1. d \in ChannelDeliveryState
  BY DeleteUnackedType
<1>2. PopUnacked(s, t, multiple) = [d EXCEPT !.signal = TRUE]
  BY DEF PopUnacked
<1> HIDE DEF d
<1> QED
  BY <1>1, <1>2 DEF ChannelDeliveryState

LEMMA MarkFields ==
    ASSUME NEW r \in DeliveryRecord
    PROVE  /\ MarkDeleted(r) \in DeliveryRecord
           /\ MarkDeleted(r).tag = r.tag
           /\ MarkDeleted(r).ctag = r.ctag
           /\ MarkDeleted(r).deleted
           /\ MarkCancelled(r) \in DeliveryRecord
           /\ MarkCancelled(r).tag = r.tag
           /\ MarkCancelled(r).ctag = r.ctag
           /\ MarkCancelled(r).queue = r.queue
           /\ MarkCancelled(r).deleted = r.deleted
           /\ MarkCancelled(r).cancelled
BY DEF MarkDeleted, MarkCancelled, DeliveryRecord

LEMMA DetachQueueType ==
    ASSUME NEW s \in ChannelDeliveryState, NEW q
    PROVE  DetachQueue(s, q) \in ChannelDeliveryState
<1>1. UntrackSource(s, Tags(OfQueue(s, q))) \in ChannelDeliveryState
  BY UntrackSourceType
<1>2. {MarkDeleted(r) : r \in OfQueue(s, q)} \subseteq DeliveryRecord
  BY MarkFields DEF OfQueue, ChannelDeliveryState
<1>3. s.unacked \ OfQueue(s, q) \subseteq DeliveryRecord
  BY DEF ChannelDeliveryState
<1> QED
  BY <1>1, <1>2, <1>3 DEF DetachQueue, ChannelDeliveryState

LEMMA DetachConsumerType ==
    ASSUME NEW s \in ChannelDeliveryState, NEW c \in ConsumerTags
    PROVE  DetachConsumer(s, c) \in ChannelDeliveryState
<1>1. {MarkCancelled(r) : r \in OfConsumer(s, c)} \subseteq DeliveryRecord
  <2>1. \A r \in OfConsumer(s, c) : r \in DeliveryRecord
    BY DEF OfConsumer, ChannelDeliveryState
  <2> QED
    BY <2>1, MarkFields
<1>2. s.unacked \ OfConsumer(s, c) \subseteq DeliveryRecord
  BY DEF ChannelDeliveryState
<1> QED
  BY <1>1, <1>2 DEF DetachConsumer, ChannelDeliveryState

LEMMA ClearIndexesType ==
    ASSUME NEW s \in ChannelDeliveryState
    PROVE  ClearIndexes(s) \in ChannelDeliveryState
BY DEF ClearIndexes, ChannelDeliveryState

-----------------------------------------------------------------------------
(***************************************************************************)
(* The operations keep the three indexes in agreement.                     *)
(***************************************************************************)
LEMMA NewIndexes == IndexesAgree(NewChannelState)
BY DEF IndexesAgree, NewChannelState

LEMMA TrackConsumerIndexes ==
    ASSUME NEW s \in ChannelDeliveryState, IndexesAgree(s),
           NEW c \in ConsumerTags, NEW q \in Queues, NEW m \in Messages
    PROVE  IndexesAgree(TrackConsumer(s, c, q, m))
<1> DEFINE d == TrackConsumer(s, c, q, m)
           n == NewRecord(s.last + 1, c, q, m)
<1>1. /\ d.last = s.last + 1
      /\ d.unacked = s.unacked \cup {n}
      /\ d.byConsumer = [s.byConsumer EXCEPT ![c] = @ \cup {s.last + 1}]
      /\ d.byGet = s.byGet
  BY DEF TrackConsumer, ChannelDeliveryState
<1>2. /\ n.tag = s.last + 1
      /\ n.ctag = c
      /\ ~n.cancelled /\ ~n.deleted
      /\ ~FromGet(n)
  BY NoConsumerAssumption DEF NewRecord, FromGet
<1>3. /\ s.last \in Nat
      /\ s.byConsumer \in [ConsumerTags -> SUBSET Nat]
      /\ \A r \in s.unacked : r.tag \in Nat
  BY DEF ChannelDeliveryState, DeliveryRecord
<1> HIDE DEF d, n
<1>4. \A r \in s.unacked : r.tag # n.tag
  BY <1>2, <1>3 DEF IndexesAgree
<1>5. IndexesAgree(d)
  BY <1>1, <1>2, <1>3, <1>4 DEF IndexesAgree, CountsFor
<1> QED
  BY <1>5 DEF d

LEMMA TrackGetIndexes ==
    ASSUME NEW s \in ChannelDeliveryState, IndexesAgree(s),
           NEW q \in Queues, NEW m \in Messages
    PROVE  IndexesAgree(TrackGet(s, q, m))
<1> DEFINE d == TrackGet(s, q, m)
           n == NewRecord(s.last + 1, NoConsumer, q, m)
<1>1. /\ d.last = s.last + 1
      /\ d.unacked = s.unacked \cup {n}
      /\ d.byConsumer = s.byConsumer
      /\ d.byGet = s.byGet \cup {s.last + 1}
  BY DEF TrackGet, ChannelDeliveryState
<1>2. /\ n.tag = s.last + 1
      /\ n.ctag \notin ConsumerTags
      /\ ~n.deleted
      /\ FromGet(n)
  BY NoConsumerAssumption DEF NewRecord, FromGet
<1>3. /\ s.last \in Nat
      /\ \A r \in s.unacked : r.tag \in Nat
  BY DEF ChannelDeliveryState, DeliveryRecord
<1> HIDE DEF d, n
<1>4. IndexesAgree(d)
  BY <1>1, <1>2, <1>3 DEF IndexesAgree, CountsFor
<1> QED
  BY <1>4 DEF d

LEMMA DeleteUnackedFields ==
    ASSUME NEW s \in ChannelDeliveryState, NEW T
    PROVE  /\ DeleteUnacked(s, T).last = s.last
           /\ DeleteUnacked(s, T).unacked = {r \in s.unacked : r.tag \notin T}
           /\ DeleteUnacked(s, T).byConsumer = [c \in ConsumerTags |-> s.byConsumer[c] \ T]
           /\ DeleteUnacked(s, T).byGet = s.byGet \ T
           /\ DeleteUnacked(s, T).global = s.global
BY DEF DeleteUnacked, UntrackSource, ChannelDeliveryState

(* Taking records off leaves some of the old records and of the old tags. *)
LEMMA DeleteUnackedShrinks ==
    ASSUME NEW s \in ChannelDeliveryState, NEW T
    PROVE  /\ DeleteUnacked(s, T).last = s.last
           /\ DeleteUnacked(s, T).global = s.global
           /\ DeleteUnacked(s, T).unacked \subseteq s.unacked
           /\ \A c \in ConsumerTags : DeleteUnacked(s, T).byConsumer[c] \subseteq s.byConsumer[c]
<1> DEFINE d == DeleteUnacked(s, T)
<1>1. /\ d.last = s.last
      /\ d.global = s.global
      /\ d.unacked = {r \in s.unacked : r.tag \notin T}
      /\ d.byConsumer = [c \in ConsumerTags |-> s.byConsumer[c] \ T]
  BY DeleteUnackedFields
<1> HIDE DEF d
<1>2. /\ d.last = s.last
      /\ d.global = s.global
      /\ d.unacked \subseteq s.unacked
      /\ \A c \in ConsumerTags : d.byConsumer[c] \subseteq s.byConsumer[c]
  BY <1>1
<1> QED
  BY <1>2 DEF d

LEMMA DeleteUnackedIndexes ==
    ASSUME NEW s \in ChannelDeliveryState, IndexesAgree(s), NEW T
    PROVE  IndexesAgree(DeleteUnacked(s, T))
<1> DEFINE d == DeleteUnacked(s, T)
<1>1. /\ d.last = s.last
      /\ d.unacked = {r \in s.unacked : r.tag \notin T}
      /\ d.byConsumer = [c \in ConsumerTags |-> s.byConsumer[c] \ T]
      /\ d.byGet = s.byGet \ T
  BY DeleteUnackedFields
<1> HIDE DEF d
<1>2. IndexesAgree(d)
  BY <1>1 DEF IndexesAgree
<1> QED
  BY <1>2 DEF d

LEMMA PopUnackedFields ==
    ASSUME NEW s \in ChannelDeliveryState, NEW t, NEW multiple
    PROVE  LET d == DeleteUnacked(s, Tags(AckedRecords(s, t, multiple)))
               p == PopUnacked(s, t, multiple)
           IN  /\ p.last = d.last
               /\ p.unacked = d.unacked
               /\ p.byConsumer = d.byConsumer
               /\ p.byGet = d.byGet
               /\ p.global = d.global
<1> DEFINE d == DeleteUnacked(s, Tags(AckedRecords(s, t, multiple)))
<1>1. d \in ChannelDeliveryState
  BY DeleteUnackedType
<1>2. PopUnacked(s, t, multiple) = [d EXCEPT !.signal = TRUE]
  BY DEF PopUnacked
<1> HIDE DEF d
<1>3. LET p == PopUnacked(s, t, multiple)
      IN  /\ p.last = d.last
          /\ p.unacked = d.unacked
          /\ p.byConsumer = d.byConsumer
          /\ p.byGet = d.byGet
          /\ p.global = d.global
  BY <1>1, <1>2 DEF ChannelDeliveryState
<1> QED
  BY <1>3 DEF d

LEMMA PopUnackedShrinks ==
    ASSUME NEW s \in ChannelDeliveryState, NEW t, NEW multiple
    PROVE  /\ PopUnacked(s, t, multiple).last = s.last
           /\ PopUnacked(s, t, multiple).global = s.global
           /\ PopUnacked(s, t, multiple).unacked \subseteq s.unacked
           /\ \A c \in ConsumerTags :
                PopUnacked(s, t, multiple).byConsumer[c] \subseteq s.byConsumer[c]
BY PopUnackedFields, DeleteUnackedShrinks

LEMMA PopUnackedIndexes ==
    ASSUME NEW s \in ChannelDeliveryState, IndexesAgree(s), NEW t, NEW multiple
    PROVE  IndexesAgree(PopUnacked(s, t, multiple))
<1>1. IndexesAgree(DeleteUnacked(s, Tags(AckedRecords(s, t, multiple))))
  BY DeleteUnackedIndexes
<1> QED
  BY <1>1, PopUnackedFields DEF IndexesAgree

LEMMA DetachQueueFields ==
    ASSUME NEW s \in ChannelDeliveryState, NEW q
    PROVE  LET d == DetachQueue(s, q)
               T == Tags(OfQueue(s, q))
           IN  /\ d.last = s.last
               /\ d.unacked = (s.unacked \ OfQueue(s, q))
                                \cup {MarkDeleted(r) : r \in OfQueue(s, q)}
               /\ d.byConsumer = [c \in ConsumerTags |-> s.byConsumer[c] \ T]
               /\ d.byGet = s.byGet \ T
               /\ d.global = s.global
BY DEF DetachQueue, UntrackSource, ChannelDeliveryState

(* A record of d is a kept record of s, or a marked copy of one of s. *)
LEMMA DetachQueueRecords ==
    ASSUME NEW s \in ChannelDeliveryState, NEW q,
           NEW r \in DetachQueue(s, q).unacked
    PROVE  \/ r \in s.unacked \ OfQueue(s, q)
           \/ /\ r.deleted
              /\ \E x \in OfQueue(s, q) :
                    r = MarkDeleted(x) /\ r.tag = x.tag /\ r.ctag = x.ctag
<1>1. \A x \in OfQueue(s, q) : x \in DeliveryRecord
  BY DEF OfQueue, ChannelDeliveryState
<1>2. r \in (s.unacked \ OfQueue(s, q)) \cup {MarkDeleted(x) : x \in OfQueue(s, q)}
  BY DetachQueueFields
<1>3. ASSUME r \notin s.unacked \ OfQueue(s, q)
      PROVE  \E x \in OfQueue(s, q) : r = MarkDeleted(x)
  BY <1>2, <1>3
<1> QED
  BY <1>1, <1>3, MarkFields

LEMMA DetachQueueIndexes ==
    ASSUME NEW s \in ChannelDeliveryState, IndexesAgree(s), NEW q
    PROVE  IndexesAgree(DetachQueue(s, q))
<1> DEFINE d == DetachQueue(s, q)
           O == OfQueue(s, q)
<1>1. /\ d.last = s.last
      /\ s.unacked \ O \subseteq d.unacked
      /\ d.byConsumer = [c \in ConsumerTags |-> s.byConsumer[c] \ Tags(O)]
      /\ d.byGet = s.byGet \ Tags(O)
  BY DetachQueueFields
<1>2. \A r \in d.unacked :
        \/ r \in s.unacked \ O
        \/ r.deleted /\ \E x \in O : r = MarkDeleted(x) /\ r.tag = x.tag
  BY DetachQueueRecords
<1>3. O \subseteq s.unacked
  BY DEF OfQueue
<1>4. \A n : n \in Tags(O) <=> \E x \in O : x.tag = n
  BY DEF Tags
<1> HIDE DEF d, O
<1>5. \A r \in s.unacked \ O : r.tag \notin Tags(O)
  BY <1>3, <1>4 DEF IndexesAgree
<1>6. \A r \in d.unacked : r.tag > 0 /\ r.tag <= d.last
  BY <1>1, <1>2, <1>3 DEF IndexesAgree
<1>7. \A r1, r2 \in d.unacked : r1.tag = r2.tag => r1 = r2
  BY <1>2, <1>3, <1>4, <1>5 DEF IndexesAgree
<1>8. \A c \in ConsumerTags :
        /\ \A n \in d.byConsumer[c] : \E r \in d.unacked : r.tag = n /\ CountsFor(r, c)
        /\ \A r \in d.unacked : CountsFor(r, c) => r.tag \in d.byConsumer[c]
  BY <1>1, <1>2, <1>4, <1>5 DEF IndexesAgree, CountsFor
<1>9. /\ \A n \in d.byGet : \E r \in d.unacked : r.tag = n /\ FromGet(r) /\ ~r.deleted
      /\ \A r \in d.unacked : FromGet(r) /\ ~r.deleted => r.tag \in d.byGet
  BY <1>1, <1>2, <1>4, <1>5 DEF IndexesAgree
<1>10. IndexesAgree(d)
  BY <1>6, <1>7, <1>8, <1>9 DEF IndexesAgree
<1> QED
  BY <1>10 DEF d

LEMMA DetachConsumerFields ==
    ASSUME NEW s \in ChannelDeliveryState, NEW c \in ConsumerTags
    PROVE  LET d == DetachConsumer(s, c)
           IN  /\ d.last = s.last
               /\ d.unacked = (s.unacked \ OfConsumer(s, c))
                                \cup {MarkCancelled(r) : r \in OfConsumer(s, c)}
               /\ d.byConsumer = [s.byConsumer EXCEPT ![c] = {}]
               /\ d.byGet = s.byGet
               /\ d.global = s.global
BY DEF DetachConsumer, ChannelDeliveryState

LEMMA DetachConsumerRecords ==
    ASSUME NEW s \in ChannelDeliveryState, NEW c \in ConsumerTags,
           NEW r \in DetachConsumer(s, c).unacked
    PROVE  \/ r \in s.unacked \ OfConsumer(s, c)
           \/ /\ r.cancelled
              /\ \E x \in OfConsumer(s, c) :
                    /\ r = MarkCancelled(x)
                    /\ r.tag = x.tag /\ r.ctag = x.ctag /\ r.deleted = x.deleted
<1>1. \A x \in OfConsumer(s, c) : x \in DeliveryRecord
  BY DEF OfConsumer, ChannelDeliveryState
<1>2. r \in (s.unacked \ OfConsumer(s, c)) \cup {MarkCancelled(x) : x \in OfConsumer(s, c)}
  BY DetachConsumerFields
<1>3. ASSUME r \notin s.unacked \ OfConsumer(s, c)
      PROVE  \E x \in OfConsumer(s, c) : r = MarkCancelled(x)
  BY <1>2, <1>3
<1> QED
  BY <1>1, <1>3, MarkFields

LEMMA DetachConsumerIndexes ==
    ASSUME NEW s \in ChannelDeliveryState, IndexesAgree(s), NEW c \in ConsumerTags
    PROVE  IndexesAgree(DetachConsumer(s, c))
<1> DEFINE d == DetachConsumer(s, c)
           O == OfConsumer(s, c)
<1>1. /\ d.last = s.last
      /\ s.unacked \ O \subseteq d.unacked
      /\ d.byConsumer = [s.byConsumer EXCEPT ![c] = {}]
      /\ d.byGet = s.byGet
  BY DetachConsumerFields
<1>2. \A r \in d.unacked :
        \/ r \in s.unacked \ O
        \/ r.cancelled /\ \E x \in O : r = MarkCancelled(x) /\ r.tag = x.tag /\ r.ctag = x.ctag
  BY DetachConsumerRecords
<1>3. O = {r \in s.unacked : r.tag \in s.byConsumer[c]}
  BY DEF OfConsumer
<1>4. s.byConsumer \in [ConsumerTags -> SUBSET Nat]
  BY DEF ChannelDeliveryState
<1> HIDE DEF d, O
<1>5. \A x \in O : x.ctag = c
  BY <1>3 DEF IndexesAgree, CountsFor
<1>6. \A r \in d.unacked : r.tag > 0 /\ r.tag <= d.last
  BY <1>1, <1>2, <1>3 DEF IndexesAgree
<1>7. \A r1, r2 \in d.unacked : r1.tag = r2.tag => r1 = r2
  BY <1>2, <1>3 DEF IndexesAgree
<1>8. \A e \in ConsumerTags :
        /\ \A n \in d.byConsumer[e] : \E r \in d.unacked : r.tag = n /\ CountsFor(r, e)
        /\ \A r \in d.unacked : CountsFor(r, e) => r.tag \in d.byConsumer[e]
  BY <1>1, <1>2, <1>3, <1>4, <1>5 DEF IndexesAgree, CountsFor
<1>9. /\ \A n \in d.byGet : \E r \in d.unacked : r.tag = n /\ FromGet(r) /\ ~r.deleted
      /\ \A r \in d.unacked : FromGet(r) /\ ~r.deleted => r.tag \in d.byGet
  BY <1>1, <1>2, <1>3, <1>5, NoConsumerAssumption DEF IndexesAgree, FromGet
<1>10. IndexesAgree(d)
  BY <1>6, <1>7, <1>8, <1>9 DEF IndexesAgree
<1> QED
  BY <1>10 DEF d

LEMMA ClearIndexesAgree ==
    ASSUME NEW s \in ChannelDeliveryState
    PROVE  IndexesAgree(ClearIndexes(s))
BY DEF ClearIndexes, IndexesAgree, ChannelDeliveryState

LEMMA SameIndexes ==
    ASSUME NEW s, NEW d, IndexesAgree(s),
           d.last >= s.last, d.last \in Nat, s.last \in Nat,
           \A r \in s.unacked : r.tag \in Nat,
           d.unacked = s.unacked, d.byConsumer = s.byConsumer, d.byGet = s.byGet
    PROVE  IndexesAgree(d)
BY DEF IndexesAgree
=============================================================================
