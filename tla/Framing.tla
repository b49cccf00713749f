------------------------------- MODULE Framing -------------------------------
(***************************************************************************)
(* What the modules about the wire share: the octets of a frame around its *)
(* payload, and the properties of a content header.  BasicProperties is a  *)
(* function from the numbers of the properties that are not zero, in the   *)
(* order of their flags, to their values; only headers and the timestamp   *)
(* tell zero from absent.                                                  *)
(***************************************************************************)
EXTENDS Integers, Sequences

FrameEnd == 206
FrameOverhead == 8

PropertyKinds ==
    <<"shortstr", "shortstr", "table", "octet", "octet", "shortstr", "shortstr", "shortstr", "shortstr",
      "timestamp", "shortstr", "shortstr", "shortstr", "shortstr">>
Headers == 3
DeliveryMode == 4
Priority == 5

IsZero(i, v) == \/ PropertyKinds[i] = "shortstr" /\ v = <<>>
                \/ PropertyKinds[i] = "octet" /\ v = 0

(* The properties a client set that are not zero for the broker. *)
Kept(props) == {i \in DOMAIN props : i = DeliveryMode \/ ~IsZero(i, props[i])}
=============================================================================
