------------------------- MODULE RedisStreamProofs --------------------------
(***************************************************************************)
(* What one command of Redis does to the stream, the group and its pending *)
(* list: the lemmas every specification over RedisStream rests on.         *)
(***************************************************************************)
EXTENDS RedisStream, TLAPS

\* The gateway (XADD, trimming) keeps the stream well formed.
LEMMA GatewayType == RedisTypeOK /\ (XAdd \/ XTrim) => RedisTypeOK'
  <1>1. RedisTypeOK /\ XAdd => RedisTypeOK'
    BY MaxIdAssumption DEF RedisTypeOK, XAdd, Ids, NoGroup
  <1>2. RedisTypeOK /\ XTrim => RedisTypeOK'
    BY MaxIdAssumption DEF RedisTypeOK, XTrim, NoGroup
  <1> QED
    BY <1>1, <1>2

\* XGROUP CREATE (NewStreamSource) keeps the group well formed.
LEMMA XGroupCreateType == RedisTypeOK /\ XGroupCreate => RedisTypeOK'
  BY MaxIdAssumption DEF RedisTypeOK, XGroupCreate, NoGroup

\* A read (StreamSource.Read) returns a non-empty interval after ld.
LEMMA ReadRange ==
  ASSUME RedisTypeOK, Unread <= last, NEW n \in Nat \ {0}
  PROVE  /\ Unread \in ld + 1 .. last
         /\ Unread \in Ids
         /\ ReadUpTo(n) \in Unread .. last
         /\ ReadUpTo(n) \in Ids
  BY MaxIdAssumption
  DEF RedisTypeOK, Unread, ReadUpTo, Larger, Smaller, Ids, NoGroup

\* XREADGROUP (StreamSource.Read) keeps the group well formed.
LEMMA XReadGroupType ==
  ASSUME RedisTypeOK, NEW c \in Consumers, NEW n \in Nat \ {0}, XReadGroup(c, n)
  PROVE  RedisTypeOK'
  <1>1. /\ Unread \in ld + 1 .. last
        /\ ReadUpTo(n) \in Unread .. last
    BY ReadRange DEF XReadGroup
  <1>2. ld + 1 .. Unread - 1 \subseteq Ids
    BY <1>1, MaxIdAssumption DEF RedisTypeOK, NoGroup, Ids, XReadGroup
  <1> QED
    BY <1>1, <1>2, MaxIdAssumption DEF RedisTypeOK, XReadGroup, NoGroup

\* XACK (Delivery.Ack) keeps the pending list well formed.
LEMMA XAckType ==
  ASSUME RedisTypeOK, NEW e \in Ids, XAck(e) PROVE RedisTypeOK'
  BY DEF RedisTypeOK, XAck

\* Steps that send Redis nothing (all of handle but the ack) keep it well formed.
LEMMA RedisUnchanged == RedisTypeOK /\ UNCHANGED redisVars => RedisTypeOK'
  BY DEF RedisTypeOK, redisVars
=============================================================================
