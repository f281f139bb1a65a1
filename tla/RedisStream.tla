---------------------------- MODULE RedisStream -----------------------------
(***************************************************************************)
(* External: the Redis stream an agent consumes and the consumer group it  *)
(* owns on it, as far as internal/ingest/redis uses them.  Each operator   *)
(* is one server command, which Redis executes atomically.                 *)
(***************************************************************************)
EXTENDS Delivery

VARIABLES
  last,     \* newest entry added, 0 before the first
  first,    \* oldest entry still stored, last + 1 when there is none
  bad,      \* entries whose payload envelope.Parse refuses
  ld,       \* the group's last-delivered-id, NoGroup before XGROUP CREATE
  start,    \* history: ld when the group was created
  pel,      \* pending entries list: the consumer each entry is pending for
  acked,    \* entries XACK removed from the pel
  skipped   \* history: entries trimmed away before the group read them

redisVars == <<last, first, bad, ld, start, pel, acked, skipped>>

NoGroup == -1

RedisTypeOK ==
  /\ last \in 0 .. MaxId
  /\ first \in 1 .. last + 1
  /\ bad \in SUBSET Ids
  /\ ld \in NoGroup .. last
  /\ start \in NoGroup .. ld
  /\ pel \in [Ids -> Consumers \cup {None}]
  /\ acked \in SUBSET Ids
  /\ skipped \in SUBSET Ids

RedisInit ==
  /\ last = 0
  /\ first = 1
  /\ bad = {}
  /\ ld = NoGroup
  /\ start = NoGroup
  /\ pel = [e \in Ids |-> None]
  /\ acked = {}
  /\ skipped = {}

-----------------------------------------------------------------------------
\* The gateway's XADD.
XAdd ==
  /\ last < MaxId
  /\ last' = last + 1
  /\ bad' \in {bad, bad \cup {last + 1}}
  /\ UNCHANGED <<first, ld, start, pel, acked, skipped>>

\* The gateway trims from the head, by length (MAXLEN ~) and by age: any number
\* of the oldest entries goes, read or not.
XTrim ==
  /\ first' \in first + 1 .. last + 1
  /\ UNCHANGED <<last, bad, ld, start, pel, acked, skipped>>

(***************************************************************************)
(* XGROUP CREATE <key> <group> $ MKSTREAM: a new group starts after the    *)
(* newest entry; BUSYGROUP leaves an existing one as it is.                *)
(***************************************************************************)
XGroupCreate ==
  /\ ld' = IF ld = NoGroup THEN last ELSE ld
  /\ start' = IF ld = NoGroup THEN last ELSE start
  /\ UNCHANGED <<last, first, bad, pel, acked, skipped>>

\* The oldest stored entry the group has not been given.
Unread == Larger(ld + 1, first)

(***************************************************************************)
(* XREADGROUP ... >: up to n entries after last-delivered-id become        *)
(* pending for consumer c.  An entry trimmed before this moment is passed  *)
(* over for good.                                                          *)
(***************************************************************************)
ReadUpTo(n) == Smaller(Unread + n - 1, last)

\* Mutant: the read passes NOACK, so nothing becomes pending.
NoAckReadGroup(c, n) ==
  /\ ld # NoGroup
  /\ Unread <= last
  /\ ld' = ReadUpTo(n)
  /\ skipped' = skipped \cup (ld + 1 .. Unread - 1)
  /\ UNCHANGED <<last, first, bad, start, pel, acked>>

XReadGroup(c, n) ==
  /\ ld # NoGroup
  /\ Unread <= last
  /\ ld' = ReadUpTo(n)
  /\ pel' = [e \in Ids |-> IF e \in Unread .. ReadUpTo(n) THEN c ELSE pel[e]]
  /\ skipped' = skipped \cup (ld + 1 .. Unread - 1)
  /\ UNCHANGED <<last, first, bad, start, acked>>

(***************************************************************************)
(* XACK: removes the entry from the pel whoever it is pending for; a no-op *)
(* for an entry that is not pending.                                       *)
(***************************************************************************)
XAck(e) ==
  /\ pel' = [pel EXCEPT ![e] = None]
  /\ acked' = IF pel[e] # None THEN acked \cup {e} ELSE acked
  /\ UNCHANGED <<last, first, bad, ld, start, skipped>>
=============================================================================
