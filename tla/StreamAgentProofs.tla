------------------------- MODULE StreamAgentProofs --------------------------
(***************************************************************************)
(* The safety properties of StreamAgent for any number of instances,       *)
(* entries, destinations and attempts.  The inductive invariant is built   *)
(* in layers; each layer is proved from the ones before it.                *)
(***************************************************************************)
EXTENDS StreamAgentLedger, RedisStreamProofs, TLAPS

-----------------------------------------------------------------------------
(***************************************************************************)
(* What Dispatcher.Send and Policy.Do do to the types of their state.      *)
(***************************************************************************)

\* Entering Do for any destination (Dispatcher.Send) is well typed.
LEMMA CallDoType ==
  ASSUME DispatchTypeOK, NEW c \in Consumers, NEW d \in Nat \ {0}, CallDo(c, d),
         result' \in [Ids -> [Dests -> {"none", "delivered"} \cup Drops]]
  PROVE  DispatchTypeOK'
  BY DispatchAssumption DEF DispatchTypeOK, CallDo

\* Leaving Send is well typed.
LEMMA EndSendType ==
  ASSUME DispatchTypeOK, NEW c \in Consumers, EndSend(c) PROVE DispatchTypeOK'
  BY DispatchAssumption DEF DispatchTypeOK, EndSend

\* Steps outside Dispatcher.Send keep its state well typed.
LEMMA DispatchUnchanged ==
  DispatchTypeOK /\ UNCHANGED dispatchVars => DispatchTypeOK'
  BY DEF DispatchTypeOK, dispatchVars, callVars

-----------------------------------------------------------------------------
(***************************************************************************)
(* Layer 1: types, and how the program counter, the call of Do and the     *)
(* batch go together.                                                      *)
(***************************************************************************)
Shape ==
  \A c \in Consumers :
    /\ pc[c] = "send" <=> phase[c] # "idle"
    /\ phase[c] \in {"attempt", "wait"} => dest[c] \in Dests
    /\ phase[c] = "sent" => dest[c] = NDests + 1
    /\ phase[c] = "wait" => attempt[c] < MaxAttempts
    /\ pc[c] \in {"send", "ack", "acking"} => cur[c] <= hi[c]
    /\ pc[c] \in InBatch => cur[c] >= 1 /\ hi[c] <= ld

Base == TypeOK /\ Shape /\ InFlightIsOwned

\* Layer 1 holds before any process of the service started.
LEMMA InitBase == Init => Base
  BY MaxIdAssumption, DispatchAssumption
  DEF Init, RedisInit, DispatchInit, Base, TypeOK, RedisTypeOK, DispatchTypeOK,
      AgentTypeOK, Shape, InFlightIsOwned, Running, InBatch, NoGroup

\* The entry a batch is at is an entry of the stream, owned by the instance.
LEMMA CurrentIsOwned ==
  ASSUME Base, NEW c \in Consumers, pc[c] \in InBatch, cur[c] <= hi[c]
  PROVE  cur[c] \in Ids /\ pel[cur[c]] = c /\ cur[c] <= ld
  BY MaxIdAssumption
  DEF Base, TypeOK, RedisTypeOK, AgentTypeOK, Shape, InFlightIsOwned, InBatch,
      Ids, NoGroup

\* A step of Dispatcher.Send and Policy.Do keeps layer 1.
LEMMA DispatchingBase ==
  ASSUME Base, NEW c \in Consumers, Dispatching(c) PROVE Base'
  <1> DEFINE e == cur[c]
  <1>1. pc[c] = "send" /\ e \in Ids /\ UNCHANGED <<redisVars, agentVars>>
    BY CurrentIsOwned DEF Dispatching, Base, Shape, InBatch
  <1>2. RedisTypeOK'
    BY <1>1, RedisUnchanged DEF Base, TypeOK
  <1>3. AgentTypeOK'
    BY <1>1 DEF Base, TypeOK, AgentTypeOK, agentVars
  <1>4. InFlightIsOwned'
    BY <1>1 DEF Base, InFlightIsOwned, agentVars, redisVars
  <1> HIDE DEF e
  <1> USE DEF Base, TypeOK
  <1>5. ASSUME NEW r \in {"delivered"} \cup Drops, Record(c, e, r),
               phase[c] \in {"attempt", "wait"}
        PROVE  DispatchTypeOK' /\ Shape'
    <2>1. dest[c] \in Dests
      BY <1>5 DEF Shape
    <2>2. result' \in [Ids -> [Dests -> {"none", "delivered"} \cup Drops]]
      BY <1>1, <1>5, <2>1 DEF Record, DispatchTypeOK
    <2>3. CallDo(c, dest[c] + 1) /\ dest[c] + 1 \in Nat \ {0}
      BY <1>5, <2>1, DispatchAssumption DEF Record, Dests
    <2>4. DispatchTypeOK'
      BY <1>1, <1>5, <2>2, <2>3, CallDoType
    <2>5. Shape'
      BY <1>1, <2>1, <2>3, DispatchAssumption, SMTT(30)
      DEF CallDo, Shape, DispatchTypeOK, Dests, agentVars, redisVars, InBatch
    <2> QED
      BY <2>4, <2>5
  <1>7. ASSUME AttemptTransient(c) PROVE DispatchTypeOK' /\ Shape'
    <2>1. DispatchTypeOK'
      BY <1>7, DispatchAssumption DEF AttemptTransient, DispatchTypeOK
    <2>2. /\ phase[c] = "attempt" /\ attempt[c] < MaxAttempts
          /\ phase' = [phase EXCEPT ![c] = "wait"]
          /\ UNCHANGED <<dest, attempt>>
      <3>1. attempt[c] \in 1 .. MaxAttempts /\ MaxAttempts \in Nat
        BY DispatchAssumption DEF DispatchTypeOK
      <3>2. attempt[c] # MaxAttempts
        BY <1>7 DEF AttemptTransient, LastAttempt
      <3> QED
        BY <1>7, <3>1, <3>2 DEF AttemptTransient
    <2>3. Shape'
      BY <1>1, <2>2 DEF DispatchTypeOK, Shape, agentVars, redisVars, InBatch
    <2> QED
      BY <2>1, <2>3
  <1>8. ASSUME WaitOver(c) PROVE DispatchTypeOK' /\ Shape'
    <2>1. attempt[c] < MaxAttempts /\ dest[c] \in Dests
      BY <1>8 DEF WaitOver, Shape
    <2>2. DispatchTypeOK'
      BY <1>1, <1>8, <2>1, DispatchAssumption
      DEF WaitOver, DispatchTypeOK, NextBackoff, Smaller
    <2>3. Shape'
      BY <1>1, <1>8, DispatchAssumption
      DEF WaitOver, DispatchTypeOK, Shape, agentVars, redisVars, InBatch
    <2> QED
      BY <2>2, <2>3
  <1>9. DispatchTypeOK' /\ Shape'
    BY <1>5, <1>7, <1>8
    DEF Dispatching, DispatchStep, AttemptDelivered, AttemptPermanent,
      AttemptExhausted, ExhaustedReason, WaitCancelled, Drops, e
  <1> QED
    BY <1>2, <1>3, <1>4, <1>9

\* Layer 1 is kept by every action: no step of Run, handle, supervise or Redis
\* breaks the types, the shape of the control state or the ownership of a batch.
LEMMA NextBase == Base /\ [Next]_vars => Base'
  <1> SUFFICES ASSUME Base, [Next]_vars PROVE Base'
    OBVIOUS
  <1> USE DEF Base, TypeOK
  <1>1. CASE Gateway
    <2>1. RedisTypeOK'
      BY <1>1, GatewayType DEF Gateway
    <2>2. DispatchTypeOK'
      BY <1>1, DispatchUnchanged DEF Gateway
    <2>3. AgentTypeOK' /\ Shape' /\ InFlightIsOwned'
      BY <1>1 DEF Gateway, XAdd, XTrim, AgentTypeOK, Shape, InFlightIsOwned, InBatch,
        agentVars, dispatchVars, callVars
    <2> QED
      BY <2>1, <2>2, <2>3
  <1>2. ASSUME NEW c \in Consumers, Boot(c) PROVE Base'
    <2>1. RedisTypeOK'
      BY <1>2, XGroupCreateType DEF Boot
    <2>2. DispatchTypeOK'
      BY <1>2, DispatchUnchanged DEF Boot
    <2>4. AgentTypeOK'
      BY <1>2 DEF Boot, Goto, XGroupCreate, AgentTypeOK, Running
    <2>5. Shape'
      BY <1>2, DispatchAssumption DEF Boot, Goto, XGroupCreate, dispatchVars,
         callVars, AgentTypeOK, RedisTypeOK, DispatchTypeOK, Shape, InBatch,
         Dests, NoGroup
    <2>6. InFlightIsOwned'
      BY <1>2 DEF Boot, Goto, XGroupCreate, AgentTypeOK, RedisTypeOK, Shape,
         InFlightIsOwned, InBatch, Ids, NoGroup
    <2> QED
      BY <2>1, <2>2, <2>4, <2>5, <2>6
  <1>3. ASSUME NEW c \in Consumers, Signal(c) PROVE Base'
    <2>1. RedisTypeOK'
      BY <1>3, RedisUnchanged DEF Signal
    <2>2. DispatchTypeOK'
      BY <1>3, DispatchUnchanged DEF Signal
    <2>4. AgentTypeOK'
      BY <1>3 DEF Signal, Goto, AgentTypeOK, Running
    <2>5. Shape'
      BY <1>3, DispatchAssumption DEF Signal, Goto, dispatchVars, callVars,
         redisVars, AgentTypeOK, RedisTypeOK, DispatchTypeOK, Shape, InBatch,
         Dests, NoGroup
    <2>6. InFlightIsOwned'
      BY <1>3 DEF Signal, Goto, redisVars, AgentTypeOK, RedisTypeOK, Shape,
         InFlightIsOwned, InBatch, Ids, NoGroup
    <2> QED
      BY <2>1, <2>2, <2>4, <2>5, <2>6
  <1>4. ASSUME NEW c \in Consumers, ProcessEnds(c) PROVE Base'
    <2>1. RedisTypeOK'
      BY <1>4, RedisUnchanged DEF ProcessEnds
    <2>2. DispatchTypeOK'
      BY <1>4, EndSendType DEF ProcessEnds
    <2>4. AgentTypeOK'
      BY <1>4 DEF ProcessEnds, Goto, ForgetBatch, AgentTypeOK, Running
    <2>5. Shape'
      BY <1>4, DispatchAssumption DEF ProcessEnds, Goto, ForgetBatch,
         EndSend, redisVars, AgentTypeOK, RedisTypeOK, DispatchTypeOK, Shape,
         InBatch, Dests, NoGroup
    <2>6. InFlightIsOwned'
      BY <1>4 DEF ProcessEnds, Goto, ForgetBatch, redisVars, AgentTypeOK,
         RedisTypeOK, Shape, InFlightIsOwned, InBatch, Ids, NoGroup
    <2> QED
      BY <2>1, <2>2, <2>4, <2>5, <2>6
  <1>5. ASSUME NEW c \in Consumers, Panic(c) PROVE Base'
    <2>1. RedisTypeOK'
      BY <1>5, RedisUnchanged DEF Panic
    <2>2. DispatchTypeOK'
      BY <1>5, EndSendType DEF Panic
    <2>4. AgentTypeOK'
      BY <1>5 DEF Panic, Goto, RunReturns, ForgetBatch, AgentTypeOK, Running
    <2>5. Shape'
      BY <1>5, DispatchAssumption DEF Panic, Goto, RunReturns, ForgetBatch,
         EndSend, redisVars, AgentTypeOK, RedisTypeOK, DispatchTypeOK, Shape,
         InBatch, Dests, NoGroup
    <2>6. InFlightIsOwned'
      BY <1>5 DEF Panic, Goto, RunReturns, ForgetBatch, redisVars,
         AgentTypeOK, RedisTypeOK, Shape, InFlightIsOwned, InBatch, Ids,
         NoGroup
    <2> QED
      BY <2>1, <2>2, <2>4, <2>5, <2>6
  <1>6. ASSUME NEW c \in Consumers, Restart(c) PROVE Base'
    <2>1. RedisTypeOK'
      BY <1>6, RedisUnchanged DEF Restart
    <2>2. DispatchTypeOK'
      BY <1>6, DispatchUnchanged DEF Restart
    <2>4. AgentTypeOK'
      BY <1>6 DEF Restart, Goto, AgentTypeOK, Running
    <2>5. Shape'
      BY <1>6, DispatchAssumption DEF Restart, Goto, dispatchVars, callVars,
         redisVars, AgentTypeOK, RedisTypeOK, DispatchTypeOK, Shape, InBatch,
         Dests, NoGroup
    <2>6. InFlightIsOwned'
      BY <1>6 DEF Restart, Goto, redisVars, AgentTypeOK, RedisTypeOK, Shape,
         InFlightIsOwned, InBatch, Ids, NoGroup
    <2> QED
      BY <2>1, <2>2, <2>4, <2>5, <2>6
  <1>7. ASSUME NEW c \in Consumers, CheckContext(c) PROVE Base'
    <2>1. RedisTypeOK'
      BY <1>7, RedisUnchanged DEF CheckContext
    <2>2. DispatchTypeOK'
      BY <1>7, DispatchUnchanged DEF CheckContext
    <2>4. AgentTypeOK'
      BY <1>7 DEF CheckContext, Goto, AgentTypeOK, Running
    <2>5. Shape'
      BY <1>7, DispatchAssumption DEF CheckContext, Goto, dispatchVars,
         callVars, redisVars, AgentTypeOK, RedisTypeOK, DispatchTypeOK,
         Shape, InBatch, Dests, NoGroup
    <2>6. InFlightIsOwned'
      BY <1>7 DEF CheckContext, Goto, redisVars, AgentTypeOK, RedisTypeOK,
         Shape, InFlightIsOwned, InBatch, Ids, NoGroup
    <2> QED
      BY <2>1, <2>2, <2>4, <2>5, <2>6
  <1>8. ASSUME NEW c \in Consumers, ReadDeliver(c) PROVE Base'
    <2>1. RedisTypeOK'
      BY <1>8, XReadGroupType, BatchAssumption DEF ReadDeliver
    <2>2. DispatchTypeOK'
      BY <1>8, DispatchUnchanged DEF ReadDeliver
    <2> DEFINE lo == Unread
               up == ReadUpTo(BatchSize)
    <2>3. lo \in Ids /\ up \in Ids /\ lo > ld /\ up >= lo
      BY <1>8, ReadRange, BatchAssumption DEF ReadDeliver, XReadGroup, RedisTypeOK, NoGroup
    <2>4. /\ ld' = up
          /\ pel' = [e \in Ids |-> IF e \in lo .. up THEN c ELSE pel[e]]
          /\ UNCHANGED <<phase, dest, attempt, cancelled, recorded>>
      BY <1>8 DEF ReadDeliver, XReadGroup, dispatchVars, callVars
    <2>5. /\ pc[c] = "read" /\ Goto(c, "loop")
          /\ cur' = [cur EXCEPT ![c] = lo]
          /\ hi' = [hi EXCEPT ![c] = up]
      BY <1>8 DEF ReadDeliver
    <2> HIDE DEF lo, up
    <2>6. AgentTypeOK'
      BY <2>3, <2>4, <2>5, MaxIdAssumption DEF AgentTypeOK, Running, Ids, Goto
    <2>7. Shape'
      BY <2>3, <2>4, <2>5, MaxIdAssumption, SMTT(30)
      DEF AgentTypeOK, RedisTypeOK, DispatchTypeOK, Shape, InBatch, NoGroup, Ids,
        Goto
    <2>8. InFlightIsOwned'
      BY <2>3, <2>4, <2>5, MaxIdAssumption
      DEF AgentTypeOK, RedisTypeOK, Shape, InFlightIsOwned, InBatch, NoGroup, Ids,
        Goto
    <2> QED
      BY <2>1, <2>2, <2>6, <2>7, <2>8
  <1>9. ASSUME NEW c \in Consumers, ReadNil(c) PROVE Base'
    <2>1. RedisTypeOK'
      BY <1>9, RedisUnchanged DEF ReadNil
    <2>2. DispatchTypeOK'
      BY <1>9, DispatchUnchanged DEF ReadNil
    <2>4. AgentTypeOK'
      BY <1>9 DEF ReadNil, Goto, AgentTypeOK, Running
    <2>5. Shape'
      BY <1>9, DispatchAssumption DEF ReadNil, Goto, dispatchVars, callVars,
         redisVars, AgentTypeOK, RedisTypeOK, DispatchTypeOK, Shape, InBatch,
         Dests, NoGroup
    <2>6. InFlightIsOwned'
      BY <1>9 DEF ReadNil, Goto, redisVars, AgentTypeOK, RedisTypeOK, Shape,
         InFlightIsOwned, InBatch, Ids, NoGroup
    <2> QED
      BY <2>1, <2>2, <2>4, <2>5, <2>6
  <1>10. ASSUME NEW c \in Consumers, ReadError(c) PROVE Base'
    <2>1. RedisTypeOK'
      BY <1>10, RedisUnchanged DEF ReadError
    <2>2. DispatchTypeOK'
      BY <1>10, DispatchUnchanged DEF ReadError
    <2>4. AgentTypeOK'
      BY <1>10 DEF ReadError, Goto, RunReturns, ForgetBatch, AgentTypeOK,
         Running
    <2>5. Shape'
      BY <1>10, DispatchAssumption DEF ReadError, Goto, RunReturns,
         ForgetBatch, dispatchVars, callVars, redisVars, AgentTypeOK,
         RedisTypeOK, DispatchTypeOK, Shape, InBatch, Dests, NoGroup
    <2>6. InFlightIsOwned'
      BY <1>10 DEF ReadError, Goto, RunReturns, ForgetBatch, redisVars,
         AgentTypeOK, RedisTypeOK, Shape, InFlightIsOwned, InBatch, Ids,
         NoGroup
    <2> QED
      BY <2>1, <2>2, <2>4, <2>5, <2>6
  <1>11. ASSUME NEW c \in Consumers, ReadReplyLost(c) PROVE Base'
    <2>1. RedisTypeOK'
      BY <1>11, XReadGroupType, BatchAssumption DEF ReadReplyLost
    <2>2. DispatchTypeOK'
      BY <1>11, DispatchUnchanged DEF ReadReplyLost
    <2> DEFINE lo == Unread
               up == ReadUpTo(BatchSize)
    <2>3. lo \in Ids /\ up \in Ids /\ lo > ld /\ up >= lo
      BY <1>11, ReadRange, BatchAssumption DEF ReadReplyLost, XReadGroup, RedisTypeOK, NoGroup
    <2>4. /\ ld' = up
          /\ pel' = [e \in Ids |-> IF e \in lo .. up THEN c ELSE pel[e]]
          /\ UNCHANGED <<phase, dest, attempt, cancelled, recorded>>
      BY <1>11 DEF ReadReplyLost, XReadGroup, dispatchVars, callVars
    <2>5. /\ pc[c] = "read"
          /\ \/ UNCHANGED <<pc, cur, hi>>
             \/ /\ Goto(c, "stopped") \/ Goto(c, "backoff")
                /\ cur' = [cur EXCEPT ![c] = 1]
                /\ hi' = [hi EXCEPT ![c] = 0]
      BY <1>11 DEF ReadReplyLost, RunReturns, ForgetBatch
    <2> HIDE DEF lo, up
    <2>6. AgentTypeOK'
      <3>1. CASE UNCHANGED <<pc, cur, hi>>
        BY <3>1, <2>4 DEF AgentTypeOK
      <3>2. CASE ~UNCHANGED <<pc, cur, hi>>
        BY <3>2, <2>4, <2>5 DEF AgentTypeOK, Running, Goto
      <3> QED
        BY <3>1, <3>2
    <2>7. Shape'
      BY <2>3, <2>4, <2>5, MaxIdAssumption, SMTT(30)
      DEF AgentTypeOK, RedisTypeOK, DispatchTypeOK, Shape, InBatch, NoGroup, Ids,
        Goto
    <2>8. InFlightIsOwned'
      BY <2>3, <2>4, <2>5, MaxIdAssumption
      DEF AgentTypeOK, RedisTypeOK, Shape, InFlightIsOwned, InBatch, NoGroup, Ids,
        Goto
    <2> QED
      BY <2>1, <2>2, <2>6, <2>7, <2>8
  <1>12. ASSUME NEW c \in Consumers, BatchDone(c) PROVE Base'
    <2>1. RedisTypeOK'
      BY <1>12, RedisUnchanged DEF BatchDone
    <2>2. DispatchTypeOK'
      BY <1>12, DispatchUnchanged DEF BatchDone
    <2>4. AgentTypeOK'
      BY <1>12 DEF BatchDone, Goto, ForgetBatch, AgentTypeOK, Running
    <2>5. Shape'
      BY <1>12, DispatchAssumption DEF BatchDone, Goto, ForgetBatch,
         dispatchVars, callVars, redisVars, AgentTypeOK, RedisTypeOK,
         DispatchTypeOK, Shape, InBatch, Dests, NoGroup
    <2>6. InFlightIsOwned'
      BY <1>12 DEF BatchDone, Goto, ForgetBatch, redisVars, AgentTypeOK,
         RedisTypeOK, Shape, InFlightIsOwned, InBatch, Ids, NoGroup
    <2> QED
      BY <2>1, <2>2, <2>4, <2>5, <2>6
  <1>13. ASSUME NEW c \in Consumers, LeaveBatch(c) PROVE Base'
    <2>1. RedisTypeOK'
      BY <1>13, RedisUnchanged DEF LeaveBatch
    <2>2. DispatchTypeOK'
      BY <1>13, DispatchUnchanged DEF LeaveBatch
    <2>4. AgentTypeOK'
      BY <1>13 DEF LeaveBatch, Goto, RunReturns, ForgetBatch, AgentTypeOK,
         Running
    <2>5. Shape'
      BY <1>13, DispatchAssumption DEF LeaveBatch, Goto, RunReturns,
         ForgetBatch, dispatchVars, callVars, redisVars, AgentTypeOK,
         RedisTypeOK, DispatchTypeOK, Shape, InBatch, Dests, NoGroup
    <2>6. InFlightIsOwned'
      BY <1>13 DEF LeaveBatch, Goto, RunReturns, ForgetBatch, redisVars,
         AgentTypeOK, RedisTypeOK, Shape, InFlightIsOwned, InBatch, Ids,
         NoGroup
    <2> QED
      BY <2>1, <2>2, <2>4, <2>5, <2>6
  <1>14. ASSUME NEW c \in Consumers, HandleUnprocessable(c) PROVE Base'
    <2>1. RedisTypeOK'
      BY <1>14, RedisUnchanged DEF HandleUnprocessable
    <2>2. DispatchTypeOK'
      BY <1>14, DispatchUnchanged DEF HandleUnprocessable
    <2>4. AgentTypeOK'
      BY <1>14, CurrentIsOwned
      DEF HandleUnprocessable, Goto, AgentTypeOK, Running, InBatch
    <2>5. Shape'
      BY <1>14, DispatchAssumption DEF HandleUnprocessable, Goto,
         dispatchVars, callVars, redisVars, AgentTypeOK, RedisTypeOK,
         DispatchTypeOK, Shape, InBatch, Dests, NoGroup
    <2>6. InFlightIsOwned'
      BY <1>14 DEF HandleUnprocessable, Goto, redisVars, AgentTypeOK,
         RedisTypeOK, Shape, InFlightIsOwned, InBatch, Ids, NoGroup
    <2> QED
      BY <2>1, <2>2, <2>4, <2>5, <2>6
  <1>15. ASSUME NEW c \in Consumers, HandleEnvelope(c) PROVE Base'
    <2>1. RedisTypeOK'
      BY <1>15, RedisUnchanged DEF HandleEnvelope
    <2>2. DispatchTypeOK'
      BY <1>15, CallDoType, CurrentIsOwned
      DEF HandleEnvelope, Send, DispatchTypeOK, InBatch
    <2>4. AgentTypeOK'
      BY <1>15 DEF HandleEnvelope, Goto, Send, CallDo, AgentTypeOK, Running
    <2>3. /\ pc[c] = "loop" /\ cur[c] <= hi[c]
          /\ pc' = [pc EXCEPT ![c] = "send"]
          /\ phase' = [phase EXCEPT ![c] =
                         IF 1 <= NDests THEN "attempt" ELSE "sent"]
          /\ dest' = [dest EXCEPT ![c] = 1]
          /\ attempt' = [attempt EXCEPT ![c] = 1]
          /\ UNCHANGED <<cur, hi, redisVars>>
      BY <1>15 DEF HandleEnvelope, Goto, Send, CallDo
    <2>5. Shape'
      BY <2>3, DispatchAssumption, SMTT(30) DEF redisVars, AgentTypeOK,
         RedisTypeOK, DispatchTypeOK, Shape, InBatch, Dests, NoGroup
    <2>6. InFlightIsOwned'
      BY <1>15 DEF HandleEnvelope, Goto, Send, CallDo, redisVars,
         AgentTypeOK, RedisTypeOK, Shape, InFlightIsOwned, InBatch, Ids,
         NoGroup
    <2> QED
      BY <2>1, <2>2, <2>4, <2>5, <2>6
  <1>16. ASSUME NEW c \in Consumers, Dispatching(c) PROVE Base'
    BY <1>16, DispatchingBase
  <1>17. ASSUME NEW c \in Consumers, SendReturns(c) PROVE Base'
    <2>1. RedisTypeOK'
      BY <1>17, RedisUnchanged DEF SendReturns
    <2>2. DispatchTypeOK'
      BY <1>17, EndSendType DEF SendReturns
    <2>4. AgentTypeOK'
      BY <1>17 DEF SendReturns, Goto, AgentTypeOK, Running
    <2>5. Shape'
      BY <1>17, DispatchAssumption DEF SendReturns, Goto, EndSend, redisVars,
         AgentTypeOK, RedisTypeOK, DispatchTypeOK, Shape, InBatch, Dests,
         NoGroup
    <2>6. InFlightIsOwned'
      BY <1>17 DEF SendReturns, Goto, redisVars, AgentTypeOK, RedisTypeOK,
         Shape, InFlightIsOwned, InBatch, Ids, NoGroup
    <2> QED
      BY <2>1, <2>2, <2>4, <2>5, <2>6
  <1>18. ASSUME NEW c \in Consumers, IssueAck(c) PROVE Base'
    <2>1. RedisTypeOK'
      BY <1>18, RedisUnchanged DEF IssueAck
    <2>2. DispatchTypeOK'
      BY <1>18, DispatchUnchanged DEF IssueAck
    <2>4. AgentTypeOK'
      BY <1>18 DEF IssueAck, Goto, AgentTypeOK, Running
    <2>5. Shape'
      BY <1>18, DispatchAssumption DEF IssueAck, Goto, dispatchVars,
         callVars, redisVars, AgentTypeOK, RedisTypeOK, DispatchTypeOK,
         Shape, InBatch, Dests, NoGroup
    <2>6. InFlightIsOwned'
      BY <1>18 DEF IssueAck, Goto, redisVars, AgentTypeOK, RedisTypeOK,
         Shape, InFlightIsOwned, InBatch, Ids, NoGroup
    <2> QED
      BY <2>1, <2>2, <2>4, <2>5, <2>6
  <1>19. ASSUME NEW c \in Consumers, AckRefused(c) PROVE Base'
    <2>1. RedisTypeOK'
      BY <1>19, RedisUnchanged DEF AckRefused
    <2>2. DispatchTypeOK'
      BY <1>19, DispatchUnchanged DEF AckRefused, NextDelivery
    <2>4. AgentTypeOK'
      BY <1>19 DEF AckRefused, Goto, NextDelivery, AgentTypeOK, Running
    <2>5. Shape'
      BY <1>19, DispatchAssumption DEF AckRefused, Goto, NextDelivery,
         dispatchVars, callVars, redisVars, AgentTypeOK, RedisTypeOK,
         DispatchTypeOK, Shape, InBatch, Dests, NoGroup
    <2>6. InFlightIsOwned'
      BY <1>19 DEF AckRefused, Goto, NextDelivery, redisVars, AgentTypeOK,
         RedisTypeOK, Shape, InFlightIsOwned, InBatch, Ids, NoGroup
    <2> QED
      BY <2>1, <2>2, <2>4, <2>5, <2>6
  <1>20. ASSUME NEW c \in Consumers, AckOk(c) PROVE Base'
    <2>1. cur[c] \in Ids /\ pel[cur[c]] = c /\ cur[c] <= ld
      BY <1>20, CurrentIsOwned DEF AckOk, Shape, InBatch
    <2>2. RedisTypeOK'
      BY <1>20, <2>1, XAckType, RedisUnchanged DEF AckOk
    <2>3. DispatchTypeOK'
      BY <1>20, DispatchUnchanged DEF AckOk, NextDelivery
    <2>4. /\ pc[c] = "acking" /\ Goto(c, "loop")
          /\ cur' = [cur EXCEPT ![c] = @ + 1]
          /\ UNCHANGED <<phase, dest, attempt, cancelled, hi, recorded, ld>>
          /\ pel' = pel \/ pel' = [pel EXCEPT ![cur[c]] = None]
      BY <1>20 DEF AckOk, NextDelivery, XAck, redisVars, dispatchVars, callVars
    <2>5. AgentTypeOK'
      BY <2>4 DEF AgentTypeOK, Running, Goto
    <2>6. Shape'
      BY <2>4 DEF AgentTypeOK, DispatchTypeOK, Shape, InBatch, Goto
    <2>7. InFlightIsOwned'
      <3> SUFFICES ASSUME NEW k \in Consumers, pc'[k] \in InBatch,
                          NEW e \in cur'[k] .. hi'[k]
                   PROVE  pel'[e] = k
        BY DEF InFlightIsOwned
      <3>1. /\ pc[k] \in InBatch
            /\ e \in cur[k] .. hi[k]
            /\ k = c => e # cur[c]
        BY <2>1, <2>4 DEF AgentTypeOK, Goto, InBatch
      <3>2. pel[e] = k /\ e \in Ids
        BY <3>1, MaxIdAssumption
        DEF InFlightIsOwned, Shape, AgentTypeOK, RedisTypeOK, Ids, NoGroup
      <3>3. e # cur[c]
        BY <2>1, <3>1, <3>2
      <3> QED
        BY <2>1, <2>4, <3>2, <3>3 DEF RedisTypeOK
    <2> QED
      BY <2>2, <2>3, <2>5, <2>6, <2>7
  <1>21. ASSUME NEW c \in Consumers, AckFailed(c) PROVE Base'
    <2>1. cur[c] \in Ids /\ pel[cur[c]] = c /\ cur[c] <= ld
      BY <1>21, CurrentIsOwned DEF AckFailed, Shape, InBatch
    <2>2. RedisTypeOK'
      BY <1>21, <2>1, XAckType, RedisUnchanged DEF AckFailed
    <2>3. DispatchTypeOK'
      BY <1>21, DispatchUnchanged DEF AckFailed, NextDelivery
    <2>4. /\ pc[c] = "acking" /\ Goto(c, "loop")
          /\ cur' = [cur EXCEPT ![c] = @ + 1]
          /\ UNCHANGED <<phase, dest, attempt, cancelled, hi, recorded, ld>>
          /\ pel' = pel \/ pel' = [pel EXCEPT ![cur[c]] = None]
      BY <1>21 DEF AckFailed, NextDelivery, XAck, redisVars, dispatchVars, callVars
    <2>5. AgentTypeOK'
      BY <2>4 DEF AgentTypeOK, Running, Goto
    <2>6. Shape'
      BY <2>4 DEF AgentTypeOK, DispatchTypeOK, Shape, InBatch, Goto
    <2>7. InFlightIsOwned'
      <3> SUFFICES ASSUME NEW k \in Consumers, pc'[k] \in InBatch,
                          NEW e \in cur'[k] .. hi'[k]
                   PROVE  pel'[e] = k
        BY DEF InFlightIsOwned
      <3>1. /\ pc[k] \in InBatch
            /\ e \in cur[k] .. hi[k]
            /\ k = c => e # cur[c]
        BY <2>1, <2>4 DEF AgentTypeOK, Goto, InBatch
      <3>2. pel[e] = k /\ e \in Ids
        BY <3>1, MaxIdAssumption
        DEF InFlightIsOwned, Shape, AgentTypeOK, RedisTypeOK, Ids, NoGroup
      <3>3. e # cur[c]
        BY <2>1, <3>1, <3>2
      <3> QED
        BY <2>1, <2>4, <3>2, <3>3 DEF RedisTypeOK
    <2> QED
      BY <2>2, <2>3, <2>5, <2>6, <2>7
  <1>22. CASE UNCHANGED vars
    BY <1>22, RedisUnchanged, DispatchUnchanged
    DEF vars, redisVars, dispatchVars, callVars, agentVars, AgentTypeOK, Shape,
      InFlightIsOwned
  <1> QED
    BY <1>1, <1>2, <1>3, <1>4, <1>5, <1>6, <1>7, <1>8, <1>9, <1>10, <1>11,
       <1>12, <1>13, <1>14, <1>15, <1>16, <1>17, <1>18, <1>19, <1>20, <1>21,
       <1>22 DEF Next, Step

\* Type correctness, for every number of instances, entries and destinations:
\* no reachable state has a variable outside its type (TypeOK).
THEOREM TypeCorrect == Spec => []TypeOK
  <1>1. Base => TypeOK
    BY DEF Base
  <1> QED
    BY <1>1, InitBase, NextBase, PTL DEF Spec

\* Two instances of one agent never hold the same entry: every entry of a batch
\* in memory is pending for the instance that read it (InFlightIsOwned).
THEOREM InFlightOwned == Spec => []InFlightIsOwned
  <1>1. Base => InFlightIsOwned
    BY DEF Base
  <1> QED
    BY <1>1, InitBase, NextBase, PTL DEF Spec

-----------------------------------------------------------------------------
(***************************************************************************)
(* Layer 2: Redis accounts for every entry it gave to the group.  Only the *)
(* commands matter here, so the step is first reduced to one of them.      *)
(***************************************************************************)
Account ==
  /\ start = NoGroup => ld = NoGroup
  /\ \A e \in Ids :
       /\ e \in acked => pel[e] = None /\ e \notin skipped
       /\ pel[e] # None => e \notin skipped
       /\ (e \in acked \/ e \in skipped \/ pel[e] # None) => e <= ld
       /\ start < e /\ e <= ld => e \in acked \/ e \in skipped \/ pel[e] # None

\* Whatever the service does, Redis sees one command or none.
LEMMA OneCommand ==
  ASSUME Base, [Next]_vars
  PROVE  \/ XAdd \/ XTrim
         \/ XGroupCreate
         \/ \E c \in Consumers : XReadGroup(c, BatchSize)
         \/ \E e \in Ids : XAck(e)
         \/ UNCHANGED redisVars
  <1>1. ASSUME NEW c \in Consumers, pc[c] = "acking", XAck(cur[c])
        PROVE  \E e \in Ids : XAck(e)
    BY <1>1, CurrentIsOwned DEF Base, Shape, InBatch
  <1> QED
    BY <1>1
    DEF Next, Step, Gateway, Boot, Signal, ProcessEnds, Panic, Restart,
      CheckContext, ReadDeliver, ReadNil, ReadError, ReadReplyLost, BatchDone,
      LeaveBatch, HandleUnprocessable, HandleEnvelope, Dispatching, SendReturns,
      IssueAck, AckRefused, AckOk, AckFailed, vars

\* Layer 2 holds before the group exists.
LEMMA InitAccount == Init => Account
  BY DEF Init, RedisInit, Account, NoGroup, Ids

\* XREADGROUP and XACK (StreamSource.Read, Delivery.Ack) keep the account.
LEMMA NextAccount == Base /\ Account /\ [Next]_vars => Account'
  <1> SUFFICES ASSUME Base, Account, [Next]_vars PROVE Account'
    OBVIOUS
  <1>0. RedisTypeOK
    BY DEF Base, TypeOK
  <1>1. CASE XAdd \/ XTrim
    BY <1>1 DEF XAdd, XTrim, Account
  <1>2. CASE XGroupCreate
    BY <1>0, <1>2 DEF XGroupCreate, Account, RedisTypeOK, NoGroup, Ids
  <1>3. ASSUME NEW c \in Consumers, XReadGroup(c, BatchSize) PROVE Account'
    <2> DEFINE lo == Unread
               up == ReadUpTo(BatchSize)
    <2>1. lo \in ld + 1 .. last /\ up \in lo .. last /\ ld \in Int /\ last \in Int
      BY <1>0, <1>3, ReadRange, BatchAssumption, MaxIdAssumption
      DEF XReadGroup, RedisTypeOK, NoGroup
    <2>2. /\ ld' = up
          /\ pel' = [e \in Ids |-> IF e \in lo .. up THEN c ELSE pel[e]]
          /\ skipped' = skipped \cup (ld + 1 .. lo - 1)
          /\ UNCHANGED <<acked, start>> /\ ld # NoGroup
      BY <1>3 DEF XReadGroup
    <2> HIDE DEF lo, up
    <2> QED
      BY <1>0, <2>1, <2>2, NoneAssumption DEF Account, RedisTypeOK, Ids, NoGroup
  <1>4. ASSUME NEW e \in Ids, XAck(e) PROVE Account'
    BY <1>0, <1>4 DEF XAck, Account, RedisTypeOK
  <1>5. CASE UNCHANGED redisVars
    BY <1>5 DEF redisVars, Account
  <1> QED
    BY <1>1, <1>2, <1>3, <1>4, <1>5, OneCommand

\* Every entry the group was given is acknowledged, pending or was trimmed
\* unread, and only one of the three (GivenIsAccountedFor).
THEOREM AccountedFor == Spec => []GivenIsAccountedFor
  <1>1. Base /\ Account => GivenIsAccountedFor
    BY MaxIdAssumption
    DEF Account, GivenIsAccountedFor, Base, TypeOK, RedisTypeOK, Ids, NoGroup
  <1> QED
    BY <1>1, InitBase, NextBase, InitAccount, NextAccount, PTL DEF Spec

-----------------------------------------------------------------------------
(***************************************************************************)
(* Frames: a step of one instance leaves the locals of the others alone,   *)
(* and outcomes, once recorded, stay.                                      *)
(***************************************************************************)
Move(c) == Step(c) \/ Boot(c) \/ Signal(c) \/ ProcessEnds(c) \/ Panic(c)

SameLocals(k) ==
  /\ pc'[k] = pc[k] /\ cur'[k] = cur[k] /\ hi'[k] = hi[k]
  /\ phase'[k] = phase[k] /\ dest'[k] = dest[k] /\ attempt'[k] = attempt[k]
  /\ backoff'[k] = backoff[k] /\ elapsed'[k] = elapsed[k]
  /\ k \in cancelled' <=> k \in cancelled

\* Another instance's Send and Do do not touch the locals of instance k.
LEMMA DispatchOthers ==
  ASSUME DispatchTypeOK, NEW c \in Consumers, NEW e, NEW x,
         DispatchStep(c, e, x) \/ Send(c) \/ EndSend(c),
         NEW k \in Consumers, k # c
  PROVE  /\ phase'[k] = phase[k] /\ dest'[k] = dest[k]
         /\ attempt'[k] = attempt[k]
         /\ backoff'[k] = backoff[k] /\ elapsed'[k] = elapsed[k]
  BY DEF DispatchTypeOK, DispatchStep, AttemptDelivered, AttemptPermanent,
    AttemptExhausted, AttemptTransient, WaitOver, WaitCancelled, Record, CallDo,
    Send, EndSend

\* A step of instance c leaves the loop of every other instance k alone.
LEMMA OthersUnaffected ==
  ASSUME Base, NEW c \in Consumers, Move(c), NEW k \in Consumers, k # c
  PROVE  SameLocals(k)
  <1> USE DEF Base, TypeOK
  <1>1. CASE Dispatching(c) \/ HandleEnvelope(c) \/ SendReturns(c) \/ Panic(c)
             \/ ProcessEnds(c)
    <2>1. /\ phase'[k] = phase[k] /\ dest'[k] = dest[k]
          /\ attempt'[k] = attempt[k]
          /\ backoff'[k] = backoff[k] /\ elapsed'[k] = elapsed[k]
      BY <1>1, DispatchOthers
      DEF Dispatching, HandleEnvelope, SendReturns, Panic, ProcessEnds
    <2>2. /\ pc'[k] = pc[k] /\ cur'[k] = cur[k] /\ hi'[k] = hi[k]
          /\ k \in cancelled' <=> k \in cancelled
      BY <1>1
      DEF Dispatching, HandleEnvelope, SendReturns, Panic, ProcessEnds, Goto,
        RunReturns, ForgetBatch, agentVars, AgentTypeOK
    <2> QED
      BY <2>1, <2>2 DEF SameLocals
  <1>2. CASE Boot(c) \/ Signal(c) \/ Restart(c) \/ CheckContext(c) \/ ReadNil(c)
             \/ HandleUnprocessable(c) \/ IssueAck(c) \/ AckRefused(c)
             \/ AckOk(c) \/ AckFailed(c)
    BY <1>2
    DEF Boot, Signal, Restart, CheckContext, ReadNil, HandleUnprocessable,
      IssueAck, AckRefused, AckOk, AckFailed, NextDelivery, Goto, SameLocals,
      dispatchVars, callVars, AgentTypeOK
  <1>3. CASE ReadDeliver(c) \/ ReadError(c) \/ ReadReplyLost(c) \/ BatchDone(c)
             \/ LeaveBatch(c)
    BY <1>3
    DEF ReadDeliver, ReadError, ReadReplyLost, BatchDone, LeaveBatch, RunReturns,
      ForgetBatch, Goto, SameLocals, dispatchVars, callVars, AgentTypeOK
  <1> QED
    BY <1>1, <1>2, <1>3 DEF Move, Step

\* Only the dispatch of an entry writes its outcomes: the start of its Send and
\* the steps of Do, which the instance that is at the entry takes.
Dispatches(c, e) == (Dispatching(c) \/ HandleEnvelope(c)) /\ e = cur[c]

\* Send works on an entry its own instance owns.
LEMMA DispatchIsOwned ==
  ASSUME Base, NEW c \in Consumers, NEW e, Dispatches(c, e)
  PROVE  e \in Ids /\ pel[e] = c /\ e <= ld
  BY CurrentIsOwned DEF Dispatches, Dispatching, HandleEnvelope, Base, Shape, InBatch

\* Outcomes change only for the entry a Send is working on.
LEMMA OutcomesElsewhere ==
  ASSUME Base, [Next]_vars, NEW e \in Ids, ~ \E c \in Consumers : Dispatches(c, e)
  PROVE  result'[e] = result[e]
  <1> USE DEF Dispatches
  <1>1. ASSUME NEW c \in Consumers, Dispatching(c) \/ HandleEnvelope(c)
        PROVE  result'[e] = result[e]
    <2>1. e # cur[c]
      BY <1>1
    <2>3. ASSUME NEW r, Record(c, cur[c], r)
          PROVE  result'[e] = result[e]
      BY <2>1, <2>3 DEF Record, Base, TypeOK, DispatchTypeOK
    <2>4. CASE HandleEnvelope(c)
      BY <2>4 DEF HandleEnvelope, Send
    <2>5. CASE AttemptTransient(c)
      BY <2>5 DEF AttemptTransient
    <2>6. CASE WaitOver(c)
      BY <2>1, <2>6 DEF WaitOver, Base, TypeOK, DispatchTypeOK
    <2> QED
      BY <1>1, <2>3, <2>4, <2>5, <2>6
      DEF Dispatching, DispatchStep, AttemptDelivered, AttemptPermanent,
        AttemptExhausted, WaitCancelled
  <1>2. ASSUME ~ \E c \in Consumers : Dispatching(c) \/ HandleEnvelope(c)
        PROVE  UNCHANGED result
    BY <1>2
    DEF Next, Step, Gateway, Boot, Signal, ProcessEnds, Panic, Restart,
      CheckContext, ReadDeliver, ReadNil, ReadError, ReadReplyLost, BatchDone,
      LeaveBatch, HandleUnprocessable, SendReturns, IssueAck, AckRefused, AckOk,
      AckFailed, NextDelivery, EndSend, vars, dispatchVars
  <1> QED
    BY <1>1, <1>2

\* What a dispatch step can do to the outcome of its own entry: record a result
\* for the destination it is at and go on, or try it again.
LEMMA OutcomeHere ==
  ASSUME Base, NEW c \in Consumers, Dispatching(c)
  PROVE  /\ cur[c] \in Ids /\ dest[c] \in Dests /\ cur'[c] = cur[c]
         /\ pc[c] = "send" /\ pc'[c] = "send"
         /\ \A d \in Dests \ {dest[c]} : result'[cur[c]][d] = result[cur[c]][d]
         /\ \/ /\ dest'[c] = dest[c] + 1
               /\ result'[cur[c]][dest[c]] \in {"delivered"} \cup Drops
               /\ result'[cur[c]][dest[c]] = "cancelled" => c \in cancelled
            \/ /\ dest'[c] = dest[c]
               /\ result'[cur[c]][dest[c]] = result[cur[c]][dest[c]]
  <1>1. cur[c] \in Ids /\ pc[c] = "send" /\ UNCHANGED <<pc, cur>>
    BY CurrentIsOwned DEF Dispatching, Base, Shape, InBatch, agentVars
  <1>2. dest[c] \in Dests
    BY DEF Dispatching, DispatchStep, AttemptDelivered, AttemptPermanent,
      AttemptExhausted, AttemptTransient, WaitOver, WaitCancelled, Base, Shape
  <1>3. /\ result \in [Ids -> [Dests -> {"none", "delivered"} \cup Drops]]
        /\ dest \in [Consumers -> Nat]
    BY DEF Base, TypeOK, DispatchTypeOK
  <1>4. \A d \in Dests \ {dest[c]} : result'[cur[c]][d] = result[cur[c]][d]
    BY <1>1, <1>2, <1>3
    DEF Dispatching, DispatchStep, AttemptDelivered, AttemptPermanent,
      AttemptExhausted, AttemptTransient, WaitOver, WaitCancelled, Record
  <1>5. ASSUME NEW r, Record(c, cur[c], r)
        PROVE  dest'[c] = dest[c] + 1 /\ result'[cur[c]][dest[c]] = r
    BY <1>1, <1>2, <1>3, <1>5 DEF Record, CallDo
  <1>6. \/ /\ dest'[c] = dest[c] + 1
           /\ result'[cur[c]][dest[c]] \in {"delivered"} \cup Drops
           /\ result'[cur[c]][dest[c]] = "cancelled" => c \in cancelled
        \/ /\ dest'[c] = dest[c]
           /\ result'[cur[c]][dest[c]] = result[cur[c]][dest[c]]
    BY <1>5
    DEF Dispatching, DispatchStep, AttemptDelivered, AttemptPermanent,
      AttemptExhausted, AttemptTransient, WaitOver, WaitCancelled,
      ExhaustedReason, Drops
  <1> QED
    BY <1>1, <1>2, <1>4, <1>6

-----------------------------------------------------------------------------
(***************************************************************************)
(* Layer 3: an entry is acknowledged only once it is resolved.             *)
(***************************************************************************)
ResolvedSoFar(c) ==
  /\ pc[c] = "send" =>
       /\ cur[c] \notin bad
       /\ \A d \in Dests : d < dest[c] => result[cur[c]][d] # "none"
  /\ pc[c] \in {"ack", "acking"} => Resolved(cur[c])

Resolution == AckedIsResolved /\ \A c \in Consumers : ResolvedSoFar(c)

\* An entry once added keeps its kind, and an outcome once recorded stays.
LEMMA OutcomesStay ==
  ASSUME Base, [Next]_vars, NEW e \in Ids, e <= last
  PROVE  /\ e \in bad' <=> e \in bad
         /\ \A d \in Dests : result[e][d] # "none" => result'[e][d] # "none"
         /\ Resolved(e) => Resolved(e)'
  <1>1. e \in bad' <=> e \in bad
    BY OneCommand
    DEF XAdd, XTrim, XGroupCreate, XReadGroup, XAck, redisVars, Base, TypeOK, RedisTypeOK,
      Ids
  <1>2. \A d \in Dests : result[e][d] # "none" => result'[e][d] # "none"
    <2>1. CASE ~ \E c \in Consumers : Dispatches(c, e)
      BY <2>1, OutcomesElsewhere
    <2>2. ASSUME NEW c \in Consumers, Dispatching(c), e = cur[c],
                 NEW d \in Dests, result[e][d] # "none"
          PROVE  result'[e][d] # "none"
      BY <2>2, OutcomeHere DEF Drops
    <2>3. ASSUME NEW c \in Consumers, HandleEnvelope(c) PROVE result' = result
      BY <2>3 DEF HandleEnvelope, Send
    <2> QED
      BY <2>1, <2>2, <2>3 DEF Dispatches
  <1>3. recorded \subseteq recorded'
    BY DEF Next, Step, Gateway, Boot, Signal, ProcessEnds, Panic, Restart,
      CheckContext, ReadDeliver, ReadNil, ReadError, ReadReplyLost, BatchDone,
      LeaveBatch, HandleUnprocessable, HandleEnvelope, Dispatching, SendReturns,
      IssueAck, AckRefused, AckOk, AckFailed, NextDelivery, vars, agentVars
  <1> QED
    BY <1>1, <1>2, <1>3 DEF Resolved, Unprocessable

\* Layer 3 holds at the start: nothing is acknowledged.
LEMMA InitResolution == Init => Resolution
  BY DEF Init, RedisInit, Resolution, AckedIsResolved, ResolvedSoFar

\* handle resolves an entry before it asks for the ack: layer 3 is kept.
LEMMA NextResolution ==
  Base /\ Account /\ Resolution /\ [Next]_vars => Resolution'
  <1> SUFFICES ASSUME Base, Account, Resolution, [Next]_vars PROVE Resolution'
    OBVIOUS
  <1>1. Base'
    BY NextBase
  <1>2. \A e \in acked : e \in Ids /\ e <= last
    BY MaxIdAssumption
    DEF Account, Base, TypeOK, RedisTypeOK, Ids, NoGroup
  <1>3. \A c \in Consumers : pc[c] \in {"send", "ack", "acking"} =>
          cur[c] \in Ids /\ cur[c] <= last
    BY CurrentIsOwned, MaxIdAssumption
    DEF Base, TypeOK, RedisTypeOK, Shape, InBatch, NoGroup, Ids
  <1>4. AckedIsResolved'
    <2>1. ASSUME NEW e \in acked' PROVE Resolved(e) /\ e \in Ids /\ e <= last
      <3>1. CASE e \in acked
        BY <3>1, <1>2 DEF Resolution, AckedIsResolved
      <3>2. CASE e \notin acked
        <4>1. PICK c \in Consumers : pc[c] = "acking" /\ XAck(cur[c])
          BY <2>1, <3>2
          DEF Next, Step, Gateway, Boot, Signal, ProcessEnds, Panic, Restart,
            CheckContext, ReadDeliver, ReadNil, ReadError, ReadReplyLost,
            BatchDone, LeaveBatch, HandleUnprocessable, HandleEnvelope,
            Dispatching, SendReturns, IssueAck, AckRefused, AckOk, AckFailed,
            vars, redisVars, XAdd, XTrim, XGroupCreate, XReadGroup
        <4>2. e = cur[c]
          BY <2>1, <3>2, <4>1 DEF XAck
        <4> QED
          BY <4>1, <4>2, <1>3 DEF Resolution, ResolvedSoFar
      <3> QED
        BY <3>1, <3>2
    <2> QED
      BY <2>1, OutcomesStay DEF AckedIsResolved
  <1>5. ASSUME NEW k \in Consumers, SameLocals(k) PROVE ResolvedSoFar(k)'
    BY <1>3, <1>5, OutcomesStay DEF SameLocals, Resolution, ResolvedSoFar
  <1>6. ASSUME NEW c \in Consumers, Move(c) PROVE ResolvedSoFar(c)'
    <2>1. CASE pc'[c] \notin {"send", "ack", "acking"}
      BY <2>1 DEF ResolvedSoFar
    <2>2. CASE Signal(c)
      BY <2>2, <1>3, OutcomesStay
      DEF Signal, dispatchVars, callVars, Resolution, ResolvedSoFar
    <2>3. CASE HandleUnprocessable(c)
      BY <2>3 DEF HandleUnprocessable, Goto, ResolvedSoFar, Resolved,
        Unprocessable, redisVars, Base, TypeOK, AgentTypeOK
    <2>4. CASE HandleEnvelope(c)
      BY <2>4, DispatchAssumption
      DEF HandleEnvelope, Unprocessable, Send, CallDo, Goto, ResolvedSoFar,
        redisVars, Base, TypeOK, AgentTypeOK, DispatchTypeOK, Dests
    <2>5. CASE Dispatching(c)
      <3>1. dest[c] \in Nat /\ bad' = bad
        BY <2>5 DEF Dispatching, redisVars, Base, TypeOK, DispatchTypeOK
      <3> QED
        BY <2>5, <3>1, OutcomeHere DEF Resolution, ResolvedSoFar, Drops, Dests
    <2>6. CASE SendReturns(c)
      BY <2>6, DispatchAssumption
      DEF SendReturns, EndSend, Goto, Resolution, ResolvedSoFar, Resolved,
        Unprocessable, redisVars, Base, Shape, TypeOK, AgentTypeOK, DispatchTypeOK, Dests
    <2>7. CASE IssueAck(c)
      BY <2>7
      DEF IssueAck, Goto, Resolution, ResolvedSoFar, Resolved,
        Unprocessable, redisVars, dispatchVars, Base, TypeOK, AgentTypeOK
    <2> QED
      BY <1>6, <2>1, <2>2, <2>3, <2>4, <2>5, <2>6, <2>7
      DEF Move, Step, Boot, ProcessEnds, Panic, Restart, CheckContext,
        ReadDeliver, ReadNil, ReadError, ReadReplyLost, BatchDone, LeaveBatch,
        AckRefused, AckOk, AckFailed, NextDelivery, RunReturns, Goto, Base,
        TypeOK, AgentTypeOK
  <1>7. \A c \in Consumers : ResolvedSoFar(c)'
    <2>1. CASE \E c \in Consumers : Move(c)
      BY <2>1, <1>5, <1>6, OthersUnaffected
    <2>2. CASE Gateway \/ UNCHANGED vars
      BY <2>2, <1>5
      DEF Gateway, vars, dispatchVars, callVars, agentVars, SameLocals
    <2> QED
      BY <2>1, <2>2 DEF Next, Move
  <1> QED
    BY <1>4, <1>7 DEF Resolution

\* No entry is acknowledged before every destination has an outcome for it, or
\* its raw bytes are logged (AckedIsResolved).
THEOREM AckedResolved == Spec => []AckedIsResolved
  <1>1. Resolution => AckedIsResolved
    BY DEF Resolution
  <1> QED
    BY <1>1, InitBase, NextBase, InitAccount, NextAccount, InitResolution,
       NextResolution, PTL DEF Spec

-----------------------------------------------------------------------------
(***************************************************************************)
(* Layer 4: an entry no instance has come to yet has no outcome.           *)
(***************************************************************************)
Fresh(e) == \A d \in Dests : result[e][d] = "none"

FreshSoFar(c) ==
  pc[c] \in InBatch =>
    \A e \in cur[c] .. hi[c] : e # cur[c] \/ pc[c] = "loop" => Fresh(e)

Untouched ==
  /\ \A e \in Ids : e > ld => Fresh(e)
  /\ \A c \in Consumers : FreshSoFar(c)

\* No outcome is recorded at the start.
LEMMA InitUntouched == Init => Untouched
  BY DEF Init, RedisInit, DispatchInit, Untouched, Fresh, FreshSoFar, InBatch

\* A dispatch step records nothing for the entries after the one in hand.
LEMMA FreshHere ==
  ASSUME Base, NEW c \in Consumers, Dispatching(c), FreshSoFar(c)
  PROVE  FreshSoFar(c)'
  <1>1. /\ cur[c] \in Ids /\ pc[c] = "send"
        /\ pc' = pc /\ cur' = cur /\ hi' = hi
    BY OutcomeHere DEF Dispatching, agentVars
  <1>2. ASSUME NEW x \in cur[c] .. hi[c], x # cur[c] PROVE Fresh(x)'
    <2>1. Fresh(x)
      BY <1>1, <1>2 DEF FreshSoFar, InBatch
    <2>2. x \in Ids
      BY <1>1, <1>2, MaxIdAssumption
      DEF Base, TypeOK, RedisTypeOK, AgentTypeOK, Shape, InBatch, Ids, NoGroup
    <2>3. result'[x] = result[x]
      BY <1>2, <2>2
      DEF Dispatching, DispatchStep, AttemptDelivered, AttemptPermanent,
        AttemptExhausted, AttemptTransient, WaitOver, WaitCancelled, Record,
        Base, TypeOK, DispatchTypeOK
    <2> QED
      BY <2>1, <2>3 DEF Fresh
  <1> QED
    BY <1>1, <1>2 DEF FreshSoFar

\* An instance's entries in memory are not the ones another instance is
\* dispatching, nor entries the group has not been given.
LEMMA OthersElsewhere ==
  ASSUME Base, [Next]_vars, NEW k \in Consumers, pc[k] \in InBatch,
         ~(Dispatching(k) \/ HandleEnvelope(k)), NEW e \in cur[k] .. hi[k]
  PROVE  e \in Ids /\ result'[e] = result[e]
  <1>1. e \in Ids /\ pel[e] = k
    BY MaxIdAssumption
    DEF Base, TypeOK, RedisTypeOK, AgentTypeOK, Shape, InFlightIsOwned, Ids, NoGroup
  <1>2. \A c \in Consumers : Dispatches(c, e) => c = k
    BY <1>1, DispatchIsOwned
  <1> QED
    BY <1>1, <1>2, OutcomesElsewhere DEF Dispatches

\* Outcomes come one entry at a time, in the order of the batch (handle).
LEMMA NextUntouched == Base /\ Untouched /\ [Next]_vars => Untouched'
  <1> SUFFICES ASSUME Base, Untouched, [Next]_vars PROVE Untouched'
    OBVIOUS
  <1>2. ASSUME NEW e \in Ids, e > ld PROVE Fresh(e) /\ Fresh(e)'
    <2>1. Fresh(e)
      BY <1>2 DEF Untouched
    <2>2. \A c \in Consumers : Dispatches(c, e) => e <= ld
      BY DispatchIsOwned
    <2>3. ~ \E c \in Consumers : Dispatches(c, e)
      BY <1>2, <2>2 DEF Base, TypeOK, RedisTypeOK, Ids, NoGroup
    <2> QED
      BY <2>1, <2>3, OutcomesElsewhere DEF Fresh
  <1>3. ASSUME NEW e \in Ids, e > ld' PROVE Fresh(e)'
    <2>1. ld' >= ld /\ ld \in Int /\ ld' \in Int
      BY OneCommand, ReadRange, BatchAssumption, MaxIdAssumption
      DEF XAdd, XTrim, XGroupCreate, XReadGroup, XAck, redisVars, Base, TypeOK,
        RedisTypeOK, NoGroup
    <2> QED
      BY <1>2, <1>3, <2>1 DEF Ids
  <1>4. ASSUME NEW k \in Consumers, SameLocals(k),
               ~(Dispatching(k) \/ HandleEnvelope(k))
        PROVE  FreshSoFar(k)'
    <2>1. CASE pc[k] \in InBatch
      <3>1. \A e \in cur[k] .. hi[k] : result'[e] = result[e]
        BY <1>4, <2>1, OthersElsewhere
      <3>2. pc[k] # "loop" => cur[k] \in cur[k] .. hi[k]
        BY <2>1 DEF Base, TypeOK, AgentTypeOK, Shape, InBatch
      <3> QED
        BY <1>4, <2>1, <3>1, <3>2
        DEF SameLocals, Untouched, FreshSoFar, Fresh, InBatch, Base, Shape
    <2>2. CASE pc[k] \notin InBatch
      BY <1>4, <2>2
      DEF SameLocals, FreshSoFar, InBatch, Base, Shape, TypeOK, DispatchTypeOK
    <2> QED
      BY <2>1, <2>2
  <1>5. ASSUME NEW c \in Consumers, Move(c), ~Dispatching(c), ~HandleEnvelope(c)
        PROVE  FreshSoFar(c)'
    <2>0. UNCHANGED result
      BY <1>5
      DEF Move, Step, Boot, Signal, ProcessEnds, Panic, Restart,
        CheckContext, ReadDeliver, ReadNil, ReadError, ReadReplyLost, BatchDone,
        LeaveBatch, HandleUnprocessable, SendReturns, IssueAck, AckRefused, AckOk,
        AckFailed, NextDelivery, EndSend, dispatchVars
    <2>1. CASE pc'[c] \notin InBatch
      <3>1. phase'[c] = "idle"
        BY <2>1, NextBase DEF Base, Shape, InBatch, TypeOK, DispatchTypeOK
      <3> QED
        BY <2>1, <3>1 DEF FreshSoFar, InBatch
    <2>2. CASE Signal(c)
      BY <2>0, <2>2
      DEF Signal, dispatchVars, callVars, Untouched, FreshSoFar, Fresh
    <2>3. CASE ReadDeliver(c)
      <3>1. /\ Unread \in ld + 1 .. last /\ ReadUpTo(BatchSize) \in Ids
            /\ Unread \in Ids
        BY <2>3, ReadRange, BatchAssumption
        DEF ReadDeliver, XReadGroup, Base, TypeOK
      <3>2. /\ pc'[c] = "loop" /\ phase'[c] = "idle"
            /\ cur'[c] = Unread /\ hi'[c] = ReadUpTo(BatchSize)
        BY <2>3
        DEF ReadDeliver, Goto, dispatchVars, callVars, Base, Shape, TypeOK,
          AgentTypeOK, DispatchTypeOK
      <3>3. \A e \in Unread .. ReadUpTo(BatchSize) : e \in Ids /\ e > ld
        BY <3>1, MaxIdAssumption DEF Base, TypeOK, RedisTypeOK, Ids, NoGroup
      <3> QED
        BY <3>2, <3>3, <1>2 DEF FreshSoFar
    <2>4. CASE HandleUnprocessable(c) \/ SendReturns(c) \/ IssueAck(c)
      <3>1. /\ pc[c] \in InBatch /\ pc'[c] \in {"ack", "acking"}
            /\ UNCHANGED <<cur, hi>> /\ phase'[c] = "idle"
        BY <2>4
        DEF HandleUnprocessable, SendReturns, IssueAck, EndSend, Goto, InBatch,
          dispatchVars, callVars, Base, Shape, TypeOK, AgentTypeOK,
          DispatchTypeOK
      <3> QED
        BY <2>0, <3>1 DEF Untouched, FreshSoFar, Fresh, InBatch
    <2>6. CASE AckRefused(c) \/ AckOk(c) \/ AckFailed(c)
      <3>1. /\ pc[c] \in InBatch /\ pc[c] # "loop" /\ pc'[c] = "loop"
            /\ cur'[c] = cur[c] + 1 /\ hi' = hi /\ phase'[c] = "idle"
        BY <2>6
        DEF AckRefused, AckOk, AckFailed, NextDelivery, Goto, InBatch,
          dispatchVars, callVars, Base, Shape, TypeOK, AgentTypeOK,
          DispatchTypeOK
      <3>2. \A e \in cur[c] + 1 .. hi[c] : e \in cur[c] .. hi[c] /\ e # cur[c]
        BY DEF Base, TypeOK, AgentTypeOK
      <3> QED
        BY <2>0, <3>1, <3>2 DEF Untouched, FreshSoFar, Fresh
    <2>7. CASE ReadReplyLost(c)
      BY <2>1, <2>7
      DEF ReadReplyLost, RunReturns, Goto, InBatch, Base, TypeOK, AgentTypeOK
    <2>8. CASE Boot(c) \/ ProcessEnds(c) \/ Panic(c) \/ Restart(c)
               \/ CheckContext(c) \/ ReadNil(c) \/ ReadError(c) \/ BatchDone(c)
               \/ LeaveBatch(c)
      BY <2>1, <2>8
      DEF Boot, ProcessEnds, Panic, Restart, CheckContext, ReadNil, ReadError,
        BatchDone, LeaveBatch, RunReturns, Goto, InBatch, Base, TypeOK,
        AgentTypeOK
    <2> QED
      BY <1>5, <2>2, <2>3, <2>4, <2>6, <2>7, <2>8 DEF Move, Step
  <1>6. ASSUME NEW c \in Consumers, Dispatching(c) \/ HandleEnvelope(c)
        PROVE  FreshSoFar(c)'
    <2>1. CASE Dispatching(c)
      BY <2>1, FreshHere DEF Untouched
    <2>2. CASE HandleEnvelope(c)
      <3>1. /\ pc[c] = "loop" /\ pc'[c] = "send"
            /\ UNCHANGED <<cur, hi>> /\ result' = result
            /\ cur[c] \in cur[c] .. hi[c]
        BY <2>2
        DEF HandleEnvelope, Send, Goto, Base, TypeOK, AgentTypeOK
      <3>2. \A e \in cur[c] .. hi[c] : Fresh(e)
        BY <3>1 DEF Untouched, FreshSoFar, InBatch
      <3> QED
        BY <3>1, <3>2 DEF FreshSoFar, Fresh
    <2> QED
      BY <1>6, <2>1, <2>2
  <1>7. ASSUME NEW k \in Consumers PROVE FreshSoFar(k)'
    <2>1. ASSUME NEW c \in Consumers, Move(c) PROVE FreshSoFar(k)'
      <3>1. CASE k = c
        BY <2>1, <3>1, <1>5, <1>6
      <3>2. CASE k # c
        <4>1. SameLocals(k)
          BY <2>1, <3>2, OthersUnaffected
        <4>2. CASE Dispatching(k) \/ HandleEnvelope(k)
          BY <4>2, <1>6
        <4>3. CASE ~(Dispatching(k) \/ HandleEnvelope(k))
          BY <4>1, <4>3, <1>4
        <4> QED
          BY <4>2, <4>3
      <3> QED
        BY <3>1, <3>2
    <2>2. CASE Gateway \/ UNCHANGED vars
      <3>1. SameLocals(k)
        BY <2>2 DEF Gateway, vars, dispatchVars, callVars, agentVars, SameLocals
      <3> QED
        BY <3>1, <1>4, <1>6
    <2> QED
      BY <2>1, <2>2 DEF Next, Move
  <1> QED
    BY <1>3, <1>7 DEF Untouched

-----------------------------------------------------------------------------
(***************************************************************************)
(* Layer 5: work cut short by cancellation is never acknowledged.  The     *)
(* context was cancelled when the cut was recorded, it stays cancelled     *)
(* until the process ends, and go-redis refuses the ack.                   *)
(***************************************************************************)
NotCut(e) == \A d \in Dests : result[e][d] # "cancelled"

CutSoFar(c) ==
  /\ pc[c] = "acking" => NotCut(cur[c])
  /\ pc[c] \in {"send", "ack"} => NotCut(cur[c]) \/ c \in cancelled

Cut == CutWorkIsNotAcked /\ \A c \in Consumers : CutSoFar(c)

\* Nothing is cut short at the start.
LEMMA InitCut == Init => Cut
  BY DEF Init, RedisInit, Cut, CutWorkIsNotAcked, CutSoFar

\* Once a dispatch was cut short the context is done, so its ack is refused.
LEMMA NextCut ==
  Base /\ Account /\ Untouched /\ Cut /\ [Next]_vars => Cut'
  <1> SUFFICES ASSUME Base, Account, Untouched, Cut, [Next]_vars PROVE Cut'
    OBVIOUS
  <1>1. CutWorkIsNotAcked'
    <2>1. ASSUME NEW e \in acked' PROVE NotCut(e)'
      <3>1. CASE e \in acked
        <4>1. e \in Ids /\ pel[e] = None /\ NotCut(e)
          BY <3>1
          DEF Account, Cut, CutWorkIsNotAcked, NotCut, Base, TypeOK, RedisTypeOK
        <4>3. ~ \E c \in Consumers : Dispatches(c, e)
          BY <4>1, DispatchIsOwned, NoneAssumption
        <4> QED
          BY <4>1, <4>3, OutcomesElsewhere DEF NotCut
      <3>2. CASE e \notin acked
        <4>1. PICK c \in Consumers :
                /\ pc[c] = "acking" /\ XAck(cur[c])
                /\ UNCHANGED result
          BY <2>1, <3>2
          DEF Next, Step, Gateway, Boot, Signal, ProcessEnds, Panic, Restart,
            CheckContext, ReadDeliver, ReadNil, ReadError, ReadReplyLost,
            BatchDone, LeaveBatch, HandleUnprocessable, HandleEnvelope,
            Dispatching, SendReturns, IssueAck, AckRefused, AckOk, AckFailed,
            NextDelivery, vars, redisVars, dispatchVars, XAdd, XTrim, XGroupCreate,
            XReadGroup
        <4>2. e = cur[c]
          BY <2>1, <3>2, <4>1 DEF XAck
        <4> QED
          BY <4>1, <4>2 DEF Cut, CutSoFar, NotCut
      <3> QED
        BY <3>1, <3>2
    <2> QED
      BY <2>1 DEF CutWorkIsNotAcked, NotCut
  <1>2. ASSUME NEW k \in Consumers, SameLocals(k),
               ~(Dispatching(k) \/ HandleEnvelope(k))
        PROVE  CutSoFar(k)'
    <2>1. CASE pc[k] \in {"send", "ack", "acking"}
      <3>1. cur[k] \in cur[k] .. hi[k] /\ pc[k] \in InBatch
        BY <2>1 DEF Base, TypeOK, AgentTypeOK, Shape, InBatch
      <3>2. result'[cur[k]] = result[cur[k]]
        BY <1>2, <3>1, OthersElsewhere
      <3> QED
        BY <1>2, <3>2 DEF SameLocals, Cut, CutSoFar, NotCut
    <2>2. CASE pc[k] \notin {"send", "ack", "acking"}
      BY <1>2, <2>2 DEF SameLocals, CutSoFar
    <2> QED
      BY <2>1, <2>2
  <1>3. ASSUME NEW c \in Consumers, Dispatching(c) PROVE CutSoFar(c)'
    <2>1. UNCHANGED cancelled
      BY <1>3 DEF Dispatching, agentVars
    <2> QED
      BY <1>3, <2>1, OutcomeHere DEF Cut, CutSoFar, NotCut
  <1>4. ASSUME NEW c \in Consumers, Move(c), ~Dispatching(c) PROVE CutSoFar(c)'
    <2>0. UNCHANGED result
      BY <1>4
      DEF Move, Step, Boot, Signal, ProcessEnds, Panic, Restart,
        CheckContext, ReadDeliver, ReadNil, ReadError, ReadReplyLost, BatchDone,
        LeaveBatch, HandleUnprocessable, HandleEnvelope, SendReturns, IssueAck,
        AckRefused, AckOk, AckFailed, NextDelivery, Send, EndSend, dispatchVars
    <2>1. CASE pc'[c] \notin {"send", "ack", "acking"}
      BY <2>1 DEF CutSoFar
    <2>2. CASE Signal(c)
      BY <2>0, <2>2 DEF Signal, Cut, CutSoFar, NotCut
    <2>3. CASE HandleUnprocessable(c) \/ HandleEnvelope(c)
      <3>1. /\ pc[c] = "loop" /\ pc'[c] \in {"ack", "send"}
            /\ cur' = cur /\ cur[c] \in cur[c] .. hi[c]
        BY <2>3
        DEF HandleUnprocessable, HandleEnvelope, Goto, Base, TypeOK, AgentTypeOK
      <3>2. Fresh(cur[c])
        BY <3>1 DEF Untouched, FreshSoFar, InBatch
      <3> QED
        BY <2>0, <3>1, <3>2 DEF CutSoFar, NotCut, Fresh
    <2>4. CASE SendReturns(c) \/ IssueAck(c)
      BY <2>0, <2>4
      DEF SendReturns, IssueAck, Goto, Cut, CutSoFar, NotCut, Base, TypeOK,
        AgentTypeOK
    <2> QED
      BY <1>4, <2>1, <2>2, <2>3, <2>4
      DEF Move, Step, Boot, ProcessEnds, Panic, Restart, CheckContext,
        ReadDeliver, ReadNil, ReadError, ReadReplyLost, BatchDone, LeaveBatch,
        AckRefused, AckOk, AckFailed, NextDelivery, RunReturns, Goto, Base,
        TypeOK, AgentTypeOK
  <1>5. ASSUME NEW k \in Consumers PROVE CutSoFar(k)'
    <2>1. ASSUME NEW c \in Consumers, Move(c) PROVE CutSoFar(k)'
      BY <2>1, <1>2, <1>3, <1>4, OthersUnaffected DEF Move, Step
    <2>2. CASE Gateway \/ UNCHANGED vars
      <3>1. SameLocals(k)
        BY <2>2 DEF Gateway, vars, dispatchVars, callVars, agentVars, SameLocals
      <3> QED
        BY <3>1, <1>2, <1>3, <1>4 DEF Move, Step
    <2> QED
      BY <2>1, <2>2 DEF Next, Move
  <1> QED
    BY <1>1, <1>5 DEF Cut

\* An entry whose dispatch was cut short by cancellation is never acknowledged,
\* although handle asks for it (CutWorkIsNotAcked).
THEOREM CutNotAcked == Spec => []CutWorkIsNotAcked
  <1>1. Cut => CutWorkIsNotAcked
    BY DEF Cut
  <1> QED
    BY <1>1, InitBase, NextBase, InitAccount, NextAccount, InitUntouched,
       NextUntouched, InitCut, NextCut, PTL DEF Spec

-----------------------------------------------------------------------------
(***************************************************************************)
(* Layer 6: how long one call of Do can take.                              *)
(***************************************************************************)
TimeSoFar(c) ==
  /\ backoff[c] <= WorstWait
  /\ phase[c] = "attempt" =>
       elapsed[c] <= (attempt[c] - 1) * Timeout + (attempt[c] - 1) * WorstWait
  /\ phase[c] = "wait" =>
       elapsed[c] <= attempt[c] * Timeout + (attempt[c] - 1) * WorstWait

Timing == \A c \in Consumers : TimeSoFar(c)

\* The longest wait of Policy.Do is a natural number.
LEMMA WorstWaitType ==
  WorstWait \in Nat /\ BackoffInitial <= WorstWait /\ BackoffMax <= WorstWait
  BY DispatchAssumption DEF WorstWait, Larger

\* No call of Do is in progress at the start.
LEMMA InitTiming == Init => Timing
  <1>1. Init => \A c \in Consumers : backoff[c] = 0 /\ phase[c] = "idle"
    BY DEF Init, DispatchInit
  <1>2. 0 <= WorstWait
    BY WorstWaitType
  <1> QED
    BY <1>1, <1>2 DEF Timing, TimeSoFar

\* One call of Do, one step further.
LEMMA DispatchTiming ==
  ASSUME Base, NEW c \in Consumers, TimeSoFar(c), Dispatching(c)
  PROVE  TimeSoFar(c)'
  <1>1. /\ elapsed \in [Consumers -> Nat] /\ backoff \in [Consumers -> Nat]
        /\ attempt \in [Consumers -> 1 .. MaxAttempts]
        /\ phase \in [Consumers -> {"idle", "attempt", "wait", "sent"}]
        /\ MaxAttempts \in Nat /\ Timeout \in Nat
    BY DispatchAssumption DEF Base, TypeOK, DispatchTypeOK
  <1>2. ASSUME NEW d, CallDo(c, d) PROVE TimeSoFar(c)'
    <2>1. /\ backoff'[c] = BackoffInitial /\ elapsed'[c] = 0 /\ attempt'[c] = 1
          /\ phase'[c] \in {"attempt", "sent"}
      BY <1>1, <1>2 DEF CallDo
    <2> QED
      BY <1>1, <2>1, WorstWaitType, DispatchAssumption DEF TimeSoFar, WorstWait
  <1>3. CASE AttemptTransient(c)
    <2>1. PICK t \in 0 .. Timeout : elapsed' = [elapsed EXCEPT ![c] = @ + t]
      BY <1>3 DEF AttemptTransient
    <2>2. /\ phase[c] = "attempt" /\ phase'[c] = "wait"
          /\ elapsed'[c] = elapsed[c] + t
          /\ UNCHANGED <<attempt, backoff>>
      BY <1>1, <1>3, <2>1 DEF AttemptTransient
    <2>3. elapsed[c] <= (attempt[c] - 1) * Timeout + (attempt[c] - 1) * WorstWait
      BY <2>2 DEF TimeSoFar
    <2>4. (attempt[c] - 1) * Timeout + Timeout = attempt[c] * Timeout
      BY <1>1
    <2>5. /\ (attempt[c] - 1) * Timeout \in Int /\ attempt[c] * Timeout \in Int
          /\ (attempt[c] - 1) * WorstWait \in Int
      BY <1>1, WorstWaitType
    <2>6. elapsed[c] + t <= attempt[c] * Timeout + (attempt[c] - 1) * WorstWait
      BY <1>1, <2>1, <2>3, <2>4, <2>5
    <2> QED
      BY <2>2, <2>6 DEF TimeSoFar, WorstWait
  <1>4. CASE WaitOver(c)
    <2>1. PICK t \in 0 .. backoff[c] : elapsed' = [elapsed EXCEPT ![c] = @ + t]
      BY <1>4 DEF WaitOver
    <2>2. /\ phase[c] = "wait" /\ phase'[c] = "attempt"
          /\ elapsed'[c] = elapsed[c] + t /\ attempt'[c] = attempt[c] + 1
          /\ backoff'[c] = NextBackoff(backoff[c])
      BY <1>1, <1>4, <2>1 DEF WaitOver
    <2>3. /\ elapsed[c] <= attempt[c] * Timeout + (attempt[c] - 1) * WorstWait
          /\ backoff[c] <= WorstWait
      BY <2>2 DEF TimeSoFar
    <2>4. (attempt[c] - 1) * WorstWait + WorstWait = attempt[c] * WorstWait
      BY <1>1, WorstWaitType
    <2>5. /\ attempt[c] * Timeout \in Int /\ attempt[c] * WorstWait \in Int
          /\ (attempt[c] - 1) * WorstWait \in Int
          /\ (attempt[c] + 1) - 1 = attempt[c]
      BY <1>1, WorstWaitType
    <2>6. elapsed[c] + t <= attempt[c] * Timeout + attempt[c] * WorstWait
      BY <1>1, <2>1, <2>3, <2>4, <2>5, WorstWaitType
    <2>7. backoff'[c] <= WorstWait
      BY <1>1, <2>2, WorstWaitType, DispatchAssumption DEF NextBackoff, Smaller
    <2> QED
      BY <2>2, <2>5, <2>6, <2>7 DEF TimeSoFar, WorstWait
  <1> QED
    BY <1>2, <1>3, <1>4
    DEF Dispatching, DispatchStep, AttemptDelivered, AttemptPermanent,
      AttemptExhausted, WaitCancelled, Record

\* Every step keeps the time a call of Do has taken within its share.
LEMMA NextTiming == Base /\ Timing /\ [Next]_vars => Timing'
  <1> SUFFICES ASSUME Base, Timing, [Next]_vars, NEW k \in Consumers
               PROVE  TimeSoFar(k)'
    BY DEF Timing
  <1> DEFINE SameCall == /\ phase'[k] = phase[k] /\ attempt'[k] = attempt[k]
                         /\ backoff'[k] = backoff[k] /\ elapsed'[k] = elapsed[k]
  <1>1. ASSUME SameCall PROVE TimeSoFar(k)'
    BY <1>1 DEF Timing, TimeSoFar, WorstWait
  <1>2. ASSUME NEW c \in Consumers, Move(c) PROVE TimeSoFar(k)'
    <2>1. CASE k # c
      BY <1>1, <1>2, <2>1, OthersUnaffected DEF SameLocals
    <2>2. CASE k = c /\ Dispatching(c)
      BY <2>2, DispatchTiming DEF Timing
    <2>3. CASE k = c /\ HandleEnvelope(c)
      <3>1. /\ backoff'[k] = BackoffInitial /\ elapsed'[k] = 0 /\ attempt'[k] = 1
            /\ phase'[k] \in {"attempt", "sent"}
        BY <2>3 DEF HandleEnvelope, Send, CallDo, Base, TypeOK, DispatchTypeOK
      <3> QED
        BY <3>1, WorstWaitType, DispatchAssumption DEF TimeSoFar, WorstWait
    <2>4. CASE k = c /\ (SendReturns(c) \/ Panic(c) \/ ProcessEnds(c))
      <3>1. backoff'[k] = 0 /\ phase'[k] = "idle"
        BY <2>4
        DEF SendReturns, Panic, ProcessEnds, EndSend, Base, TypeOK, DispatchTypeOK
      <3>2. 0 <= WorstWait
        BY WorstWaitType
      <3> QED
        BY <3>1, <3>2 DEF TimeSoFar, WorstWait
    <2>5. CASE ~(Dispatching(c) \/ HandleEnvelope(c) \/ SendReturns(c) \/ Panic(c)
                 \/ ProcessEnds(c))
      <3>1. UNCHANGED callVars
        BY <1>2, <2>5
        DEF Move, Step, Boot, Signal, Restart, CheckContext, ReadDeliver, ReadNil,
          ReadError, ReadReplyLost, BatchDone, LeaveBatch, HandleUnprocessable,
          IssueAck, AckRefused, AckOk, AckFailed, NextDelivery, dispatchVars
      <3> QED
        BY <1>1, <3>1 DEF callVars
    <2> QED
      BY <2>1, <2>2, <2>3, <2>4, <2>5
  <1>3. CASE Gateway \/ UNCHANGED vars
    BY <1>1, <1>3 DEF Gateway, vars, dispatchVars, callVars
  <1> QED
    BY <1>2, <1>3 DEF Next, Move

\* However a destination behaves, one call of Do ends within MaxAttempts times
\* the timeout and MaxAttempts - 1 waits (DoIsBounded).
THEOREM DoBounded == Spec => []DoIsBounded
  <1>1. ASSUME Base, Timing PROVE DoIsBounded
    <2>1. ASSUME NEW c \in Consumers, phase[c] \in {"attempt", "wait"}
          PROVE  /\ phase[c] = "attempt" => elapsed[c] + Timeout <= DoBound
                 /\ phase[c] = "wait" => elapsed[c] + backoff[c] + Timeout <= DoBound
      <3> DEFINE n == attempt[c] - 1
                 m == MaxAttempts - 1
                 T == Timeout
                 W == WorstWait
      <3>1. /\ elapsed[c] \in Nat /\ backoff[c] \in Nat /\ backoff[c] <= W
            /\ n \in Nat /\ m \in Nat /\ n <= m /\ T \in Nat /\ W \in Nat
            /\ phase[c] = "wait" => n + 1 <= m
            /\ MaxAttempts = m + 1 /\ attempt[c] = n + 1
        BY <1>1, DispatchAssumption, WorstWaitType
        DEF Base, TypeOK, DispatchTypeOK, Shape, Timing, TimeSoFar
      <3>2. /\ phase[c] = "attempt" => elapsed[c] <= n * T + n * W
            /\ phase[c] = "wait" => elapsed[c] <= (n + 1) * T + n * W
        BY <1>1, <3>1 DEF Timing, TimeSoFar
      <3>3. DoBound = (m + 1) * T + m * W
        BY <3>1 DEF DoBound
      <3> HIDE DEF n, m, T, W
      <3>4. ASSUME NEW i \in Nat, NEW j \in Nat, NEW x \in Nat, i <= j
            PROVE  i * x <= j * x
        BY <3>4
      <3>5. /\ n * T <= m * T /\ n * W <= m * W
            /\ n * T \in Int /\ m * T \in Int /\ n * W \in Int /\ m * W \in Int
            /\ (m + 1) * T = m * T + T /\ (n + 1) * T = n * T + T
            /\ (n + 1) * W = n * W + W
        BY <3>1, <3>4
      <3>6. phase[c] = "wait" => (n + 1) * T <= m * T /\ (n + 1) * W <= m * W
        BY <3>1, <3>4
      <3>7. phase[c] = "attempt" => elapsed[c] + T <= DoBound
        BY <3>1, <3>2, <3>3, <3>5
      <3>8. phase[c] = "wait" => elapsed[c] + backoff[c] + T <= DoBound
        BY <3>1, <3>2, <3>3, <3>5, <3>6
      <3> QED
        BY <3>7, <3>8 DEF T
    <2> QED
      BY <2>1 DEF DoIsBounded
  <1> QED
    BY <1>1, InitBase, NextBase, InitTiming, NextTiming, PTL DEF Spec

-----------------------------------------------------------------------------
(***************************************************************************)
(* Layer 7: nothing is known of an entry before its turn.  An entry the    *)
(* group was not given is not recorded, and the destinations Send has not  *)
(* finished with have no outcome, so no outcome is ever overwritten.       *)
(***************************************************************************)
NothingAhead(c) ==
  pc[c] = "send" => \A d \in Dests : d >= dest[c] => result[cur[c]][d] = "none"

Ahead ==
  /\ \A e \in Ids : e > ld => e \notin recorded
  /\ \A c \in Consumers : NothingAhead(c)

\* Nothing is recorded at the start.
LEMMA InitAhead == Init => Ahead
  BY DEF Init, Ahead, NothingAhead

\* last-delivered-id of the group never goes back.
LEMMA PositionGrows ==
  ASSUME Base, [Next]_vars PROVE ld' >= ld /\ ld \in Int /\ ld' \in Int
  BY OneCommand, ReadRange, BatchAssumption, MaxIdAssumption
  DEF XAdd, XTrim, XGroupCreate, XReadGroup, XAck, redisVars, Base, TypeOK,
    RedisTypeOK, NoGroup

\* Send goes through the destinations in order and handle records only what was
\* read: layer 7 is kept.
LEMMA NextAhead == Base /\ Untouched /\ Ahead /\ [Next]_vars => Ahead'
  <1> SUFFICES ASSUME Base, Untouched, Ahead, [Next]_vars PROVE Ahead'
    OBVIOUS
  <1>1. ASSUME NEW e \in Ids, e > ld' PROVE e \notin recorded'
    <2>1. e > ld
      BY <1>1, PositionGrows DEF Ids
    <2>2. ASSUME NEW c \in Consumers, HandleUnprocessable(c) PROVE e # cur[c]
      <3>1. cur[c] <= ld /\ cur[c] \in Ids
        BY <2>2, CurrentIsOwned DEF HandleUnprocessable, InBatch
      <3> QED
        BY <2>1, <3>1, PositionGrows DEF Ids
    <2>3. \A c \in Consumers : HandleUnprocessable(c) =>
            recorded' = recorded \cup {cur[c]}
      BY DEF HandleUnprocessable
    <2>4. CASE ~ \E c \in Consumers : HandleUnprocessable(c)
      <3>1. recorded' = recorded
        BY <2>4
        DEF Next, Step, Gateway, Boot, Signal, ProcessEnds, Panic, Restart,
          CheckContext, ReadDeliver, ReadNil, ReadError, ReadReplyLost, BatchDone,
          LeaveBatch, HandleEnvelope, Dispatching, SendReturns, IssueAck,
          AckRefused, AckOk, AckFailed, NextDelivery, vars, agentVars
      <3> QED
        BY <2>1, <3>1 DEF Ahead
    <2> QED
      BY <2>1, <2>2, <2>3, <2>4 DEF Ahead
  <1>2. ASSUME NEW k \in Consumers, SameLocals(k),
               ~(Dispatching(k) \/ HandleEnvelope(k))
        PROVE  NothingAhead(k)'
    <2>1. CASE pc[k] = "send"
      <3>1. cur[k] \in cur[k] .. hi[k] /\ pc[k] \in InBatch
        BY <2>1 DEF Base, TypeOK, AgentTypeOK, Shape, InBatch
      <3>2. result'[cur[k]] = result[cur[k]]
        BY <1>2, <3>1, OthersElsewhere
      <3> QED
        BY <1>2, <3>2 DEF SameLocals, Ahead, NothingAhead
    <2>2. CASE pc[k] # "send"
      BY <1>2, <2>2 DEF SameLocals, NothingAhead
    <2> QED
      BY <2>1, <2>2
  <1>3. ASSUME NEW c \in Consumers, Dispatching(c) PROVE NothingAhead(c)'
    <2>1. dest[c] \in Dests /\ \A d \in Dests : d \in Int
      BY <1>3, OutcomeHere DEF Dests
    <2>2. \A d \in Dests : d >= dest[c] + 1 => d # dest[c] /\ d >= dest[c]
      BY <2>1
    <2>3. \A d \in Dests : d >= dest[c] => result[cur[c]][d] = "none"
      BY <1>3, OutcomeHere DEF Ahead, NothingAhead
    <2> QED
      BY <1>3, <2>2, <2>3, OutcomeHere DEF NothingAhead
  <1>4. ASSUME NEW c \in Consumers, HandleEnvelope(c) PROVE NothingAhead(c)'
    <2>1. /\ pc[c] = "loop" /\ cur' = cur /\ cur[c] \in cur[c] .. hi[c]
          /\ result' = result
      BY <1>4 DEF HandleEnvelope, Send, Base, TypeOK, AgentTypeOK
    <2>2. Fresh(cur[c])
      BY <2>1 DEF Untouched, FreshSoFar, InBatch
    <2> QED
      BY <2>1, <2>2 DEF NothingAhead, Fresh
  <1>5. ASSUME NEW c \in Consumers, Move(c), ~Dispatching(c), ~HandleEnvelope(c)
        PROVE  NothingAhead(c)'
    <2>1. CASE pc'[c] # "send"
      BY <2>1 DEF NothingAhead
    <2>2. CASE Signal(c)
      BY <2>2 DEF Signal, dispatchVars, callVars, Ahead, NothingAhead
    <2> QED
      BY <1>5, <2>1, <2>2
      DEF Move, Step, Boot, ProcessEnds, Panic, Restart, CheckContext,
        ReadDeliver, ReadNil, ReadError, ReadReplyLost, BatchDone, LeaveBatch,
        HandleUnprocessable, SendReturns, IssueAck, AckRefused, AckOk, AckFailed,
        NextDelivery, RunReturns, Goto, Base, TypeOK, AgentTypeOK
  <1>6. ASSUME NEW k \in Consumers PROVE NothingAhead(k)'
    <2>1. ASSUME NEW c \in Consumers, Move(c) PROVE NothingAhead(k)'
      BY <2>1, <1>2, <1>3, <1>4, <1>5, OthersUnaffected
    <2>2. CASE Gateway \/ UNCHANGED vars
      <3>1. SameLocals(k)
        BY <2>2 DEF Gateway, vars, dispatchVars, callVars, agentVars, SameLocals
      <3> QED
        BY <3>1, <1>2, <1>3, <1>4
    <2> QED
      BY <2>1, <2>2 DEF Next, Move
  <1> QED
    BY <1>1, <1>6 DEF Ahead

-----------------------------------------------------------------------------
(***************************************************************************)
(* The agent implements EventLedger.  A step is one command of Redis, or   *)
(* it records one outcome, never both; each of these is followed through   *)
(* the fate of every event.                                                *)
(***************************************************************************)

\* A step of the service is a command, an outcome of Do or a logged payload.
LEMMA OneEffect ==
  ASSUME [Next]_vars
  PROVE  \/ /\ UNCHANGED <<result, recorded>>
            /\ \/ XAdd \/ XTrim \/ XGroupCreate
               \/ \E c \in Consumers : XReadGroup(c, BatchSize)
               \/ \E c \in Consumers : pc[c] = "acking" /\ XAck(cur[c])
               \/ UNCHANGED redisVars
         \/ /\ UNCHANGED <<redisVars, recorded>>
            /\ \E c \in Consumers : Dispatching(c)
         \/ /\ UNCHANGED <<redisVars, result>>
            /\ \E c \in Consumers : HandleUnprocessable(c)
  <1>1. CASE Gateway \/ UNCHANGED vars
    BY <1>1 DEF Gateway, vars, dispatchVars, agentVars
  <1>2. ASSUME NEW c \in Consumers, Dispatching(c) \/ HandleUnprocessable(c)
        PROVE  \/ UNCHANGED <<redisVars, recorded>> /\ Dispatching(c)
               \/ UNCHANGED <<redisVars, result>> /\ HandleUnprocessable(c)
    BY <1>2 DEF Dispatching, HandleUnprocessable, agentVars, dispatchVars
  <1>3. ASSUME NEW c \in Consumers, Move(c), ~Dispatching(c),
               ~HandleUnprocessable(c)
        PROVE  /\ UNCHANGED <<result, recorded>>
               /\ \/ XGroupCreate
                  \/ XReadGroup(c, BatchSize)
                  \/ pc[c] = "acking" /\ XAck(cur[c])
                  \/ UNCHANGED redisVars
    BY <1>3
    DEF Move, Step, Boot, Signal, ProcessEnds, Panic, Restart,
      CheckContext, ReadDeliver, ReadNil, ReadError, ReadReplyLost, BatchDone,
      LeaveBatch, HandleEnvelope, SendReturns, IssueAck, AckRefused, AckOk,
      AckFailed, NextDelivery, Send, EndSend, dispatchVars
  <1> QED
    BY <1>1, <1>2, <1>3 DEF Next, Move

\* The refinement mapping turns a change of fates into the ledger's Become.
LEMMA MappedBecome ==
  ASSUME NEW es, NEW to,
         \A e \in Ids : Fate(e)' = IF e \in es THEN to ELSE Fate(e),
         ld' = NoGroup <=> ld = NoGroup
  PROVE  Ledger!Become(es, to)
  <1>1. [e \in Ids |-> Fate(e)'] = [e \in Ids |-> IF e \in es THEN to ELSE Fate(e)]
    OBVIOUS
  <1>2. (ld # NoGroup)' = (ld # NoGroup)
    BY DEF NoGroup
  <1> QED
    BY <1>1, <1>2 DEF Ledger!Become, Ledger!Events, Ids

\* A step that changes no fate is a stutter of the ledger.
LEMMA MappedStutter ==
  ASSUME \A e \in Ids : Fate(e)' = Fate(e), ld' = NoGroup <=> ld = NoGroup
  PROVE  UNCHANGED Ledger!vars
  <1>1. [e \in Ids |-> Fate(e)'] = [e \in Ids |-> Fate(e)]
    OBVIOUS
  <1>2. (ld # NoGroup)' = (ld # NoGroup)
    BY DEF NoGroup
  <1> QED
    BY <1>1, <1>2 DEF Ledger!vars

\* The gateway's XADD publishes the next event.
LEMMA AddPublishes ==
  ASSUME Base, XAdd, UNCHANGED <<result, recorded>> PROVE Ledger!Publish
  <1> DEFINE n == last + 1
  <1>1. /\ n \in Ids /\ last \in Int /\ first <= n /\ first \in Int
        /\ ld \in Int /\ ld <= last /\ start \in Int /\ start <= ld
        /\ last' = n
        /\ UNCHANGED <<first, ld, start, pel, acked>>
    BY MaxIdAssumption DEF XAdd, Base, TypeOK, RedisTypeOK, Ids, NoGroup
  <1>2. \A e \in Ids : e # n => (e \in bad' <=> e \in bad)
    BY DEF XAdd
  <1> HIDE DEF n
  <1>3. \A e \in Ids : e # n => FateOfRead(e)' = FateOfRead(e)
    BY <1>1, <1>2 DEF FateOfRead, CutShort, Resolved, Unprocessable
  <1>4. \A e \in Ids : Fate(e)' = IF e \in {n}
          THEN (IF ld # NoGroup THEN "waiting" ELSE "early") ELSE Fate(e)
    BY <1>1, <1>3 DEF Fate, Ids, n, NoGroup
  <1>5. Ledger!Become({n}, IF ld # NoGroup THEN "waiting" ELSE "early")
    BY <1>1, <1>4, MappedBecome
  <1>6. Fate(n) = "unborn" /\ \A f \in 1 .. n - 1 : f \in Ids /\ Fate(f) # "unborn"
    BY <1>1, MaxIdAssumption DEF Fate, FateOfRead, Ids, n
  <1> QED
    BY <1>1, <1>5, <1>6 DEF Ledger!Publish, Ledger!Events, Ids

\* Trimming loses the oldest waiting events, or none that the group waits for.
LEMMA TrimLoses ==
  ASSUME Base, XTrim, UNCHANGED <<result, recorded>>
  PROVE  Ledger!Lose \/ UNCHANGED Ledger!vars
  <1>1. /\ last \in Int /\ last <= MaxId /\ first \in Int /\ first >= 1
        /\ ld \in Int /\ ld <= last /\ start \in Int /\ start <= ld
        /\ UNCHANGED <<last, bad, ld, start, pel, acked>>
    BY MaxIdAssumption DEF XTrim, Base, TypeOK, RedisTypeOK, Ids, NoGroup
  <1>2. PICK n \in Int : first' = n + 1 /\ first <= n /\ n <= last
    <2>1. PICK m \in first + 1 .. last + 1 : first' = m
      BY DEF XTrim
    <2>2. m - 1 \in Int /\ m = (m - 1) + 1 /\ first <= m - 1 /\ m - 1 <= last
      BY <1>1, <2>1
    <2> QED
      BY <2>1, <2>2
  <1> DEFINE es == {f \in 1 .. n : Fate(f) = "waiting"}
  <1>3. \A e \in Ids : FateOfRead(e)' = FateOfRead(e)
    BY <1>1 DEF FateOfRead, CutShort, Resolved, Unprocessable
  <1>4. \A e \in Ids : Fate(e) = "waiting" <=>
          ld # NoGroup /\ e <= last /\ e > ld /\ e >= first
    BY <1>1 DEF Fate, FateOfRead, Ids
  <1>5. \A e \in Ids : Fate(e)' =
          IF Fate(e) = "waiting" /\ e <= n THEN "lost" ELSE Fate(e)
    BY <1>1, <1>2, <1>3, <1>4 DEF Fate, Ids, NoGroup
  <1>6. \A e \in Ids : e \in es <=> Fate(e) = "waiting" /\ e <= n
    BY <1>2 DEF Ids
  <1>7. CASE ld # NoGroup /\ n > ld
    <2>1. n \in Ids
      BY <1>1, <1>2, MaxIdAssumption DEF Ids
    <2>2. Fate(n) = "waiting"
      BY <1>1, <1>2, <1>4, <1>7, <2>1
    <2>3. \A f \in 1 .. n : f \in Ids
      BY <2>1, MaxIdAssumption DEF Ids
    <2>4. es = {f \in 1 .. n : [e \in Ids |-> Fate(e)][f] = "waiting"}
      BY <2>3
    <2> HIDE DEF es
    <2>5. Ledger!Become(es, "lost")
      BY <1>1, <1>5, <1>6, MappedBecome
    <2>6. [e \in Ids |-> Fate(e)][n] = "waiting"
      BY <2>1, <2>2
    <2> QED
      BY <2>1, <2>4, <2>5, <2>6 DEF Ledger!Lose, Ledger!FromOldest, Ledger!Events, Ids
  <1>8. CASE ~(ld # NoGroup /\ n > ld)
    <2>1. \A e \in Ids : ~(Fate(e) = "waiting" /\ e <= n)
      BY <1>1, <1>2, <1>4, <1>8 DEF Ids
    <2> QED
      BY <1>1, <1>5, <2>1, MappedStutter
  <1> QED
    BY <1>7, <1>8

\* XGROUP CREATE opens the ledger the first time and says BUSYGROUP afterwards.
LEMMA CreateOpens ==
  ASSUME Base, XGroupCreate, UNCHANGED <<result, recorded>>
  PROVE  Ledger!Open \/ UNCHANGED Ledger!vars
  <1>1. /\ last \in Int /\ last >= 0 /\ ld \in Int /\ ld <= last
        /\ start \in Int /\ start <= ld
        /\ UNCHANGED <<last, first, bad, pel, acked>>
        /\ ld' = IF ld = NoGroup THEN last ELSE ld
        /\ start' = IF ld = NoGroup THEN last ELSE start
    BY MaxIdAssumption DEF XGroupCreate, Base, TypeOK, RedisTypeOK, NoGroup
  <1>2. \A e \in Ids : FateOfRead(e)' = FateOfRead(e)
    BY <1>1 DEF FateOfRead, CutShort, Resolved, Unprocessable
  <1>3. \A e \in Ids : Fate(e)' = Fate(e)
    BY <1>1, <1>2 DEF Fate, Ids, NoGroup
  <1>4. CASE ld = NoGroup
    <2>1. ~(ld # NoGroup) /\ (ld # NoGroup)' = TRUE
      BY <1>1, <1>4 DEF NoGroup
    <2>2. [e \in Ids |-> Fate(e)'] = [e \in Ids |-> Fate(e)]
      BY <1>3
    <2> QED
      BY <2>1, <2>2 DEF Ledger!Open
  <1>5. CASE ld # NoGroup
    BY <1>1, <1>3, <1>5, MappedStutter
  <1> QED
    BY <1>4, <1>5

\* XREADGROUP takes the oldest waiting events; what it passes over is lost
\* already.  An event just taken is not resolved, as there is a destination.
LEMMA ReadTakes ==
  ASSUME NDests # 0, Base, Account, Untouched, Ahead,
         NEW c \in Consumers, XReadGroup(c, BatchSize),
         UNCHANGED <<result, recorded>>
  PROVE  Ledger!Take
  <1> DEFINE lo == Unread
             up == ReadUpTo(BatchSize)
             es == {f \in 1 .. up : Fate(f) = "waiting"}
  <1>1. /\ last \in Int /\ last <= MaxId /\ first \in Int /\ first >= 1
        /\ ld \in Int /\ ld <= last /\ start \in Int /\ start <= ld
        /\ ld # NoGroup /\ ld >= 0
    BY MaxIdAssumption DEF XReadGroup, Base, TypeOK, RedisTypeOK, NoGroup
  <1>2. /\ lo \in ld + 1 .. last /\ up \in lo .. last /\ up \in Ids
        /\ lo = Larger(ld + 1, first)
    BY <1>1, ReadRange, BatchAssumption DEF XReadGroup, Base, TypeOK, Unread
  <1>3. /\ ld' = up
        /\ pel' = [e \in Ids |-> IF e \in lo .. up THEN c ELSE pel[e]]
        /\ UNCHANGED <<last, first, bad, start, acked>>
    BY DEF XReadGroup
  <1> HIDE DEF lo, up
  <1>4. \A e \in Ids : Fate(e) = "waiting" <=> e <= last /\ e >= lo
    BY <1>1, <1>2 DEF Fate, FateOfRead, Ids, Larger
  <1>5. ASSUME NEW e \in Ids, e \in es PROVE Fate(e)' = "taken"
    <2>1. e \in lo .. up
      BY <1>1, <1>2, <1>4, <1>5 DEF Ids
    <2>2. pel'[e] = c /\ e <= ld' /\ e > ld /\ e > start /\ e <= last
      BY <1>1, <1>2, <1>3, <2>1 DEF Ids
    <2>3. Fresh(e) /\ e \notin recorded /\ e \notin acked
      BY <2>2, <1>1 DEF Untouched, Ahead, Account, Ids
    <2>4. 1 \in Dests
      BY DispatchAssumption DEF Dests
    <2>5. ~Resolved(e)' /\ ~CutShort(e)'
      BY <1>3, <2>3, <2>4 DEF Fresh, Resolved, Unprocessable, CutShort
    <2>6. ld' # NoGroup /\ ~(e > last) /\ ~(e <= start)
      BY <1>1, <1>2, <1>3, <2>2 DEF Ids, NoGroup
    <2>7. e \notin acked' /\ pel'[e] # None
      BY <1>3, <2>2, <2>3, NoneAssumption
    <2> QED
      BY <1>3, <2>2, <2>5, <2>6, <2>7 DEF Fate, FateOfRead
  <1>6. ASSUME NEW e \in Ids, e \notin es PROVE Fate(e)' = Fate(e)
    <2>1. e \notin lo .. up
      BY <1>1, <1>2, <1>4, <1>6 DEF Ids
    <2>2. FateOfRead(e)' = FateOfRead(e)
      BY <1>3, <2>1 DEF FateOfRead, CutShort, Resolved, Unprocessable
    <2>3. CASE e <= ld \/ e > up
      BY <1>1, <1>2, <1>3, <2>2, <2>3 DEF Fate, Ids, NoGroup
    <2>4. CASE e > ld /\ e < lo
      <3>1. e < first /\ e <= up /\ e > start /\ e <= last
        BY <1>1, <1>2, <2>4 DEF Larger, Ids
      <3>2. e \notin acked /\ pel[e] = None
        BY <1>1, <2>4 DEF Account, Ids
      <3>3. FateOfRead(e) = "lost"
        BY <3>2 DEF FateOfRead
      <3>4. Fate(e) = "lost"
        BY <1>1, <2>4, <3>1 DEF Fate, Ids
      <3>5. ld' # NoGroup /\ ~(e > last) /\ ~(e <= start) /\ e <= ld'
        BY <1>1, <1>2, <1>3, <3>1 DEF Ids, NoGroup
      <3> QED
        BY <1>3, <2>2, <3>3, <3>4, <3>5 DEF Fate
    <2> QED
      BY <1>1, <1>2, <2>1, <2>3, <2>4 DEF Ids
  <1>7. ld' = NoGroup <=> ld = NoGroup
    BY <1>1, <1>2, <1>3 DEF NoGroup
  <1>8. \A f \in 1 .. up : f \in Ids
    BY <1>2, MaxIdAssumption DEF Ids
  <1>9. es = {f \in 1 .. up : [e \in Ids |-> Fate(e)][f] = "waiting"}
    BY <1>8
  <1>10. [e \in Ids |-> Fate(e)][up] = "waiting"
    BY <1>1, <1>2, <1>4
  <1> HIDE DEF es
  <1>11. Ledger!Become(es, "taken")
    BY <1>5, <1>6, <1>7, MappedBecome
  <1> QED
    BY <1>2, <1>9, <1>10, <1>11
    DEF Ledger!Take, Ledger!FromOldest, Ledger!Events, Ids

\* One event changes from one fate to another: a step of the ledger's Becomes.
LEMMA MappedBecomes ==
  ASSUME NEW e \in Ids, NEW from, NEW to, Fate(e) = from, Fate(e)' = to,
         \A f \in Ids : f # e => Fate(f)' = Fate(f),
         ld' = NoGroup <=> ld = NoGroup
  PROVE  Ledger!Becomes(from, to)
  <1>1. Ledger!Become({e}, to)
    BY MappedBecome
  <1>2. [f \in Ids |-> Fate(f)][e] = from
    OBVIOUS
  <1> QED
    BY <1>1, <1>2 DEF Ledger!Becomes, Ledger!Events, Ids

\* An ack that Redis executes acknowledges a resolved event.
LEMMA AckAcknowledges ==
  ASSUME Base, Account, Resolution, Cut, NEW c \in Consumers, pc[c] = "acking",
         XAck(cur[c]), UNCHANGED <<result, recorded>>
  PROVE  Ledger!Acknowledge \/ UNCHANGED Ledger!vars
  <1>1. PICK e \in Ids : e = cur[c] /\ pel[e] = c /\ e <= ld
    BY CurrentIsOwned DEF Base, Shape, InBatch
  <1>2. Resolved(e) /\ ~CutShort(e)
    BY <1>1 DEF Resolution, ResolvedSoFar, Cut, CutSoFar, NotCut, CutShort
  <1>3. /\ last \in Int /\ ld \in Int /\ ld <= last /\ start \in Int
        /\ pel \in [Ids -> Consumers \cup {None}]
    BY MaxIdAssumption DEF Base, TypeOK, RedisTypeOK, NoGroup
  <1>4. /\ pel' = [pel EXCEPT ![e] = None] /\ acked' = acked \cup {e}
        /\ e \notin acked /\ pel[e] # None
        /\ UNCHANGED <<last, first, bad, ld, start>>
    BY <1>1, NoneAssumption DEF XAck, Account
  <1>5. \A f \in Ids : f # e => FateOfRead(f)' = FateOfRead(f)
    BY <1>3, <1>4 DEF FateOfRead, CutShort, Resolved, Unprocessable
  <1>6. FateOfRead(e) = "resolved" /\ FateOfRead(e)' = "acked"
    BY <1>2, <1>4 DEF FateOfRead
  <1>7. \A f \in Ids : f # e => Fate(f)' = Fate(f)
    BY <1>4, <1>5 DEF Fate
  <1>8. CASE e > start
    <2>1. ~(e > last) /\ ~(ld = NoGroup \/ e <= start) /\ e <= ld
      BY <1>1, <1>3, <1>8 DEF Ids, NoGroup
    <2>2. Fate(e) = "resolved" /\ Fate(e)' = "acked"
      BY <1>4, <1>6, <2>1 DEF Fate
    <2> QED
      BY <1>1, <1>4, <1>7, <2>2, MappedBecomes DEF Ledger!Acknowledge
  <1>9. CASE ~(e > start)
    <2>1. Fate(e)' = Fate(e)
      BY <1>1, <1>3, <1>4, <1>9 DEF Fate, Ids
    <2> QED
      BY <1>4, <1>7, <2>1, MappedStutter
  <1> QED
    BY <1>8, <1>9

\* An outcome of Do resolves the event, cuts it short, or leaves it taken.
LEMMA OutcomeAdvances ==
  ASSUME Base, Account, Resolution, Ahead, NEW c \in Consumers, Dispatching(c),
         UNCHANGED <<redisVars, recorded>>
  PROVE  Ledger!Resolve \/ Ledger!Cut \/ UNCHANGED Ledger!vars
  <1>1. PICK e \in Ids, d \in Dests :
        /\ e = cur[c] /\ d = dest[c] /\ pc[c] = "send"
        /\ \A x \in Dests \ {d} : result'[e][x] = result[e][x]
    BY OutcomeHere
  <1>2. pel[e] = c /\ e <= ld
    BY <1>1, CurrentIsOwned DEF Base, Shape, InBatch
  <1>3. e \notin bad /\ result[e][d] = "none"
    BY <1>1 DEF Resolution, ResolvedSoFar, Ahead, NothingAhead, Dests
  <1>4. \A f \in Ids : f # e => result'[f] = result[f]
    BY <1>1 DEF Dispatching, DispatchStep, AttemptDelivered, AttemptPermanent,
      AttemptExhausted, AttemptTransient, WaitOver, WaitCancelled, Record,
      Base, TypeOK, DispatchTypeOK
  <1>5. /\ last \in Int /\ ld \in Int /\ ld <= last /\ start \in Int
        /\ UNCHANGED <<last, first, bad, ld, start, pel, acked>>
    BY MaxIdAssumption DEF Base, TypeOK, RedisTypeOK, NoGroup, redisVars
  <1>6. e \notin acked /\ pel[e] # None
    BY <1>1, <1>2, NoneAssumption DEF Account
  <1>7. \A f \in Ids : f # e => Fate(f)' = Fate(f)
    <2>1. \A f \in Ids : f # e => FateOfRead(f)' = FateOfRead(f)
      BY <1>4, <1>5 DEF FateOfRead, CutShort, Resolved, Unprocessable
    <2> QED
      BY <1>5, <2>1 DEF Fate
  <1>8. CASE e > start
    <2>1. Fate(e) = FateOfRead(e) /\ Fate(e)' = FateOfRead(e)'
      BY <1>1, <1>2, <1>5, <1>8 DEF Fate, Ids, NoGroup
    <2>2. ~Resolved(e)
      BY <1>1, <1>3 DEF Resolved, Unprocessable
    <2>3. FateOfRead(e) = IF CutShort(e) THEN "cut" ELSE "taken"
      BY <1>6, <2>2 DEF FateOfRead
    <2>4. FateOfRead(e)' = IF CutShort(e)' THEN "cut"
                           ELSE IF Resolved(e)' THEN "resolved" ELSE "taken"
      BY <1>5, <1>6 DEF FateOfRead
    <2>5. CutShort(e) => CutShort(e)'
      BY <1>1, <1>3 DEF CutShort
    <2>6. \/ Fate(e)' = Fate(e)
          \/ Fate(e) = "taken" /\ Fate(e)' = "cut"
          \/ Fate(e) = "taken" /\ Fate(e)' = "resolved"
      BY <2>1, <2>3, <2>4, <2>5
    <2> QED
      BY <1>1, <1>5, <1>7, <2>6, MappedBecomes, MappedStutter
      DEF Ledger!Resolve, Ledger!Cut
  <1>9. CASE ~(e > start)
    <2>1. Fate(e)' = Fate(e)
      BY <1>1, <1>5, <1>9 DEF Fate, Ids
    <2> QED
      BY <1>5, <1>7, <2>1, MappedStutter
  <1> QED
    BY <1>8, <1>9

\* Logging the raw bytes of an unprocessable entry resolves the event.
LEMMA RecordResolves ==
  ASSUME Base, Account, NEW c \in Consumers, HandleUnprocessable(c),
         UNCHANGED <<redisVars, result>>
  PROVE  Ledger!Resolve \/ UNCHANGED Ledger!vars
  <1>1. PICK e \in Ids : e = cur[c] /\ pel[e] = c /\ e <= ld
    BY CurrentIsOwned DEF HandleUnprocessable, InBatch
  <1>2. recorded' = recorded \cup {e} /\ e \in bad
    BY <1>1 DEF HandleUnprocessable, Unprocessable
  <1>3. /\ last \in Int /\ ld \in Int /\ ld <= last /\ start \in Int
        /\ UNCHANGED <<last, first, bad, ld, start, pel, acked>>
    BY MaxIdAssumption DEF Base, TypeOK, RedisTypeOK, NoGroup, redisVars
  <1>4. e \notin acked /\ pel[e] # None
    BY <1>1, NoneAssumption DEF Account
  <1>5. \A f \in Ids : f # e => Fate(f)' = Fate(f)
    <2>1. \A f \in Ids : f # e => FateOfRead(f)' = FateOfRead(f)
      BY <1>2, <1>3 DEF FateOfRead, CutShort, Resolved, Unprocessable
    <2> QED
      BY <1>3, <2>1 DEF Fate
  <1>6. FateOfRead(e)' = FateOfRead(e)
        \/ (FateOfRead(e) = "taken" /\ FateOfRead(e)' = "resolved")
    <2>1. Resolved(e)' /\ (CutShort(e)' <=> CutShort(e))
      BY <1>2, <1>3 DEF Resolved, Unprocessable, CutShort
    <2> QED
      BY <1>3, <1>4, <2>1 DEF FateOfRead
  <1>7. Fate(e)' = Fate(e) \/ (Fate(e) = "taken" /\ Fate(e)' = "resolved")
    BY <1>1, <1>3, <1>6 DEF Fate
  <1> QED
    BY <1>1, <1>3, <1>5, <1>7, MappedBecomes, MappedStutter DEF Ledger!Resolve

\* Every step of the agent is a step of the ledger or changes no fate.
LEMMA StepImplementsLedger ==
  ASSUME NDests # 0, Base, Account, Resolution, Untouched, Cut, Ahead, [Next]_vars
  PROVE  [Ledger!Next]_(Ledger!vars)
  <1>1. \/ Ledger!Open \/ Ledger!Publish \/ Ledger!Take \/ Ledger!Lose
        \/ Ledger!Resolve \/ Ledger!Cut \/ Ledger!Acknowledge
        \/ UNCHANGED Ledger!vars
    <2>1. CASE UNCHANGED <<redisVars, result, recorded>>
      <3>1. \A e \in Ids : Fate(e)' = Fate(e)
        BY <2>1
        DEF redisVars, Fate, FateOfRead, CutShort, Resolved, Unprocessable
      <3>2. ld' = ld
        BY <2>1 DEF redisVars
      <3> QED
        BY <3>1, <3>2, MappedStutter
    <2> QED
      BY <2>1, OneEffect, AddPublishes, TrimLoses, CreateOpens, ReadTakes,
         AckAcknowledges, OutcomeAdvances, RecordResolves
  <1> QED
    BY <1>1 DEF Ledger!Next

\* Whatever becomes of its instances, an agent with a destination keeps the
\* promises of EventLedger (ImplementsLedger): events are taken in order or lost
\* to trimming, only a resolved event is acknowledged, none goes back.  An agent
\* without one has nothing to wait for between the read and the ack.
THEOREM KeepsTheLedger == ASSUME NDests # 0 PROVE Spec => ImplementsLedger
  <1>1. Init => Ledger!Init
    <2>1. Init => ~(ld # NoGroup) /\ \A e \in Ids : Fate(e) = "unborn"
      BY DEF Init, RedisInit, Fate, Ids
    <2> QED
      BY <2>1 DEF Ledger!Init, Ledger!Events, Ids
  <1> QED
    BY <1>1, InitBase, NextBase, InitAccount, NextAccount, InitResolution,
       NextResolution, InitUntouched, NextUntouched, InitCut, NextCut, InitAhead,
       NextAhead, StepImplementsLedger, PTL
    DEF Spec, ImplementsLedger, Ledger!Spec
=============================================================================
