----------------------- MODULE RemoteServerClientProofs -----------------------
(***************************************************************************)
(* What RemoteServerClient guarantees for any number of concurrent calls.   *)
(*                                                                          *)
(* TypeOK and NoCallOutlivesConnection are inductive together with the two  *)
(* facts the code's comments argue from: the flag is set before the map is  *)
(* cleared (FlagFirst), and a call nobody has answered still has its sender *)
(* in the map (NotDeaf).  NotDeaf in turn needs that a oneshot is empty     *)
(* when its call begins (Untouched).                                        *)
(***************************************************************************)
EXTENDS RemoteServerClient, SequenceTheorems, TLAPS

FlagFirst == reader \in {"half", "cleared", "stopped"} => disconnected

NotDeaf == \A r \in Requests : call[r] \in Active /\ answer[r] = "none" => r \in pending

Untouched == \A r \in Requests : call[r] = "new" => answer[r] = "none"

Inv == TypeOK /\ FlagFirst /\ NotDeaf /\ Untouched /\ NoCallOutlivesConnection /\ EntriesEndWithCalls

Frame == (Decoded \X Requests) \cup ({"push", "garbage", "oversized"} \X {None})

(* Dropping senders never touches the oneshots of other calls.                *)
LEMMA UnansweredType ==
    ASSUME TypeOK, NEW ids
    PROVE  /\ Unanswered(ids) \in [Requests -> {"none", "gone"} \cup Decoded]
           /\ \A r \in Requests :
                 /\ r \in ids \cap pending => Unanswered(ids)[r] = "gone"
                 /\ r \notin ids \cap pending => Unanswered(ids)[r] = answer[r]
BY DEF TypeOK, Unanswered, Decoded

(* What sends to a channel, and takes from it, leaves it a channel.           *)
LEMMA Sending ==
    ASSUME NEW S, NEW q \in Seq(S), NEW e \in S
    PROVE  Append(q, e) \in Seq(S)
BY AppendProperties

LEMMA Taking ==
    ASSUME NEW S, NEW q \in Seq(S), q # <<>>
    PROVE  Head(q) \in S /\ Tail(q) \in Seq(S)
BY HeadTailProperties

(* TypeOK in two parts: what the calls share, and the channels.               *)
CallsOK ==
    /\ call \in [Requests -> {"new"} \cup Active \cup Ended]
    /\ pending \subseteq Requests
    /\ answer \in [Requests -> {"none", "gone"} \cup Decoded]
    /\ \A r \in pending : answer[r] = "none"
    /\ disconnected \in BOOLEAN
    /\ writer \in {"running", "failed", "cleared", "stopped"}
    /\ reader \in {"reading", "broken", "half", "cleared", "stopped"}

ChannelsOK ==
    /\ outbound \in Seq({"request", "abort"} \X Requests)
    /\ events \in Seq({"push", "garbage", "disconnected"})
    /\ working \subseteq Requests
    /\ incoming \in Seq(Frame)
    /\ link \subseteq {"read", "write"}

LEMMA TypeParts == TypeOK <=> CallsOK /\ ChannelsOK
BY DEF TypeOK, CallsOK, ChannelsOK, Frame

(* The invariant holds before the first call.                                 *)
LEMMA InitInv == Init => Inv
<1> SUFFICES ASSUME Init PROVE Inv
  OBVIOUS
<1>0. /\ <<>> \in Seq({"request", "abort"} \X Requests)
      /\ <<>> \in Seq({"push", "garbage", "disconnected"})
      /\ <<>> \in Seq(Frame)
  BY EmptySeq
<1>1. CallsOK /\ ChannelsOK
  BY <1>0 DEF Init, CallsOK, ChannelsOK, Active, Ended, Decoded
<1> QED
  BY <1>1, TypeParts
     DEF Init, Inv, FlagFirst, NotDeaf, Untouched, NoCallOutlivesConnection, EntriesEndWithCalls, Active

(* The channels keep their types in every step.                               *)
LEMMA ChannelsStep == CallsOK /\ ChannelsOK /\ [Next]_vars => ChannelsOK'
<1> SUFFICES ASSUME CallsOK, ChannelsOK, [Next]_vars PROVE ChannelsOK'
  OBVIOUS
<1>1. ASSUME NEW r \in Requests, Enqueue(r) \/ Timeout(r)
      PROVE  ChannelsOK'
  <2>1. <<"request", r>> \in {"request", "abort"} \X Requests
        /\ <<"abort", r>> \in {"request", "abort"} \X Requests
    OBVIOUS
  <2>2. outbound' \in Seq({"request", "abort"} \X Requests)
    <3>1. CASE Enqueue(r)
      BY <2>1, <3>1, Sending DEF Enqueue, ChannelsOK
    <3>2. CASE Timeout(r)
      <4>1. Append(outbound, <<"abort", r>>) \in Seq({"request", "abort"} \X Requests)
        BY <2>1, Sending DEF ChannelsOK
      <4> QED
        BY <3>2, <4>1 DEF Timeout, ChannelsOK
    <3> QED
      BY <1>1, <3>1, <3>2
  <2> QED
    BY <1>1, <2>2 DEF Enqueue, Timeout, ChannelsOK, peerVars
<1>2. ASSUME NEW r \in Requests,
             Insert(r) \/ CheckFindsDead(r) \/ CheckPasses(r) \/ EnqueueFails(r)
               \/ Receive(r) \/ CallDropped(r)
      PROVE  ChannelsOK'
  BY <1>2 DEF Insert, CheckFindsDead, CheckPasses, EnqueueFails, Receive, CallDropped,
              ChannelsOK, clientVars, peerVars
<1>3. CASE Write
  <2>1. /\ Head(outbound) \in {"request", "abort"} \X Requests
        /\ Tail(outbound) \in Seq({"request", "abort"} \X Requests)
    BY <1>3, Taking DEF Write, ChannelsOK
  <2>2. Head(outbound)[2] \in Requests
    BY <2>1
  <2>3. outbound' = Tail(outbound)
        /\ working' \subseteq working \cup {Head(outbound)[2]}
        /\ UNCHANGED <<events, incoming, link>>
    BY <1>3, Zenon DEF Write
  <2> QED
    BY <2>1, <2>2, <2>3 DEF ChannelsOK
<1>4. CASE WriterStops
  BY <1>4, EmptySeq DEF WriterStops, ChannelsOK, peerVars
<1>5. CASE WriterClears \/ ReaderBreaks \/ ReaderStores \/ ReaderClears
  BY <1>5 DEF WriterClears, ReaderBreaks, ReaderStores, ReaderClears, ChannelsOK, peerVars
<1>6. CASE ReadAnswer
  <2>1. Tail(incoming) \in Seq(Frame)
    BY <1>6, Taking DEF ReadAnswer, ChannelsOK
  <2> QED
    BY <1>6, <2>1 DEF ReadAnswer, ChannelsOK, clientVars
<1>7. CASE ReadPush
  <2>1. Tail(incoming) \in Seq(Frame)
    BY <1>7, Taking DEF ReadPush, ChannelsOK
  <2>2. Append(events, Head(incoming)[1]) \in Seq({"push", "garbage", "disconnected"})
    <3>1. Head(incoming)[1] \in {"push", "garbage", "disconnected"}
      BY <1>7 DEF ReadPush
    <3> QED
      BY <3>1, Sending DEF ChannelsOK
  <2> QED
    BY <1>7, <2>1, <2>2 DEF ReadPush, ChannelsOK
<1>8. CASE ReaderStops
  <2>1. Append(events, "disconnected") \in Seq({"push", "garbage", "disconnected"})
    BY Sending DEF ChannelsOK
  <2> QED
    BY <1>8, <2>1 DEF ReaderStops, ChannelsOK, peerVars
<1>9. ASSUME NEW r \in Requests, PeerAnswers(r)
      PROVE  ChannelsOK'
  <2>1. PICK kind \in Decoded : incoming' = Append(incoming, <<kind, r>>)
    BY <1>9 DEF PeerAnswers
  <2>2. <<kind, r>> \in Frame
    BY DEF Frame
  <2>3. incoming' \in Seq(Frame)
    BY <2>1, <2>2, Sending DEF ChannelsOK
  <2> QED
    BY <1>9, <2>3 DEF PeerAnswers, ChannelsOK, clientVars
<1>10. CASE PeerPushes
  <2>1. PICK kind \in {"push", "garbage", "oversized"} :
            incoming' = Append(incoming, <<kind, None>>)
    BY <1>10 DEF PeerPushes
  <2>2. <<kind, None>> \in Frame
    BY DEF Frame
  <2>3. incoming' \in Seq(Frame)
    BY <2>1, <2>2, Sending DEF ChannelsOK
  <2> QED
    BY <1>10, <2>3 DEF PeerPushes, ChannelsOK, clientVars
<1>11. ASSUME NEW d \in {"read", "write"}, LinkBreaks(d)
       PROVE  ChannelsOK'
  BY <1>11 DEF LinkBreaks, ChannelsOK, clientVars
<1>12. CASE UNCHANGED vars
  BY <1>12 DEF vars, clientVars, peerVars, ChannelsOK
<1> QED
  BY <1>1, <1>2, <1>3, <1>4, <1>5, <1>6, <1>7, <1>8, <1>9, <1>10, <1>11, <1>12
     DEF Next, CallStep, WriterStep, ReaderStep

(* The invariant, with the types of the channels set apart.                   *)
CallInv ==
    CallsOK /\ FlagFirst /\ NotDeaf /\ Untouched /\ NoCallOutlivesConnection /\ EntriesEndWithCalls

LEMMA CallStepInv == CallInv /\ ChannelsOK /\ [Next]_vars => CallInv'
<1> SUFFICES ASSUME CallInv, ChannelsOK, [Next]_vars PROVE CallInv'
  OBVIOUS
<1> USE DEF CallInv, CallsOK, FlagFirst, NotDeaf, Untouched, NoCallOutlivesConnection,
            EntriesEndWithCalls, Active, Ended, Decoded
<1>1. ASSUME NEW r \in Requests, Insert(r) PROVE CallInv'
  BY <1>1 DEF Insert, clientVars
<1>2. ASSUME NEW r \in Requests, CheckFindsDead(r) PROVE CallInv'
  BY <1>2 DEF CheckFindsDead, SeenDead, Unanswered, clientVars
<1>3. ASSUME NEW r \in Requests, CheckPasses(r) PROVE CallInv'
  BY <1>3 DEF CheckPasses, SeenDead, clientVars
<1>4. ASSUME NEW r \in Requests, Enqueue(r) PROVE CallInv'
  BY <1>4 DEF Enqueue
<1>5. ASSUME NEW r \in Requests, EnqueueFails(r) PROVE CallInv'
  BY <1>5 DEF EnqueueFails, Unanswered, clientVars
<1>6. ASSUME NEW r \in Requests, Receive(r) PROVE CallInv'
  BY <1>6 DEF Receive, clientVars
<1>7. ASSUME NEW r \in Requests, Timeout(r) PROVE CallInv'
  BY <1>7 DEF Timeout, AfterTimeout, Unanswered
<1>8. ASSUME NEW r \in Requests, CallDropped(r) PROVE CallInv'
  BY <1>8 DEF CallDropped, clientVars
<1>9. CASE Write
  <2>1. PICK id \in Requests :
            \/ UNCHANGED <<pending, answer>>
            \/ pending' = pending \ {id} /\ answer' = Unanswered({id})
    <3>1. Head(outbound) \in {"request", "abort"} \X Requests
      BY <1>9, Taking DEF Write, ChannelsOK
    <3>2. Head(outbound)[2] \in Requests
      BY <3>1
    <3> QED
      BY <1>9, <3>2 DEF Write
  <2>2. writer' \in {writer, "failed"} /\ UNCHANGED <<call, disconnected, reader>>
    BY <1>9 DEF Write
  <2> QED
    BY <2>1, <2>2 DEF Unanswered
<1>10. CASE WriterClears
  BY <1>10 DEF WriterClears, Unanswered
<1>11. CASE WriterStops
  BY <1>11 DEF WriterStops, callVars
<1>12. CASE ReadAnswer
  BY <1>12 DEF ReadAnswer, Resolved, clientVars
<1>13. CASE ReadPush \/ ReaderBreaks \/ ReaderStops
  BY <1>13 DEF ReadPush, ReaderBreaks, ReaderStops, callVars
<1>14. CASE ReaderStores
  BY <1>14 DEF ReaderStores, Farewell, AfterFarewell, callVars
<1>15. CASE ReaderClears
  BY <1>15 DEF ReaderClears, Farewell, AfterFarewell, Unanswered
<1>16. CASE UNCHANGED <<callVars, clientVars>>
  BY <1>16 DEF callVars, clientVars
<1> QED
  BY <1>1, <1>2, <1>3, <1>4, <1>5, <1>6, <1>7, <1>8, <1>9, <1>10, <1>11, <1>12, <1>13,
     <1>14, <1>15, <1>16
     DEF Next, CallStep, WriterStep, ReaderStep, PeerAnswers, PeerPushes, LinkBreaks, vars

LEMMA StepInv == Inv /\ [Next]_vars => Inv'
BY ChannelsStep, CallStepInv, TypeParts, PTL DEF Inv, CallInv

LEMMA Invariance == Spec => []Inv
BY InitInv, StepInv, PTL DEF Spec

(* Types hold and a sender in the map is unused, for any number of calls.      *)
THEOREM TypeCorrect == Spec => []TypeOK
BY Invariance, PTL DEF Inv

(* Once the reader has cleared the map, no call that passed the check of the   *)
(* flag has its sender there.                                                 *)
THEOREM NothingOutlivesConnection == Spec => []NoCallOutlivesConnection
BY Invariance, PTL DEF Inv

(* A call that returned never leaves its sender in the map.                    *)
THEOREM EntriesEnd == Spec => []EntriesEndWithCalls
BY Invariance, PTL DEF Inv

(* A dead connection never costs a caller the 120 s of the timer.              *)
THEOREM TimeoutsNeedAReader == Spec => TimeoutsOnlyWhileAlive
<1>1. Inv /\ [Next]_vars =>
        [\A r \in Requests : Timeout(r) => reader \notin {"cleared", "stopped"}]_vars
  <2> SUFFICES ASSUME Inv, NEW r \in Requests, Timeout(r)
               PROVE  reader \notin {"cleared", "stopped"}
    OBVIOUS
  <2>1. call[r] = "waiting" /\ answer[r] = "none"
    BY DEF Timeout
  <2>2. r \in pending
    BY <2>1 DEF Inv, NotDeaf, Active
  <2> QED
    BY <2>1, <2>2 DEF Inv, NoCallOutlivesConnection
<1> QED
  BY <1>1, Invariance, PTL DEF Spec, TimeoutsOnlyWhileAlive
===============================================================================
