-------------------------- MODULE RemoteServerClient --------------------------
(***************************************************************************)
(* RemoteServerClient: request/response correlation over one byte stream.   *)
(*                                                                          *)
(* Any number of tasks call send_request; one writer task drains the        *)
(* outbound channel into the stream, one reader task resolves the calls by  *)
(* request id and forwards pushes to the event channel.  The three share    *)
(* pending_requests, a concurrent map, and the disconnected flag, and run   *)
(* on a thread pool: every access to either is a step of its own.  clear()  *)
(* is one step here: it empties the map shard by shard, but no two requests *)
(* of one map are compared by anything below.                               *)
(*                                                                          *)
(* The peer answers what it has received in any order, pushes, sends frames *)
(* that do not decode, and may close either direction of the stream.        *)
(***************************************************************************)
EXTENDS Naturals, Sequences

CONSTANTS
    Requests,   \* request ids; every send_request makes a new one
    MaxPushes,  \* bound: pushes and undecodable frames the peer sends
    None

ASSUME ClientAssumption == MaxPushes \in Nat /\ None \notin Requests

VARIABLES
    call,          \* where each send_request stands, or how it returned
    pending,       \* ids in pending_requests, whose oneshot sender is alive
    answer,        \* what is in each call's oneshot; "gone": its sender was dropped
    disconnected,  \* the flag
    outbound,      \* outbound channel: <<kind, id>>
    writer,        \* running; failed: before clear(); cleared: before it drops outbound_rx
    reader,        \* reading; broken, half: in its last three statements; cleared; stopped
    events,        \* what went into the event channel
    working,       \* external: requests the peer has read and not answered
    incoming,      \* external: frames on the way to the reader: <<kind, id>>
    link           \* external: directions of the stream that are open

callVars   == <<call, pending, answer>>
peerVars   == <<working, incoming, link>>
clientVars == <<disconnected, outbound, writer, reader, events>>
vars       == <<callVars, clientVars, peerVars>>

Active == {"inserted", "admitted", "waiting"}
Ended  == {"message", "malformed", "gone", "timeout", "disconnected", "dropped"}
Decoded == {"message", "malformed"}

(* pending_requests.clear() and .remove(id): the senders are dropped with it. *)
Unanswered(ids) == [r \in Requests |-> IF r \in ids \cap pending THEN "gone" ELSE answer[r]]

----------------------------------------------------------------------------
(* send_request, statement by statement.                                      *)
Insert(r) ==
    /\ call[r] = "new"
    /\ call' = [call EXCEPT ![r] = "inserted"]
    /\ pending' = pending \cup {r}
    /\ UNCHANGED <<answer, clientVars, peerVars>>

SeenDead_NotLooked == FALSE
SeenDead == disconnected

CheckFindsDead(r) ==
    /\ call[r] = "inserted"
    /\ SeenDead
    /\ call' = [call EXCEPT ![r] = "disconnected"]
    /\ pending' = {}
    /\ answer' = Unanswered(Requests)
    /\ UNCHANGED <<clientVars, peerVars>>

CheckPasses(r) ==
    /\ call[r] = "inserted"
    /\ ~ SeenDead
    /\ call' = [call EXCEPT ![r] = "admitted"]
    /\ UNCHANGED <<pending, answer, clientVars, peerVars>>

Enqueue(r) ==
    /\ call[r] = "admitted"
    /\ writer # "stopped"
    /\ call' = [call EXCEPT ![r] = "waiting"]
    /\ outbound' = Append(outbound, <<"request", r>>)
    /\ UNCHANGED <<pending, answer, disconnected, writer, reader, events, peerVars>>

EnqueueFails(r) ==
    /\ call[r] = "admitted"
    /\ writer = "stopped"
    /\ call' = [call EXCEPT ![r] = "disconnected"]
    /\ pending' = pending \ {r}
    /\ answer' = Unanswered({r})
    /\ UNCHANGED <<clientVars, peerVars>>

Receive(r) ==
    /\ call[r] = "waiting"
    /\ answer[r] # "none"
    /\ call' = [call EXCEPT ![r] = answer[r]]
    /\ UNCHANGED <<pending, answer, clientVars, peerVars>>

(* REQUEST_TIMEOUT, and the best-effort Abort.                                *)
AfterTimeout_Kept(r) == pending
AfterTimeout(r) == pending \ {r}
Timeout(r) ==
    /\ call[r] = "waiting"
    /\ answer[r] = "none"
    /\ call' = [call EXCEPT ![r] = "timeout"]
    /\ pending' = AfterTimeout(r)
    /\ answer' = Unanswered({r})
    /\ outbound' = IF writer = "stopped" THEN outbound
                   ELSE Append(outbound, <<"abort", r>>)
    /\ UNCHANGED <<disconnected, writer, reader, events, peerVars>>

(* The caller drops the future; the map still has its sender.                 *)
CallDropped(r) ==
    /\ call[r] = "waiting"
    /\ call' = [call EXCEPT ![r] = "dropped"]
    /\ UNCHANGED <<pending, answer, clientVars, peerVars>>

----------------------------------------------------------------------------
(* writer_task.                                                               *)
Write ==
    /\ writer = "running" /\ outbound # <<>>
    /\ outbound' = Tail(outbound)
    /\ LET id == Head(outbound)[2] IN
         \/ /\ "write" \in link
            /\ working' = IF Head(outbound)[1] = "request" THEN working \cup {id}
                                                           ELSE working \ {id}
            /\ UNCHANGED <<pending, answer, writer>>
         \/ /\ Head(outbound)[1] = "request"   \* MessageTooLarge: nothing was written
            /\ pending' = pending \ {id}
            /\ answer' = Unanswered({id})
            /\ UNCHANGED <<writer, working>>
         \/ /\ "write" \notin link
            /\ writer' = "failed"
            /\ UNCHANGED <<pending, answer, working>>
    /\ UNCHANGED <<call, disconnected, reader, events, incoming, link>>

WriterClears ==
    /\ writer = "failed"
    /\ writer' = "cleared"
    /\ pending' = {}
    /\ answer' = Unanswered(Requests)
    /\ UNCHANGED <<call, disconnected, outbound, reader, events, peerVars>>

WriterStops ==
    /\ writer = "cleared"
    /\ writer' = "stopped"
    /\ outbound' = <<>>
    /\ UNCHANGED <<callVars, disconnected, reader, events, peerVars>>

----------------------------------------------------------------------------
(* reader_task.                                                               *)
Resolved_LeftInMap(id) == pending
Resolved(id) == pending \ {id}

ReadAnswer ==
    /\ reader = "reading" /\ incoming # <<>>
    /\ LET kind == Head(incoming)[1]
           id   == Head(incoming)[2]
       IN  /\ kind \in Decoded
           /\ pending' = Resolved(id)
           /\ answer' = IF id \in pending THEN [answer EXCEPT ![id] = kind] ELSE answer
    /\ incoming' = Tail(incoming)
    /\ UNCHANGED <<call, clientVars, working, link>>

ReadPush ==
    /\ reader = "reading" /\ incoming # <<>>
    /\ Head(incoming)[1] \in {"push", "garbage"}
    /\ events' = Append(events, Head(incoming)[1])
    /\ incoming' = Tail(incoming)
    /\ UNCHANGED <<callVars, disconnected, outbound, writer, reader, working, link>>

ReaderBreaks ==
    /\ reader = "reading"
    /\ \/ incoming = <<>> /\ "read" \notin link
       \/ incoming # <<>> /\ Head(incoming)[1] = "oversized"
    /\ reader' = "broken"
    /\ UNCHANGED <<callVars, disconnected, outbound, writer, events, peerVars>>

(* store(true), then clear(): the order the comment above them argues for.    *)
Farewell_Swapped == [broken |-> "clear", half |-> "store"]
Farewell == [broken |-> "store", half |-> "clear"]
AfterFarewell == [broken |-> "half", half |-> "cleared"]

ReaderStores ==
    /\ reader \in {"broken", "half"} /\ Farewell[reader] = "store"
    /\ disconnected' = TRUE
    /\ reader' = AfterFarewell[reader]
    /\ UNCHANGED <<callVars, outbound, writer, events, peerVars>>

ReaderClears ==
    /\ reader \in {"broken", "half"} /\ Farewell[reader] = "clear"
    /\ pending' = {}
    /\ answer' = Unanswered(Requests)
    /\ reader' = AfterFarewell[reader]
    /\ UNCHANGED <<call, disconnected, outbound, writer, events, peerVars>>

ReaderStops ==
    /\ reader = "cleared"
    /\ reader' = "stopped"
    /\ events' = Append(events, "disconnected")
    /\ UNCHANGED <<callVars, disconnected, outbound, writer, peerVars>>

----------------------------------------------------------------------------
(* The peer.                                                                  *)
PeerAnswers(r) ==
    /\ r \in working /\ "read" \in link
    /\ working' = working \ {r}
    /\ \E kind \in Decoded : incoming' = Append(incoming, <<kind, r>>)
    /\ UNCHANGED <<callVars, clientVars, link>>

PeerPushes ==
    /\ "read" \in link
    /\ Len(events) + Len(incoming) < MaxPushes
    /\ \E kind \in {"push", "garbage", "oversized"} :
           incoming' = Append(incoming, <<kind, None>>)
    /\ UNCHANGED <<callVars, clientVars, working, link>>

LinkBreaks(d) ==
    /\ d \in link
    /\ link' = link \ {d}
    /\ UNCHANGED <<callVars, clientVars, working, incoming>>

----------------------------------------------------------------------------
Init ==
    /\ call = [r \in Requests |-> "new"]
    /\ pending = {}
    /\ answer = [r \in Requests |-> "none"]
    /\ disconnected = FALSE
    /\ outbound = <<>>
    /\ writer = "running"
    /\ reader = "reading"
    /\ events = <<>>
    /\ working = {}
    /\ incoming = <<>>
    /\ link = {"read", "write"}

CallStep(r) ==
    CheckFindsDead(r) \/ CheckPasses(r) \/ Enqueue(r) \/ EnqueueFails(r) \/ Receive(r)

ReaderStep ==
    ReadAnswer \/ ReadPush \/ ReaderBreaks \/ ReaderStores \/ ReaderClears \/ ReaderStops

WriterStep == Write \/ WriterClears \/ WriterStops

Next ==
    \/ \E r \in Requests :
          Insert(r) \/ CallStep(r) \/ Timeout(r) \/ CallDropped(r) \/ PeerAnswers(r)
    \/ WriterStep
    \/ ReaderStep
    \/ PeerPushes
    \/ \E d \in {"read", "write"} : LinkBreaks(d)

Spec == Init /\ [][Next]_vars

(* The executor runs every task that can run.  The 120 s timer is left out: the *)
(* liveness property must not need it.                                         *)
Fairness == WF_vars(ReaderStep) /\ \A r \in Requests : WF_vars(CallStep(r))

FairSpec == Spec /\ Fairness

----------------------------------------------------------------------------
(* A sender in the map has not been used: its oneshot is empty.                *)
TypeOK ==
    /\ call \in [Requests -> {"new"} \cup Active \cup Ended]
    /\ pending \subseteq Requests
    /\ answer \in [Requests -> {"none", "gone"} \cup Decoded]
    /\ \A r \in pending : answer[r] = "none"
    /\ disconnected \in BOOLEAN
    /\ outbound \in Seq({"request", "abort"} \X Requests)
    /\ writer \in {"running", "failed", "cleared", "stopped"}
    /\ reader \in {"reading", "broken", "half", "cleared", "stopped"}
    /\ events \in Seq({"push", "garbage", "disconnected"})
    /\ working \subseteq Requests
    /\ incoming \in Seq((Decoded \X Requests) \cup ({"push", "garbage", "oversized"} \X {None}))
    /\ link \subseteq {"read", "write"}

(* "Mark the connection as dead so that any new send_request calls fail         *)
(* immediately rather than hanging forever": once the reader has cleared the   *)
(* map, a sender in it belongs to a call that is about to read the flag.       *)
NoCallOutlivesConnection ==
    reader \in {"cleared", "stopped"} => \A r \in pending : call[r] = "inserted"

(* No call that returned leaves its sender in the map.                         *)
EntriesEndWithCalls == \A r \in pending : call[r] \in Active \cup {"dropped"}

(* A call only ever waits its 120 s out while the reader task could still       *)
(* answer it.                                                                  *)
TimeoutsOnlyWhileAlive ==
    [][\A r \in Requests : Timeout(r) => reader \notin {"cleared", "stopped"}]_vars

(* "must complete with an error rather than hang": when the read side of the    *)
(* stream ends, every call in progress returns, with no help from the timer.   *)
DeadConnectionEndsCalls ==
    \A r \in Requests :
        ("read" \notin link \/ reader # "reading") /\ call[r] \in Active ~> call[r] \in Ended
===============================================================================
