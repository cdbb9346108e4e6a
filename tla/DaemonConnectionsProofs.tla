----------------------- MODULE DaemonConnectionsProofs -----------------------
(***************************************************************************)
(* What DaemonConnections guarantees for any number of connections and      *)
(* requests.                                                                *)
(*                                                                          *)
(* The chain of the argument is the way of a request: it is sent once, on   *)
(* one connection (Sent), so its frame is in one inbox once, and while it   *)
(* is there nothing works on it (Frames); the handler that takes it gives   *)
(* it one future or one answer, and what was answered is over (Answers).    *)
(***************************************************************************)
EXTENDS DaemonConnections, SequenceTheorems, TLAPS

Sent ==
    \A r \in Requests :
        /\ asked[r] = "new" => work[r] = "none"
        /\ asked[r] # "new" => origin[r] \in Conns

Frames ==
    \A c \in Conns :
        /\ IsInjective(inbox[c])
        /\ \A f \in Range(inbox[c]) :
              /\ asked[f[2]] # "new" /\ origin[f[2]] = c
              /\ f[1] = "abort" => asked[f[2]] = "aborted"
              /\ f[1] = "request" /\ up => work[f[2]] = "none"

Answers ==
    \A c \in Conns :
        /\ IsInjective(delivered[c]) /\ IsInjective(chan[c])
        /\ \A r \in Range(delivered[c]) : r \notin Range(chan[c])
        /\ \A r \in Range(delivered[c]) \cup Range(chan[c]) :
              /\ asked[r] # "new" /\ origin[r] = c
              /\ up => work[r] = "over"

Frame == {"request", "abort"} \X Requests

----------------------------------------------------------------------------
(* Queues without repetitions.                                                *)
LEMMA Pushed ==
    ASSUME NEW S, NEW q \in Seq(S), NEW e \in S
    PROVE  /\ Append(q, e) \in Seq(S)
           /\ Range(Append(q, e)) = Range(q) \cup {e}
           /\ IsInjective(q) /\ e \notin Range(q) => IsInjective(Append(q, e))
BY AppendProperties DEF Range, IsInjective

LEMMA Popped ==
    ASSUME NEW S, NEW q \in Seq(S), q # <<>>
    PROVE  /\ Head(q) \in S /\ Tail(q) \in Seq(S)
           /\ Head(q) \in Range(q) /\ Range(Tail(q)) \subseteq Range(q)
           /\ IsInjective(q) => IsInjective(Tail(q)) /\ Head(q) \notin Range(Tail(q))
<1>1. /\ Head(q) \in S /\ Tail(q) \in Seq(S)
      /\ Len(q) \in Nat \ {0} /\ Len(Tail(q)) = Len(q) - 1
      /\ DOMAIN q = 1 .. Len(q) /\ DOMAIN Tail(q) = 1 .. Len(Tail(q))
      /\ \A i \in 1 .. Len(Tail(q)) : Tail(q)[i] = q[i + 1]
      /\ Head(q) = q[1]
  BY HeadTailProperties, EmptySeq, LenProperties
<1>. QED BY <1>1 DEF Range, IsInjective

LEMMA EmptyQueue ==
    ASSUME NEW S
    PROVE  /\ <<>> \in Seq(S) /\ Range(<<>>) = {} /\ IsInjective(<<>>)
BY EmptySeq DEF Range, IsInjective

(* The two halves of a way have no repetition together.                       *)
LEMMA Joined ==
    ASSUME NEW S, NEW p \in Seq(S), NEW q \in Seq(S),
           IsInjective(p), IsInjective(q), \A e \in Range(p) : e \notin Range(q)
    PROVE  /\ \A i \in DOMAIN (p \o q) : (p \o q)[i] \in Range(p) \cup Range(q)
           /\ \A i, j \in DOMAIN (p \o q) : (p \o q)[i] = (p \o q)[j] => i = j
<1>1. /\ p \o q \in Seq(S) /\ Len(p) \in Nat /\ Len(q) \in Nat
      /\ DOMAIN p = 1 .. Len(p) /\ DOMAIN q = 1 .. Len(q)
      /\ DOMAIN (p \o q) = 1 .. Len(p) + Len(q)
      /\ \A i \in 1 .. Len(p) + Len(q) :
            (p \o q)[i] = IF i <= Len(p) THEN p[i] ELSE q[i - Len(p)]
  BY ConcatProperties, LenProperties
<1>2. \A i \in DOMAIN (p \o q) :
         \/ i \in DOMAIN p /\ (p \o q)[i] = p[i]
         \/ i - Len(p) \in DOMAIN q /\ (p \o q)[i] = q[i - Len(p)]
  BY <1>1
<1>3. \A i \in DOMAIN p : p[i] \in Range(p)
  BY DEF Range
<1>4. \A i \in DOMAIN q : q[i] \in Range(q)
  BY DEF Range
<1>5. \A i \in DOMAIN (p \o q) : (p \o q)[i] \in Range(p) \cup Range(q)
  BY <1>2, <1>3, <1>4
<1>6. ASSUME NEW i \in DOMAIN (p \o q), NEW j \in DOMAIN (p \o q), (p \o q)[i] = (p \o q)[j]
      PROVE  i = j
  <2>1. CASE i \in DOMAIN p /\ (p \o q)[i] = p[i] /\ j \in DOMAIN p /\ (p \o q)[j] = p[j]
    BY <1>6, <2>1 DEF IsInjective
  <2>2. CASE /\ i - Len(p) \in DOMAIN q /\ (p \o q)[i] = q[i - Len(p)]
             /\ j - Len(p) \in DOMAIN q /\ (p \o q)[j] = q[j - Len(p)]
    <3>1. i - Len(p) = j - Len(p)
      BY <1>6, <2>2 DEF IsInjective
    <3>. QED BY <1>1, <3>1
  <2>. QED BY <1>2, <1>3, <1>4, <1>6, <2>1, <2>2
<1>. QED BY <1>5, <1>6

----------------------------------------------------------------------------
(* TypeOK in three parts: tasks and timer, queues, requests.                  *)
TasksOK ==
    /\ client \in [Conns -> {"unused", "open", "closed"}]
    /\ t1 \in [Conns -> {"unused", "running", "ended"}]
    /\ t2 \in [Conns -> {"unused", "running", "ended"}]
    /\ sock \in [Conns -> {"unused", "open", "shut"}]
    /\ reader \in [Conns -> {"unused", "reading", "done"}]
    /\ writer \in [Conns -> {"unused", "accepted", "draining", "leaving", "done"}]
    /\ senders \subseteq Conns
    /\ timer \in BOOLEAN
    /\ expired \in BOOLEAN
    /\ up \in BOOLEAN

StdinOK ==
    /\ stdin \in [Conns -> Nat]
    /\ \A c \in Conns : stdin[c] <= Len(inbox[c])

QueuesOK ==
    /\ inbox \in [Conns -> Seq(Frame)]
    /\ StdinOK
    /\ delivered \in [Conns -> Seq(Requests)]
    /\ chan \in [Conns -> Seq(Requests)]

RequestsOK ==
    /\ inProgress \subseteq Requests
    /\ fileOps \subseteq Requests
    /\ asked \in [Requests -> {"new", "sent", "aborted"}]
    /\ origin \in [Requests -> Conns \cup {None}]
    /\ kind \in [Requests -> {"unread", "sync", "spawned", "file"}]
    /\ work \in [Requests -> {"none", "running", "aborting", "aborted", "resolved", "over"}]
    /\ \A r \in Requests :
          /\ kind[r] = "unread" <=> work[r] = "none"
          /\ kind[r] = "sync" => work[r] = "over"
          /\ work[r] \in {"aborting", "aborted"} => kind[r] = "spawned"

LEMMA TypeParts == TypeOK <=> TasksOK /\ QueuesOK /\ RequestsOK
BY DEF TypeOK, TasksOK, QueuesOK, StdinOK, RequestsOK, Frame

(* ... and MapsMatchTasks in two: the maps of requests, and that of senders, to *)
(* which it belongs that a connection has no task before it is made.           *)
RequestMapsMatch ==
    /\ {r \in Requests : kind[r] = "spawned" /\ work[r] = "running"} \subseteq inProgress
    /\ inProgress \subseteq
          {r \in Requests : kind[r] = "spawned" /\ work[r] \in {"running", "resolved"}}
    /\ fileOps = {r \in Requests : kind[r] = "file" /\ work[r] \in {"running", "resolved"}}

SendersMatch ==
    \A c \in Conns :
        /\ c \in senders => reader[c] = "reading" /\ writer[c] \in {"draining", "leaving"}
        /\ reader[c] = "reading" /\ c \notin senders => writer[c] = "done"
        /\ client[c] = "unused" => reader[c] = "unused" /\ writer[c] = "unused"

Inv ==
    /\ TasksOK /\ QueuesOK /\ RequestsOK
    /\ RequestMapsMatch /\ SendersMatch /\ TimedExactlyWhileIdle
    /\ Sent /\ Frames /\ Answers

LEMMA InitInv == Init => Inv
<1>. SUFFICES ASSUME Init PROVE Inv
  OBVIOUS
<1>1. <<>> \in Seq(Frame) /\ <<>> \in Seq(Requests) /\ Range(<<>>) = {} /\ IsInjective(<<>>)
  BY EmptyQueue
<1>2. TasksOK /\ RequestsOK /\ RequestMapsMatch /\ SendersMatch /\ TimedExactlyWhileIdle /\ Sent
  BY DEF Init, TasksOK, RequestsOK, RequestMapsMatch, SendersMatch, TimedExactlyWhileIdle, Sent
<1>3. StdinOK
  BY <1>1, EmptySeq DEF Init, StdinOK
<1>4. QueuesOK /\ Frames /\ Answers
  BY <1>1, <1>3 DEF Init, QueuesOK, Frames, Answers
<1>. QED BY <1>2, <1>4 DEF Inv

(* What the reader hands to handle_message: a request that nothing works on    *)
(* yet, or an abort, and either for the last time.                            *)
LEMMA Handled ==
    ASSUME QueuesOK, Frames, NEW c \in Conns, ReaderHandles(c)
    PROVE  /\ inbox[c] # <<>> /\ inbox[c] \in Seq(Frame)
           /\ \E r \in Requests :
                 /\ asked[r] # "new" /\ origin[r] = c
                 /\ \/ /\ HandleRequest(c, r)
                       /\ work[r] = "none"
                       /\ <<"request", r>> \notin Range(Tail(inbox[c]))
                    \/ HandleAbort(r)
<1>0. inbox[c] \in Seq(Frame) /\ inbox[c] # <<>> /\ up
  BY EmptySeq DEF QueuesOK, StdinOK, ReaderHandles
<1>1. /\ Head(inbox[c]) \in Frame /\ Head(inbox[c]) \in Range(inbox[c])
      /\ Head(inbox[c]) \notin Range(Tail(inbox[c]))
  BY <1>0, Popped DEF Frames
<1>. DEFINE m == Head(inbox[c])
<1>2. m = <<m[1], m[2]>> /\ m[2] \in Requests
  BY <1>1 DEF Frame
<1>3. /\ asked[m[2]] # "new" /\ origin[m[2]] = c
      /\ m[1] = "request" => work[m[2]] = "none"
  BY <1>0, <1>1 DEF Frames
<1>4. \/ m[1] = "request" /\ HandleRequest(c, m[2])
      \/ m[1] = "abort" /\ HandleAbort(m[2])
  BY Zenon DEF ReaderHandles
<1>5. m \notin Range(Tail(inbox[c]))
  BY <1>1
<1>. HIDE DEF m
<1>6. m[1] = "request" => <<"request", m[2]>> \notin Range(Tail(inbox[c]))
  BY <1>2, <1>5
<1>. QED BY <1>0, <1>2, <1>3, <1>4, <1>6

----------------------------------------------------------------------------
(* The tasks, the senders and the timer.                                      *)
LEMMA Deregistered ==
    ASSUME timer \in BOOLEAN, TimedExactlyWhileIdle, NEW c \in Conns, Deregister(c),
           UNCHANGED <<expired, up>>
    PROVE  /\ senders' = senders \ {c}
           /\ timer' \in BOOLEAN
           /\ TimedExactlyWhileIdle'
<1>1. CASE c \in senders
  <2>1. senders' = senders \ {c} /\ timer' = (timer \/ senders \ {c} = {})
    BY <1>1 DEF Deregister, TimerAfter
  <2>2. timer' <=> timer \/ senders \ {c} = {}
    BY <2>1
  <2>3. timer' \in BOOLEAN
    BY <2>1, Zenon
  <2>4. ~ timer
    BY <1>1 DEF TimedExactlyWhileIdle
  <2>. QED BY <2>1, <2>2, <2>3, <2>4 DEF TimedExactlyWhileIdle
<1>2. CASE c \notin senders
  BY <1>2 DEF Deregister, TimedExactlyWhileIdle
<1>. QED BY <1>1, <1>2

LEMMA TasksStep ==
    ASSUME TasksOK, SendersMatch, TimedExactlyWhileIdle, Next
    PROVE  TasksOK' /\ SendersMatch' /\ TimedExactlyWhileIdle'
<1>. USE DEF TasksOK, SendersMatch, TimedExactlyWhileIdle, bridgeVars, taskVars, requestVars,
             graceVars
<1>. DEFINE Goal == TasksOK' /\ SendersMatch' /\ TimedExactlyWhileIdle'
<1>1. ASSUME NEW c \in Conns, Connect(c) PROVE Goal
  BY <1>1 DEF Connect
<1>2. ASSUME NEW c \in Conns, ClientCloses(c) \/ ClientSeesEof(c) PROVE Goal
  BY <1>2 DEF ClientCloses, ClientSeesEof
<1>3. ASSUME NEW c \in Conns, NEW r \in Requests, Send(r, c) PROVE Goal
  BY <1>3 DEF Send
<1>4. ASSUME NEW c \in Conns, StdinCopies(c) \/ StdinEnds(c) \/ StdoutEnds(c) PROVE Goal
  BY <1>4 DEF StdinCopies, StdinEnds, StdoutEnds, SockAfterBridge
<1>5. ASSUME NEW c \in Conns, Register(c) PROVE Goal
  BY <1>5 DEF Register
<1>6. ASSUME NEW c \in Conns, ReaderHandles(c) PROVE Goal
  BY <1>6 DEF ReaderHandles
<1>7. ASSUME NEW c \in Conns, ReaderEnds(c) PROVE Goal
  BY <1>7, Deregistered DEF ReaderEnds
<1>8. ASSUME NEW c \in Conns, WriterWrites(c) PROVE Goal
  BY <1>8 DEF WriterWrites
<1>9. ASSUME NEW c \in Conns, WriteFails(c) PROVE Goal
  BY <1>9 DEF WriteFails
<1>10. ASSUME NEW c \in Conns, WriterLeaves(c) PROVE Goal
  BY <1>10, Deregistered DEF WriterLeaves, DeregisterLast
<1>11. ASSUME NEW r \in Requests, SendAbort(r) PROVE Goal
  BY <1>11 DEF SendAbort
<1>12. ASSUME NEW r \in Requests,
              Completes(r) \/ AbortTakesEffect(r) \/ OnResolve(r) \/ OnAbort(r)
       PROVE  Goal
  BY <1>12 DEF Completes, AbortTakesEffect, OnResolve, OnAbort
<1>13. ASSUME GraceExpires PROVE Goal
  BY <1>13 DEF GraceExpires
<1>14. ASSUME Terminate \/ Crash PROVE Goal
  <2>1. Gone
    BY <1>14 DEF Terminate, Crash
  <2>2. TasksOK'
    BY <2>1 DEF Gone
  <2>3. SendersMatch'
    BY <2>1 DEF Gone
  <2>4. TimedExactlyWhileIdle'
    BY <2>1 DEF Gone
  <2>. QED BY <2>2, <2>3, <2>4
<1>. HIDE DEF Goal
<1>15. Goal
  BY <1>1, <1>2, <1>3, <1>4, <1>5, <1>6, <1>7, <1>8, <1>9, <1>10, <1>11, <1>12, <1>13, <1>14
     DEF Next
<1>. QED BY <1>15 DEF Goal

----------------------------------------------------------------------------
(* The requests: their futures and the maps that list them.                   *)
LEMMA RequestsStep ==
    ASSUME QueuesOK, RequestsOK, RequestMapsMatch, Sent, Frames, Next
    PROVE  RequestsOK' /\ RequestMapsMatch' /\ Sent'
<1>. USE DEF RequestsOK, RequestMapsMatch, Sent, bridgeVars, taskVars, requestVars, graceVars
<1>. DEFINE Goal == RequestsOK' /\ RequestMapsMatch' /\ Sent'
<1>1. ASSUME NEW c \in Conns,
             \/ Connect(c) \/ ClientCloses(c) \/ ClientSeesEof(c)
             \/ StdinCopies(c) \/ StdinEnds(c) \/ StdoutEnds(c) \/ Register(c) \/ ReaderEnds(c)
             \/ WriterWrites(c) \/ WriteFails(c) \/ WriterLeaves(c)
      PROVE  Goal
  <2>1. UNCHANGED <<asked, origin, requestVars>>
    BY <1>1 DEF Connect, ClientCloses, ClientSeesEof, StdinCopies, StdinEnds, StdoutEnds, Register,
         ReaderEnds, WriterWrites, WriteFails, WriterLeaves
  <2>. QED BY <2>1
<1>2. ASSUME NEW c \in Conns, NEW r \in Requests, Send(r, c) PROVE Goal
  BY <1>2 DEF Send
<1>3. ASSUME NEW c \in Conns, ReaderHandles(c) PROVE Goal
  <2>1. UNCHANGED <<asked, origin>>
    BY <1>3 DEF ReaderHandles
  <2>2. PICK r \in Requests :
           /\ asked[r] # "new"
           /\ (HandleRequest(c, r) /\ work[r] = "none") \/ HandleAbort(r)
    BY <1>3, Handled
  <2>3. CASE HandleRequest(c, r) /\ work[r] = "none"
    BY <2>1, <2>2, <2>3 DEF HandleRequest
  <2>4. CASE HandleAbort(r)
    BY <2>1, <2>4 DEF HandleAbort, Aborts
  <2>. QED BY <2>2, <2>3, <2>4
<1>4. ASSUME NEW r \in Requests, SendAbort(r) PROVE Goal
  BY <1>4 DEF SendAbort
<1>5. ASSUME NEW r \in Requests, Completes(r) PROVE Goal
  BY <1>5 DEF Completes
<1>6. ASSUME NEW r \in Requests, AbortTakesEffect(r) PROVE Goal
  BY <1>6 DEF AbortTakesEffect
<1>7. ASSUME NEW r \in Requests, OnResolve(r) PROVE Goal
  BY <1>7 DEF OnResolve, EntriesLeft, OpsLeft
<1>8. ASSUME NEW r \in Requests, OnAbort(r) PROVE Goal
  BY <1>8 DEF OnAbort, EntriesLeft
<1>9. ASSUME GraceExpires PROVE Goal
  BY <1>9 DEF GraceExpires
<1>10. ASSUME Terminate \/ Crash PROVE Goal
  BY <1>10 DEF Terminate, Crash, Gone
<1>. HIDE DEF Goal
<1>11. Goal
  BY <1>1, <1>2, <1>3, <1>4, <1>5, <1>6, <1>7, <1>8, <1>9, <1>10 DEF Next
<1>. QED BY <1>11 DEF Goal

----------------------------------------------------------------------------
(* What t1 has not read is the end of what the reader has not.                *)
LEMMA StdinFits ==
    ASSUME QueuesOK, Sent, Next
    PROVE  StdinOK'
<1>. USE DEF bridgeVars, taskVars, requestVars, graceVars
<1>0. /\ \A c \in Conns : inbox[c] \in Seq(Frame) /\ Len(inbox[c]) \in Nat
      /\ inbox \in [Conns -> Seq(Frame)]
      /\ stdin \in [Conns -> Nat] /\ \A c \in Conns : stdin[c] <= Len(inbox[c])
  BY LenProperties DEF QueuesOK, StdinOK
<1>1. ASSUME UNCHANGED <<inbox, stdin>> PROVE StdinOK'
  BY <1>0, <1>1 DEF StdinOK
<1>2. ASSUME NEW c \in Conns, NEW f \in Frame,
             inbox' = [inbox EXCEPT ![c] = Append(@, f)],
             stdin' = [stdin EXCEPT ![c] = @ + 1]
      PROVE  StdinOK'
  <2>1. Len(Append(inbox[c], f)) = Len(inbox[c]) + 1
    BY <1>0, AppendProperties
  <2>. QED BY <1>0, <1>2, <2>1 DEF StdinOK
<1>3. ASSUME NEW c \in Conns, StdinCopies(c) PROVE StdinOK'
  BY <1>0, <1>3 DEF StdinCopies, StdinOK
<1>4. ASSUME NEW c \in Conns, ReaderHandles(c) PROVE StdinOK'
  <2>1. /\ Len(inbox[c]) > stdin[c]
        /\ inbox' = [inbox EXCEPT ![c] = Tail(@)] /\ UNCHANGED stdin
    BY <1>4 DEF ReaderHandles
  <2>2. inbox[c] # <<>>
    BY <1>0, <2>1, EmptySeq
  <2>3. Len(Tail(inbox[c])) = Len(inbox[c]) - 1
    BY <1>0, <2>2, HeadTailProperties
  <2>. QED BY <1>0, <2>1, <2>3 DEF StdinOK
<1>5. ASSUME NEW c \in Conns, NEW r \in Requests, Send(r, c) PROVE StdinOK'
  BY <1>2, <1>5 DEF Send, Frame
<1>6. ASSUME NEW r \in Requests, SendAbort(r) PROVE StdinOK'
  <2>1. origin[r] \in Conns
    BY <1>6 DEF SendAbort, Sent
  <2>2. <<"abort", r>> \in Frame
    BY DEF Frame
  <2>3. /\ inbox' = [inbox EXCEPT ![origin[r]] = Append(@, <<"abort", r>>)]
        /\ stdin' = [stdin EXCEPT ![origin[r]] = @ + 1]
    BY <1>6 DEF SendAbort
  <2>. QED BY <1>2, <2>1, <2>2, <2>3
<1>7. ASSUME NEW c \in Conns,
             \/ Connect(c) \/ ClientCloses(c) \/ ClientSeesEof(c)
             \/ StdinEnds(c) \/ StdoutEnds(c) \/ Register(c) \/ ReaderEnds(c)
             \/ WriterWrites(c) \/ WriteFails(c) \/ WriterLeaves(c)
      PROVE  StdinOK'
  BY <1>1, <1>7 DEF Connect, ClientCloses, ClientSeesEof, StdinEnds, StdoutEnds, Register,
     ReaderEnds, WriterWrites, WriteFails, WriterLeaves
<1>8. ASSUME NEW r \in Requests,
             Completes(r) \/ AbortTakesEffect(r) \/ OnResolve(r) \/ OnAbort(r)
      PROVE  StdinOK'
  BY <1>1, <1>8 DEF Completes, AbortTakesEffect, OnResolve, OnAbort
<1>9. ASSUME GraceExpires \/ Terminate \/ Crash PROVE StdinOK'
  BY <1>1, <1>9 DEF GraceExpires, Terminate, Crash, Gone
<1>. QED BY <1>3, <1>4, <1>5, <1>6, <1>7, <1>8, <1>9 DEF Next

----------------------------------------------------------------------------
(* The frames.  A step that leaves inboxes alone keeps them right if it begins *)
(* no work.                                                                   *)
LEMMA FramesKept ==
    ASSUME QueuesOK, Frames, UNCHANGED <<inbox, asked, origin>>,
           up' => up /\ \A r \in Requests : work[r] = "none" => work'[r] = "none"
    PROVE  inbox' \in [Conns -> Seq(Frame)] /\ Frames'
<1>1. \A c \in Conns : \A f \in Range(inbox[c]) : f[2] \in Requests
  BY RangeOfSeq DEF QueuesOK, Frame
<1>. QED BY <1>1 DEF QueuesOK, Frames

(* A frame is sent for the first time.                                        *)
LEMMA FrameSent ==
    ASSUME QueuesOK, Frames, NEW c \in Conns, NEW f \in Frame,
           inbox' = [inbox EXCEPT ![c] = Append(@, f)],
           UNCHANGED <<work, up>>,
           \A d \in Conns : \A g \in Range(inbox[d]) :
              /\ g # f
              /\ asked'[g[2]] # "new" /\ origin'[g[2]] = origin[g[2]]
              /\ asked[g[2]] = "aborted" => asked'[g[2]] = "aborted",
           asked'[f[2]] # "new", origin'[f[2]] = c,
           f[1] = "abort" => asked'[f[2]] = "aborted",
           f[1] = "request" => work[f[2]] = "none"
    PROVE  inbox' \in [Conns -> Seq(Frame)] /\ Frames'
<1>1. /\ Append(inbox[c], f) \in Seq(Frame)
      /\ Range(Append(inbox[c], f)) = Range(inbox[c]) \cup {f}
      /\ IsInjective(Append(inbox[c], f))
  BY Pushed DEF QueuesOK, Frames
<1>2. \A d \in Conns : inbox'[d] = IF d = c THEN Append(inbox[c], f) ELSE inbox[d]
  BY DEF QueuesOK
<1>3. inbox' \in [Conns -> Seq(Frame)]
  BY <1>1 DEF QueuesOK
<1>. QED BY <1>1, <1>2, <1>3 DEF Frames

LEMMA FramesStep ==
    ASSUME QueuesOK, RequestsOK, Sent, Frames, Next
    PROVE  inbox' \in [Conns -> Seq(Frame)] /\ Frames'
<1>. USE DEF bridgeVars, taskVars, requestVars, graceVars
<1>. DEFINE Goal == inbox' \in [Conns -> Seq(Frame)] /\ Frames'
<1>0. \A c \in Conns : \A f \in Range(inbox[c]) : f \in Frame /\ f[2] \in Requests
  BY RangeOfSeq DEF QueuesOK, Frame
<1>1. ASSUME NEW c \in Conns,
             \/ Connect(c) \/ ClientCloses(c) \/ ClientSeesEof(c)
             \/ StdinCopies(c) \/ StdinEnds(c) \/ StdoutEnds(c) \/ Register(c) \/ ReaderEnds(c)
             \/ WriterWrites(c) \/ WriteFails(c) \/ WriterLeaves(c)
      PROVE  Goal
  <2>1. UNCHANGED <<asked, origin, inbox, requestVars, up>>
    BY <1>1 DEF Connect, ClientCloses, ClientSeesEof, StdinCopies, StdinEnds, StdoutEnds, Register,
         ReaderEnds, WriterWrites, WriteFails, WriterLeaves
  <2>. QED BY <2>1, FramesKept
<1>2. ASSUME NEW c \in Conns, NEW r \in Requests, Send(r, c) PROVE Goal
  <2>. DEFINE f == <<"request", r>>
  <2>1. f \in Frame /\ f[1] = "request" /\ f[2] = r
    BY DEF Frame
  <2>2. /\ asked[r] = "new" /\ work[r] = "none"
        /\ asked' = [asked EXCEPT ![r] = "sent"]
        /\ origin' = [origin EXCEPT ![r] = c]
        /\ inbox' = [inbox EXCEPT ![c] = Append(@, f)]
        /\ UNCHANGED <<work, up>>
    BY <1>2 DEF Send, Sent
  <2>3. asked'[r] = "sent" /\ origin'[r] = c
    BY <2>2 DEF RequestsOK
  <2>4. ASSUME NEW d \in Conns, NEW g \in Range(inbox[d])
        PROVE  /\ g # f
               /\ asked'[g[2]] # "new" /\ origin'[g[2]] = origin[g[2]]
               /\ asked[g[2]] = "aborted" => asked'[g[2]] = "aborted"
    <3>1. g[2] \in Requests /\ asked[g[2]] # "new"
      BY <1>0 DEF Frames
    <3>. QED BY <2>1, <2>2, <3>1 DEF RequestsOK
  <2>. HIDE DEF f
  <2>. QED BY <2>1, <2>2, <2>3, <2>4, FrameSent
<1>3. ASSUME NEW r \in Requests, SendAbort(r) PROVE Goal
  <2>. DEFINE f == <<"abort", r>>  c == origin[r]
  <2>1. f \in Frame /\ f[1] = "abort" /\ f[2] = r
    BY DEF Frame
  <2>2. /\ asked[r] = "sent" /\ c \in Conns
        /\ asked' = [asked EXCEPT ![r] = "aborted"]
        /\ inbox' = [inbox EXCEPT ![c] = Append(@, f)]
        /\ UNCHANGED <<origin, work, up>>
    BY <1>3 DEF SendAbort, Sent
  <2>3. asked'[r] = "aborted" /\ origin'[r] = c
    BY <2>2 DEF RequestsOK
  <2>4. ASSUME NEW d \in Conns, NEW g \in Range(inbox[d])
        PROVE  /\ g # f
               /\ asked'[g[2]] # "new" /\ origin'[g[2]] = origin[g[2]]
               /\ asked[g[2]] = "aborted" => asked'[g[2]] = "aborted"
    <3>1. /\ g[2] \in Requests /\ asked[g[2]] # "new"
          /\ g[1] = "abort" => asked[g[2]] = "aborted"
      BY <1>0 DEF Frames
    <3>. QED BY <2>1, <2>2, <3>1 DEF RequestsOK
  <2>. HIDE DEF f, c
  <2>. QED BY <2>1, <2>2, <2>3, <2>4, FrameSent
<1>4. ASSUME NEW c \in Conns, ReaderHandles(c) PROVE Goal
  <2>1. /\ inbox' = [inbox EXCEPT ![c] = Tail(@)]
        /\ UNCHANGED <<asked, origin, up>>
    BY <1>4 DEF ReaderHandles
  <2>2. PICK r \in Requests :
           /\ origin[r] = c
           /\ \/ /\ HandleRequest(c, r)
                 /\ <<"request", r>> \notin Range(Tail(inbox[c]))
              \/ HandleAbort(r)
    BY <1>4, Handled
  <2>3. inbox[c] # <<>> /\ inbox[c] \in Seq(Frame)
    BY <1>4, Handled
  <2>4. /\ Tail(inbox[c]) \in Seq(Frame) /\ IsInjective(Tail(inbox[c]))
        /\ Range(Tail(inbox[c])) \subseteq Range(inbox[c])
    BY <2>3, Popped DEF Frames
  <2>5. \A d \in Conns : inbox'[d] = IF d = c THEN Tail(inbox[c]) ELSE inbox[d]
    BY <2>1 DEF QueuesOK
  <2>6. inbox' \in [Conns -> Seq(Frame)]
    BY <2>1, <2>4 DEF QueuesOK
  <2>7. ASSUME NEW d \in Conns, NEW f \in Range(inbox'[d]), f[1] = "request", up
        PROVE  work'[f[2]] = "none"
    <3>1. f \in Range(inbox[d]) /\ f \in Frame /\ f[2] \in Requests
      BY <1>0, <2>4, <2>5, <2>7
    <3>2. work[f[2]] = "none" /\ origin[f[2]] = d
      BY <2>7, <3>1 DEF Frames
    <3>3. CASE HandleRequest(c, r) /\ <<"request", r>> \notin Range(Tail(inbox[c]))
      <4>1. f[2] # r
        <5>1. f = <<"request", f[2]>>
          BY <2>7, <3>1 DEF Frame
        <5>. QED BY <2>2, <2>5, <2>7, <3>2, <3>3, <5>1
      <4>. QED BY <3>1, <3>2, <3>3, <4>1 DEF HandleRequest, RequestsOK
    <3>4. CASE HandleAbort(r)
      BY <3>1, <3>2, <3>4 DEF HandleAbort, Aborts, RequestsOK
    <3>. QED BY <2>2, <3>3, <3>4
  <2>. QED BY <2>1, <2>4, <2>5, <2>6, <2>7 DEF Frames
<1>5. ASSUME NEW r \in Requests,
             Completes(r) \/ AbortTakesEffect(r) \/ OnResolve(r) \/ OnAbort(r)
      PROVE  Goal
  <2>1. /\ UNCHANGED <<asked, origin, inbox, up>>
        /\ \A q \in Requests : work[q] = "none" => work'[q] = "none"
    BY <1>5 DEF Completes, AbortTakesEffect, OnResolve, OnAbort, RequestsOK
  <2>. QED BY <2>1, FramesKept
<1>6. ASSUME GraceExpires PROVE Goal
  BY <1>6, FramesKept DEF GraceExpires
<1>7. ASSUME Terminate \/ Crash PROVE Goal
  BY <1>7, FramesKept DEF Terminate, Crash, Gone
<1>. HIDE DEF Goal
<1>8. Goal
  BY <1>1, <1>2, <1>3, <1>4, <1>5, <1>6, <1>7 DEF Next
<1>. QED BY <1>8 DEF Goal

----------------------------------------------------------------------------
(* The answers.                                                               *)
AnswerQueuesOK ==
    delivered \in [Conns -> Seq(Requests)] /\ chan \in [Conns -> Seq(Requests)]

(* A step that leaves the queues alone keeps them right if it takes back       *)
(* neither a request nor its end.                                             *)
LEMMA AnswersKept ==
    ASSUME QueuesOK, Answers, UNCHANGED <<delivered, chan>>,
           \A r \in Requests :
              /\ asked[r] # "new" => asked'[r] # "new" /\ origin'[r] = origin[r]
              /\ work[r] = "over" /\ up => work'[r] = "over",
           up' => up
    PROVE  AnswerQueuesOK' /\ Answers'
<1>1. \A c \in Conns : Range(delivered[c]) \cup Range(chan[c]) \subseteq Requests
  BY RangeOfSeq DEF QueuesOK
<1>. QED BY <1>1 DEF QueuesOK, AnswerQueuesOK, Answers

(* The one answer of a request that was not over.                              *)
LEMMA Answered ==
    ASSUME QueuesOK, Answers, NEW r \in Requests, up,
           asked[r] # "new", work[r] # "over",
           work \in [Requests -> {"none", "running", "aborting", "aborted", "resolved", "over"}],
           work' = [work EXCEPT ![r] = "over"],
           chan' = Answer(r),
           UNCHANGED <<delivered, asked, origin, up>>
    PROVE  AnswerQueuesOK' /\ Answers'
<1>1. \A c \in Conns : Range(delivered[c]) \cup Range(chan[c]) \subseteq Requests
  BY RangeOfSeq DEF QueuesOK
<1>2. \A c \in Conns : r \notin Range(delivered[c]) /\ r \notin Range(chan[c])
  BY DEF Answers
<1>3. \A c \in Conns :
         /\ Append(chan[c], r) \in Seq(Requests)
         /\ Range(Append(chan[c], r)) = Range(chan[c]) \cup {r}
         /\ IsInjective(Append(chan[c], r))
  BY <1>2, Pushed DEF QueuesOK, Answers
<1>4. \A c \in Conns : \/ chan'[c] = chan[c]
                       \/ chan'[c] = Append(chan[c], r) /\ c = origin[r]
  BY DEF Answer
<1>5. AnswerQueuesOK'
  <2>1. \A c \in Conns : chan'[c] \in Seq(Requests)
    BY <1>3, <1>4 DEF QueuesOK
  <2>2. chan' = [c \in Conns |-> chan'[c]]
    BY DEF Answer
  <2>. QED BY <2>1, <2>2 DEF QueuesOK, AnswerQueuesOK
<1>6. work'[r] = "over" /\ \A q \in Requests : work[q] = "over" => work'[q] = "over"
  OBVIOUS
<1>7. ASSUME NEW c \in Conns
      PROVE  /\ IsInjective(chan'[c])
             /\ \A q \in Range(delivered[c]) : q \notin Range(chan'[c])
             /\ \A q \in Range(delivered[c]) \cup Range(chan'[c]) :
                   /\ asked[q] # "new" /\ origin[q] = c
                   /\ work'[q] = "over"
  <2>1. CASE chan'[c] = chan[c]
    BY <1>1, <1>6, <2>1 DEF Answers
  <2>2. CASE chan'[c] = Append(chan[c], r) /\ c = origin[r]
    <3>1. Range(chan'[c]) = Range(chan[c]) \cup {r} /\ IsInjective(chan'[c])
      BY <1>3, <2>2
    <3>. QED BY <1>1, <1>2, <1>6, <2>2, <3>1 DEF Answers
  <2>. QED BY <1>4, <2>1, <2>2
<1>. QED BY <1>5, <1>7 DEF Answers

LEMMA AnswersStep ==
    ASSUME QueuesOK, RequestsOK, Sent, Frames, Answers, Next
    PROVE  AnswerQueuesOK' /\ Answers'
<1>. USE DEF bridgeVars, taskVars, requestVars, graceVars
<1>. DEFINE Goal == AnswerQueuesOK' /\ Answers'
<1>1. ASSUME NEW c \in Conns,
             \/ Connect(c) \/ ClientCloses(c) \/ ClientSeesEof(c)
             \/ StdinCopies(c) \/ StdinEnds(c) \/ StdoutEnds(c) \/ Register(c) \/ ReaderEnds(c)
             \/ WriterLeaves(c)
      PROVE  Goal
  <2>1. UNCHANGED <<asked, origin, delivered, chan, requestVars, up>>
    BY <1>1 DEF Connect, ClientCloses, ClientSeesEof, StdinCopies, StdinEnds, StdoutEnds, Register,
         ReaderEnds, WriterLeaves
  <2>. QED BY <2>1, AnswersKept
<1>2. ASSUME NEW c \in Conns, NEW r \in Requests, Send(r, c) PROVE Goal
  BY <1>2, AnswersKept DEF Send, RequestsOK
<1>3. ASSUME NEW r \in Requests, SendAbort(r) PROVE Goal
  BY <1>3, AnswersKept DEF SendAbort, RequestsOK
<1>4. ASSUME NEW c \in Conns, ReaderHandles(c) PROVE Goal
  <2>1. UNCHANGED <<asked, origin, delivered, up>> /\ up
    BY <1>4 DEF ReaderHandles
  <2>2. PICK r \in Requests :
           /\ asked[r] # "new"
           /\ (HandleRequest(c, r) /\ work[r] = "none") \/ HandleAbort(r)
    BY <1>4, Handled
  <2>3. CASE work' = [work EXCEPT ![r] = "over"] /\ chan' = Answer(r) /\ work[r] = "none"
    BY <2>1, <2>2, <2>3, Answered DEF RequestsOK
  <2>4. CASE work' = [work EXCEPT ![r] = "running"] /\ UNCHANGED chan /\ work[r] = "none"
    BY <2>1, <2>4, AnswersKept DEF RequestsOK
  <2>5. CASE HandleAbort(r)
    BY <2>1, <2>5, AnswersKept DEF HandleAbort, Aborts, RequestsOK
  <2>. QED BY <2>2, <2>3, <2>4, <2>5 DEF HandleRequest
<1>5. ASSUME NEW r \in Requests, Completes(r) \/ AbortTakesEffect(r) \/ OnAbort(r) PROVE Goal
  BY <1>5, AnswersKept DEF Completes, AbortTakesEffect, OnAbort, RequestsOK
<1>6. ASSUME NEW r \in Requests, OnResolve(r) PROVE Goal
  BY <1>6, Answered DEF OnResolve, RequestsOK, Sent
<1>7. ASSUME NEW c \in Conns, WriterWrites(c) PROVE Goal
  <2>1. /\ chan[c] # <<>>
        /\ chan' = [chan EXCEPT ![c] = Tail(@)]
        /\ delivered' = [delivered EXCEPT ![c] = Append(@, Head(chan[c]))]
        /\ UNCHANGED <<asked, origin, work, up>>
    BY <1>7 DEF WriterWrites
  <2>2. /\ Head(chan[c]) \in Requests /\ Tail(chan[c]) \in Seq(Requests)
        /\ Head(chan[c]) \in Range(chan[c]) /\ Head(chan[c]) \notin Range(Tail(chan[c]))
        /\ Range(Tail(chan[c])) \subseteq Range(chan[c]) /\ IsInjective(Tail(chan[c]))
    BY <2>1, Popped DEF QueuesOK, Answers
  <2>. DEFINE d == Append(delivered[c], Head(chan[c]))
  <2>3. /\ d \in Seq(Requests)
        /\ Range(d) = Range(delivered[c]) \cup {Head(chan[c])}
        /\ IsInjective(d)
    BY <2>2, Pushed DEF QueuesOK, Answers
  <2>4. \A e \in Conns : /\ chan'[e] = IF e = c THEN Tail(chan[c]) ELSE chan[e]
                         /\ delivered'[e] = IF e = c THEN d ELSE delivered[e]
    BY <2>1 DEF QueuesOK
  <2>5. AnswerQueuesOK'
    BY <2>1, <2>2, <2>3 DEF QueuesOK, AnswerQueuesOK
  <2>. HIDE DEF d
  <2>6. ASSUME NEW e \in Conns
        PROVE  /\ IsInjective(delivered'[e]) /\ IsInjective(chan'[e])
               /\ \A r \in Range(delivered'[e]) : r \notin Range(chan'[e])
               /\ Range(delivered'[e]) \cup Range(chan'[e])
                     \subseteq Range(delivered[e]) \cup Range(chan[e])
    <3>1. CASE e = c
      <4>1. delivered'[e] = d /\ chan'[e] = Tail(chan[c])
        BY <2>4, <3>1
      <4>2. /\ Range(delivered'[e]) = Range(delivered[c]) \cup {Head(chan[c])}
            /\ IsInjective(delivered'[e])
        BY <2>3, <4>1
      <4>3. /\ Range(chan'[e]) = Range(Tail(chan[c]))
            /\ IsInjective(chan'[e])
        BY <2>2, <4>1
      <4>. QED BY <2>2, <3>1, <4>2, <4>3 DEF Answers
    <3>2. CASE e # c
      <4>1. delivered'[e] = delivered[e] /\ chan'[e] = chan[e]
        BY <2>4, <3>2
      <4>. QED BY <4>1 DEF Answers
    <3>. QED BY <3>1, <3>2
  <2>. QED BY <2>1, <2>5, <2>6 DEF Answers
<1>8. ASSUME NEW c \in Conns, WriteFails(c) PROVE Goal
  <2>1. /\ chan[c] # <<>>
        /\ chan' = [chan EXCEPT ![c] = Tail(@)]
        /\ UNCHANGED <<asked, origin, delivered, work, up>>
    BY <1>8 DEF WriteFails
  <2>2. /\ Tail(chan[c]) \in Seq(Requests)
        /\ Range(Tail(chan[c])) \subseteq Range(chan[c]) /\ IsInjective(Tail(chan[c]))
    BY <2>1, Popped DEF QueuesOK, Answers
  <2>3. \A e \in Conns : chan'[e] = IF e = c THEN Tail(chan[c]) ELSE chan[e]
    BY <2>1 DEF QueuesOK
  <2>4. AnswerQueuesOK'
    BY <2>1, <2>2 DEF QueuesOK, AnswerQueuesOK
  <2>5. ASSUME NEW e \in Conns
        PROVE  /\ IsInjective(chan'[e])
               /\ Range(chan'[e]) \subseteq Range(chan[e])
    <3>1. CASE e = c
      BY <2>2, <2>3, <3>1
    <3>2. CASE e # c
      BY <2>3, <3>2 DEF Answers
    <3>. QED BY <3>1, <3>2
  <2>. QED BY <2>1, <2>4, <2>5 DEF Answers
<1>9. ASSUME GraceExpires PROVE Goal
  BY <1>9, AnswersKept DEF GraceExpires
<1>10. ASSUME Terminate \/ Crash PROVE Goal
  <2>1. /\ chan' = [c \in Conns |-> <<>>]
        /\ ~ up'
        /\ UNCHANGED <<asked, origin, delivered>>
    BY <1>10 DEF Terminate, Crash, Gone
  <2>2. <<>> \in Seq(Requests) /\ Range(<<>>) = {} /\ IsInjective(<<>>)
    BY EmptyQueue
  <2>. QED BY <2>1, <2>2 DEF QueuesOK, AnswerQueuesOK, Answers
<1>. HIDE DEF Goal
<1>11. Goal
  BY <1>1, <1>2, <1>3, <1>4, <1>5, <1>6, <1>7, <1>8, <1>9, <1>10 DEF Next
<1>. QED BY <1>11 DEF Goal

----------------------------------------------------------------------------
LEMMA InvStep == Inv /\ [Next]_vars => Inv'
<1>. SUFFICES ASSUME Inv, [Next]_vars PROVE Inv'
  OBVIOUS
<1>1. CASE Next
  <2>1. TasksOK' /\ SendersMatch' /\ TimedExactlyWhileIdle'
    BY <1>1, TasksStep DEF Inv
  <2>2. RequestsOK' /\ RequestMapsMatch' /\ Sent'
    BY <1>1, RequestsStep DEF Inv
  <2>3. inbox' \in [Conns -> Seq(Frame)] /\ Frames'
    BY <1>1, FramesStep DEF Inv
  <2>4. AnswerQueuesOK' /\ Answers'
    BY <1>1, AnswersStep DEF Inv
  <2>5. StdinOK'
    BY <1>1, StdinFits DEF Inv
  <2>. QED BY <2>1, <2>2, <2>3, <2>4, <2>5 DEF Inv, QueuesOK, AnswerQueuesOK
<1>2. CASE UNCHANGED vars
  BY <1>2 DEF vars, bridgeVars, taskVars, requestVars, graceVars, Inv, TasksOK, QueuesOK, StdinOK,
       RequestsOK, RequestMapsMatch, SendersMatch, TimedExactlyWhileIdle, Sent, Frames, Answers
<1>. QED BY <1>1, <1>2

LEMMA Invariant == Spec => []Inv
BY InitInv, InvStep, PTL DEF Spec

(* Types; what t1 has not read the reader has not; only what was read has work, *)
(* and only spawned futures are aborted.                                      *)
THEOREM TypeCorrect == Spec => []TypeOK
<1>1. Inv => TypeOK
  BY TypeParts DEF Inv
<1>. QED BY <1>1, Invariant, PTL

(* The maps of ServerModel never lose a request that an Abort can still stop   *)
(* or a file operation that waits for its event, and never keep one that is     *)
(* over; a connection that one of its tasks has given up has no sender.        *)
THEOREM MapsFollowTasks == Spec => []MapsMatchTasks
<1>1. Inv => MapsMatchTasks
  BY DEF Inv, RequestMapsMatch, SendersMatch, MapsMatchTasks
<1>. QED BY <1>1, Invariant, PTL

(* The grace timer runs exactly while nobody is connected, although every      *)
(* connection is deregistered twice.                                          *)
THEOREM GraceOnlyWhileIdle == Spec => []TimedExactlyWhileIdle
<1>1. Inv => TimedExactlyWhileIdle
  BY DEF Inv
<1>. QED BY <1>1, Invariant, PTL

(* Every request is answered on its own connection and at most once, whatever  *)
(* ends it and however late an abort comes.                                   *)
THEOREM OneAnswerToTheAsker == Spec => []AnsweredOnceToItsAsker
<1>1. Inv => AnsweredOnceToItsAsker
  <2>. SUFFICES ASSUME Inv, NEW c \in Conns
                PROVE  LET all == delivered[c] \o chan[c] IN
                       /\ \A i \in DOMAIN all : origin[all[i]] = c
                       /\ \A i, j \in DOMAIN all : all[i] = all[j] => i = j
    BY DEF AnsweredOnceToItsAsker
  <2>. DEFINE all == delivered[c] \o chan[c]
  <2>1. /\ \A i \in DOMAIN all : all[i] \in Range(delivered[c]) \cup Range(chan[c])
        /\ \A i, j \in DOMAIN all : all[i] = all[j] => i = j
    BY Joined DEF Inv, QueuesOK, Answers
  <2>2. \A r \in Range(delivered[c]) \cup Range(chan[c]) : origin[r] = c
    BY DEF Inv, Answers
  <2>. HIDE DEF all
  <2>3. \A i \in DOMAIN all : origin[all[i]] = c
    BY <2>1, <2>2
  <2>. QED BY <2>1, <2>3 DEF all
<1>. QED BY <1>1, Invariant, PTL
==============================================================================
