---------------------------- MODULE StreamProofs ----------------------------
(***************************************************************************)
(* Theorems about what DriftWorkers puts into its topics: when a result is *)
(* the record of one execution, and that it then implements ResultStreams. *)
(***************************************************************************)
EXTENDS DriftWorkersProofs, FiniteSetTheorems, SequenceTheorems

-----------------------------------------------------------------------------
(* A call starts once. *)

\* The task of call r may have been delivered again after a crash.
Crashed(r) == crashes \in 1 .. MaxCrashes /\ r \in Crashable

\* What the control state of a worker says about the node of its call.
Started(w, r) ==
    /\ pc[w] = "exists" /\ r \in zk => Crashed(r)
    /\ pc[w] = "create" => r \notin zk
    /\ pc[w] \in {"restart", "purging"} => Crashed(r)
    /\ pc[w] \notin {"exists", "create"} => r \in zk

\* Why a restart means a crash: the node of a call is created by the holder of
\* its one message, which comes back to the queue only when a worker crashes.
OneStart(r) ==
    /\ r \in zk \/ acked[r] > 0 => published[r] > 0
    /\ published[r] =< 1 =>
         /\ acked[r] > 0 => ~Queued(r) /\ ~Held(r)
         /\ Queued(r) /\ r \in zk => Crashed(r)
         /\ \A w \in Workers : HeldBy(w, r) => Started(w, r)

StartsOnce == \A r \in Results : OneStart(r)

\* Only these steps touch messages, nodes or crashes; the other ones move the
\* worker that takes them forward.
Forward(w) ==
    \/ pc[w] = "exists" /\ pc'[w] = IF Res(w) \in zk THEN "restart" ELSE "create"
    \/ pc[w] = "restart" /\ pc'[w] = "purging"
    \/ /\ pc[w] \notin {"idle", "exists", "create"}
       /\ pc'[w] \notin {"idle", "exists", "create", "restart", "purging"}

Moves(w) == Forward(w) /\ \A v \in Workers \ {w} : pc'[v] = pc[v]

LEMMA StartSteps ==
    ASSUME TypeOK, [Next]_vars
    PROVE  \/ \E r \in Results, anon \in BOOLEAN : Publish(r, anon)
           \/ \E w \in Workers : Deliver(w) \/ Create(w) \/ Ack(w) \/ Crash(w)
           \/ /\ UNCHANGED <<taskQueue, published, acked, task, zk, crashes>>
              /\ pc' = pc \/ \E w \in Workers : Moves(w)
<1> DEFINE Rest == UNCHANGED <<taskQueue, published, acked, task, zk, crashes>>
<1> USE DEF brokers, faults
<1>1. ASSUME NEW w \in Workers, Work(w)
      PROVE  \/ Deliver(w) \/ Create(w) \/ Ack(w)
             \/ Rest /\ (pc' = pc \/ Moves(w))
  <2> USE DEF Moves, Forward, TypeOK
  <2>1. CASE Exists(w)
    BY <2>1 DEF Exists
  <2>2. CASE Restart(w) \/ Restarted(w) \/ Declare(w) \/ Consume(w)
    BY <2>2 DEF Restart, Restarted, Declare, Consume, StartService
  <2>3. CASE Poll(w)
    BY <2>3 DEF Poll
  <2>4. CASE WakeUp(w)
    BY <2>4 DEF WakeUp
  <2>5. CASE SendData(w)
    BY <2>5 DEF SendData, Sending, Emitting
  <2>6. CASE SendToken(w)
    BY <2>6 DEF SendToken, SendingEof, SendingErr, Drained
  <2>7. CASE SendFail(w)
    BY <2>7 DEF SendFail
  <2>8. QED
    BY <1>1, <2>1, <2>2, <2>3, <2>4, <2>5, <2>6, <2>7 DEF Work
<1>2. ASSUME NEW w \in Workers, Fault(w)
      PROVE  Crash(w) \/ (Rest /\ (pc' = pc \/ Moves(w)))
  <2>1. CASE PollTimeout(w)
    BY <2>1 DEF PollTimeout, Moves, Forward, TypeOK
  <2>2. CASE SendFails(w)
    BY <2>2 DEF SendFails, Sending, Emitting, SendingEof, SendingErr, Drained, Moves,
                Forward, TypeOK
  <2>3. CASE ReportFails(w)
    BY <2>3 DEF ReportFails, Moves, Forward, TypeOK
  <2>4. QED
    BY <1>2, <2>1, <2>2, <2>3 DEF Fault
<1>3. Cancel => Rest /\ pc' = pc
  BY DEF Cancel, CancelBegins, CancelEnds
<1>4. ASSUME NEW r \in Results, Purge(r)
      PROVE  Rest /\ pc' = pc
  BY <1>4 DEF Purge
<1>5. UNCHANGED vars => Rest /\ pc' = pc
  BY DEF vars
<1>6. QED
  BY <1>1, <1>2, <1>3, <1>4, <1>5 DEF Next

LEMMA StartsOnceStep == TypeOK /\ OnePlace /\ StartsOnce /\ [Next]_vars => StartsOnce'
<1> SUFFICES ASSUME TypeOK, OnePlace, StartsOnce, [Next]_vars, NEW r \in Results
             PROVE  OneStart(r)'
  BY DEF StartsOnce
<1>1. OneStart(r) /\ published[r] \in Nat /\ crashes \in Nat
  BY DEF StartsOnce, TypeOK
<1>2. /\ Queued(r) \/ Held(r) => published[r] > 0
      /\ published[r] =< 1 => HeldOnce(r) /\ ~(Queued(r) /\ Held(r))
  BY DEF OnePlace
<1>3. ASSUME NEW q \in Results, NEW anon \in BOOLEAN, Publish(q, anon)
      PROVE  OneStart(r)'
  <2>1. [res |-> q, anon |-> anon] \in Task
    BY DEF Task
  <2>2. Queued(r)' <=> Queued(r) \/ q = r
    BY <1>3, <2>1, QueuedAppend DEF Publish, Enqueue
  <2>3. /\ UNCHANGED <<acked, zk, pc, task, crashes>>
        /\ published'[r] = IF q = r THEN published[r] + 1 ELSE published[r]
    BY <1>3 DEF Publish, Enqueue, brokers, faults, TypeOK
  <2>4. (Held(r)' <=> Held(r)) /\ \A w \in Workers : HeldBy(w, r)' <=> HeldBy(w, r)
    BY <2>3 DEF Held, HeldBy, Res
  <2>5. (Crashed(r)' <=> Crashed(r)) /\ \A w \in Workers : Started(w, r)' <=> Started(w, r)
    BY <2>3 DEF Crashed, Started
  <2>6. CASE q = r
    BY <1>1, <1>2, <2>3, <2>4, <2>6 DEF OneStart, Held
  <2>7. CASE q # r
    BY <1>1, <2>2, <2>3, <2>4, <2>5, <2>7 DEF OneStart
  <2>8. QED
    BY <2>6, <2>7
<1>4. ASSUME NEW w \in Workers, Deliver(w)
      PROVE  OneStart(r)'
  <2>1. Queued(r) <=> Queued(r)' \/ Head(taskQueue).res = r
    BY <1>4, QueuedTail DEF Deliver
  <2>2. \A v \in Workers : HeldBy(v, r)' <=>
            IF v = w THEN Head(taskQueue).res = r ELSE HeldBy(v, r)
    BY <1>4, HeldDeliver
  <2>3. UNCHANGED <<published, acked, zk, crashes>> /\ pc' = [pc EXCEPT ![w] = "exists"]
    BY <1>4 DEF Deliver, faults
  <2>4. /\ \A v \in Workers \ {w} : Started(v, r)' <=> Started(v, r)
        /\ pc'[w] = "exists" /\ (Crashed(r)' <=> Crashed(r))
    BY <2>3 DEF Started, Crashed, TypeOK
  <2>5. Head(taskQueue).res = r /\ published[r] =< 1 => Started(w, r)'
    BY <1>1, <2>1, <2>3, <2>4 DEF OneStart, Started
  <2>6. Held(r)' <=> Head(taskQueue).res = r \/ \E v \in Workers \ {w} : HeldBy(v, r)
    BY <2>2 DEF Held
  <2>7. QED
    BY <1>1, <2>1, <2>2, <2>3, <2>4, <2>5, <2>6 DEF OneStart, Held
<1>5. ASSUME NEW w \in Workers, Create(w)
      PROVE  OneStart(r)'
  <2>1. /\ UNCHANGED <<taskQueue, published, acked, task, crashes>>
        /\ \/ zk' = zk \cup {Res(w)}
           \/ Res(w) \in zk /\ zk' = zk
        /\ \E x \in {"loop", "declare", "ack"} : pc' = [pc EXCEPT ![w] = x]
    BY <1>5 DEF Create, StartService, faults
  <2>2. /\ Queued(r)' <=> Queued(r)
        /\ Held(r)' <=> Held(r)
        /\ \A v \in Workers : HeldBy(v, r)' <=> HeldBy(v, r)
        /\ Crashed(r)' <=> Crashed(r)
    BY <2>1 DEF Queued, Held, HeldBy, Res, Crashed
  <2>3. CASE HeldBy(w, r)
    <3>1. published[r] > 0 /\ r \in zk'
      BY <1>2, <2>1, <2>3 DEF Held, HeldBy
    <3>2. Started(w, r)'
      BY <2>1, <3>1 DEF Started, TypeOK
    <3>3. QED
      BY <1>1, <1>2, <2>1, <2>2, <2>3, <3>1, <3>2 DEF OneStart, Held, HeldOnce
  <2>4. CASE ~HeldBy(w, r)
    <3>1. task[w] # None
      BY <1>5, BusyHasTask, CallAssumption DEF Create
    <3>2. r \in zk' <=> r \in zk
      BY <2>1, <2>4, <3>1 DEF HeldBy
    <3>3. \A v \in Workers \ {w} : Started(v, r)' <=> Started(v, r)
      BY <2>1, <2>2, <3>2 DEF Started
    <3>4. QED
      BY <1>1, <2>1, <2>2, <2>4, <3>2, <3>3 DEF OneStart
  <2>5. QED
    BY <2>3, <2>4
<1>6. ASSUME NEW w \in Workers, Ack(w)
      PROVE  OneStart(r)'
  <2>1. /\ UNCHANGED <<taskQueue, published, zk, crashes>> /\ Return(w)
        /\ acked' = [acked EXCEPT ![Res(w)] = @ + 1]
        /\ pc[w] # "idle" /\ pc' = [pc EXCEPT ![w] = "idle"]
    BY <1>6 DEF Ack, Return, faults
  <2>2. \A v \in Workers : HeldBy(v, r)' <=> v # w /\ HeldBy(v, r)
    BY <2>1, HeldReturn
  <2>3. /\ Queued(r)' <=> Queued(r)
        /\ Held(r)' => Held(r)
        /\ Crashed(r)' <=> Crashed(r)
        /\ \A v \in Workers \ {w} : Started(v, r)' <=> Started(v, r)
    BY <2>1, <2>2 DEF Queued, Held, Crashed, Started
  <2>4. CASE HeldBy(w, r)
    <3>1. published[r] > 0 /\ (published[r] =< 1 => ~Held(r)' /\ ~Queued(r))
      BY <1>2, <2>2, <2>4 DEF Held, HeldOnce
    <3>2. QED
      BY <1>1, <2>1, <2>2, <2>3, <3>1 DEF OneStart, Held
  <2>5. CASE ~HeldBy(w, r)
    <3>1. acked'[r] = acked[r]
      BY <2>1, <2>5, BusyHasTask, CallAssumption DEF HeldBy, TypeOK
    <3>2. QED
      BY <1>1, <2>1, <2>2, <2>3, <3>1 DEF OneStart
  <2>6. QED
    BY <2>4, <2>5
<1>7. ASSUME NEW w \in Workers, Crash(w)
      PROVE  OneStart(r)'
  <2>1. /\ UNCHANGED <<published, acked, zk>> /\ Return(w)
        /\ crashes < MaxCrashes /\ crashes' = crashes + 1
        /\ pc' = [pc EXCEPT ![w] = "idle"]
    BY <1>7 DEF Crash, Return
  <2>2. \A v \in Workers : HeldBy(v, r)' <=> v # w /\ HeldBy(v, r)
    BY <2>1, HeldReturn
  <2>3. /\ Held(r)' => Held(r)
        /\ Crashed(r) => Crashed(r)'
        /\ r \in Crashable => Crashed(r)'
    BY <1>1, <2>1, <2>2, BoundAssumption DEF Held, Crashed
  <2>4. \A v \in Workers \ {w} : Started(v, r) => Started(v, r)'
    BY <2>1, <2>3 DEF Started
  <2>5. Queued(r)' <=> Queued(r) \/ HeldBy(w, r)
    <3>1. CASE task[w] = None
      BY <1>7, <3>1 DEF Crash, Queued, HeldBy
    <3>2. CASE task[w] # None
      <4>1. task[w] \in Task /\ taskQueue' = <<task[w]>> \o taskQueue
        BY <1>7, <3>2 DEF Crash, TypeOK
      <4>2. Queued(r)' <=> Queued(r) \/ task[w].res = r
        BY <4>1, QueuedCons
      <4>3. QED
        BY <3>2, <4>2 DEF HeldBy, Res
    <3>3. QED
      BY <3>1, <3>2
  <2>6. HeldBy(w, r) => Held(r) /\ r \in Crashable
    BY <1>7 DEF Crash, HeldBy, Held
  <2>7. published[r] =< 1 /\ HeldBy(w, r) => ~Held(r)'
    BY <1>2, <2>2, <2>6 DEF Held, HeldOnce
  <2>8. QED
    BY <1>1, <2>1, <2>2, <2>3, <2>4, <2>5, <2>6, <2>7 DEF OneStart
<1>8. ASSUME UNCHANGED <<taskQueue, published, acked, task, zk, crashes>>,
             pc' = pc \/ \E w \in Workers : Moves(w)
      PROVE  OneStart(r)'
  <2>1. /\ Queued(r)' <=> Queued(r)
        /\ Held(r)' <=> Held(r)
        /\ \A v \in Workers : HeldBy(v, r)' <=> HeldBy(v, r)
        /\ Crashed(r)' <=> Crashed(r)
    BY <1>8 DEF Queued, Held, HeldBy, Res, Crashed
  <2>2. ASSUME NEW v \in Workers, HeldBy(v, r), Started(v, r)
        PROVE  Started(v, r)'
    <3>1. CASE pc'[v] = pc[v]
      BY <1>8, <2>1, <2>2, <3>1 DEF Started
    <3>2. CASE Forward(v)
      BY <1>8, <2>1, <2>2, <3>2 DEF Started, Forward, HeldBy
    <3>3. QED
      BY <1>8, <3>1, <3>2 DEF Moves
  <2>3. QED
    BY <1>1, <1>8, <2>1, <2>2 DEF OneStart
<1>9. QED
  BY <1>3, <1>4, <1>5, <1>6, <1>7, <1>8, StartSteps

LEMMA StartsOnceInit == Init => StartsOnce
BY CallAssumption DEF Init, StartsOnce, OneStart, Queued, Held, HeldBy

\* The node of a call published once is created by the holder of its message,
\* and a message that finds the node comes from a crash.
THEOREM NodesTellCrashes == Spec => []StartsOnce
<1>1. TypeOK /\ OnePlace /\ StartsOnce /\ [Next]_vars => StartsOnce'
  BY StartsOnceStep
<1>2. QED
  BY <1>1, StartsOnceInit, TypeCorrect, MessagesAreUnique, PTL DEF Spec

-----------------------------------------------------------------------------
(* Restarts. *)

\* As long as no call is published twice, a worker restarts a result only after
\* some worker has crashed.
THEOREM RestartsFollowCrashes ==
    Spec => []((\A r \in Results : published[r] =< 1) => RestartMeansCrash)
<1>1. TypeOK /\ StartsOnce /\ (\A r \in Results : published[r] =< 1)
        => RestartMeansCrash
  <2> SUFFICES ASSUME TypeOK, StartsOnce, \A r \in Results : published[r] =< 1,
                      NEW w \in Workers, pc[w] \in {"restart", "purging"}
               PROVE  crashes > 0
    BY DEF RestartMeansCrash
  <2>1. Res(w) \in Results /\ HeldBy(w, Res(w))
    BY BusyHasTask, CallAssumption DEF HeldBy
  <2>2. Started(w, Res(w))
    BY <2>1 DEF StartsOnce, OneStart
  <2>3. QED
    BY <2>2 DEF Started, Crashed
<1>2. QED
  BY <1>1, TypeCorrect, NodesTellCrashes, PTL

\* No call is published more often than its bound says.
LEMMA CopiesBounded == Spec => [](\A r \in Results : published[r] =< Copies)
<1> DEFINE Bounded == \A r \in Results : published[r] =< Copies
<1>1. Init => Bounded
  BY BoundAssumption DEF Init
<1>2. TypeOK /\ Bounded /\ [Next]_vars => Bounded'
  <2> SUFFICES ASSUME TypeOK, Bounded, [Next]_vars PROVE Bounded'
    OBVIOUS
  <2>1. ASSUME NEW q \in Results, NEW anon \in BOOLEAN, Publish(q, anon)
        PROVE  Bounded'
    BY <2>1, BoundAssumption DEF Publish, Enqueue, TypeOK
  <2>2. ASSUME NEW w \in Workers, Deliver(w) \/ Create(w) \/ Ack(w) \/ Crash(w)
        PROVE  published' = published
    BY <2>2 DEF Deliver, Create, Ack, Crash
  <2>3. QED
    BY <2>1, <2>2, StartSteps
<1> HIDE DEF Bounded
<1>3. Spec => []Bounded
  BY <1>1, <1>2, TypeCorrect, PTL DEF Spec
<1>4. QED
  BY <1>3 DEF Bounded

\* Where every call is published at most once, RestartMeansCrash holds whatever
\* crashes, fails or times out.
COROLLARY RestartsNeedCrashes ==
    ASSUME Copies =< 1
    PROVE  Spec => []RestartMeansCrash
<1>1. (\A r \in Results : published[r] =< Copies) /\ TypeOK
        => \A r \in Results : published[r] =< 1
  BY BoundAssumption DEF TypeOK
<1>2. QED
  BY <1>1, CopiesBounded, TypeCorrect, RestartsFollowCrashes, PTL

-----------------------------------------------------------------------------
(* The record of one execution. *)

\* So far no call was published twice, no send has thrown, and no worker that
\* computes the input of another call has crashed.
Undisturbed ==
    /\ \A r \in Results : published[r] =< 1
    /\ sendFailures = 0
    /\ crashes > 0 => \A r \in Crashable, q \in Results : Input[q] # r

\* The records of r that a reader sees: their number, the i-th of them, and
\* whether all of them are items.
Count(r) == Len(log[r]) - base[r]
At(r, i) == log[r][base[r] + i]
Open(r)  == \A i \in 1 .. Count(r) : At(r, i) = Data(i - 1, i - 1)

\* Whoever computes r has left it as it stays: with a token, or without one if
\* a poll timed out or Square read an err, which it cannot parse.
Settled(r) ==
    \/ Closed(r) \/ timeouts > 0
    \/ Kind[r] = "square" /\ EndsWith(Input[r], "err")

\* A topic: items in order, and behind them at most one token, eof only behind
\* all items of the source.  Its first records go only after a crash.
TopicInOrder(r) ==
    /\ base[r] =< Len(log[r])
    /\ \A i \in 1 .. Count(r) :
         \/ At(r, i) = Data(i - 1, i - 1)
         \/ i = Count(r) /\ At(r, i) = Err
         \/ i = Count(r) /\ At(r, i) = Eof /\ i = Items + 1
    /\ r \notin zk => log[r] = <<>> /\ r \notin short
    /\ base[r] > 0 \/ r \in short => Crashed(r)
    /\ acked[r] > 0 => Settled(r) /\ r \notin short
    /\ r \in failTopic => EndsWith(r, "err") \/ Crashed(r)

\* A worker that runs its service has read as much of its input as it has sent,
\* or one record more that it is about to send.
Fresh == {"idle", "exists", "create", "restart", "purging", "declare", "consume"}

Holds(w, rec) ==
    LET n == Count(Res(w)) IN
    /\ Kind[Res(w)] \in Consumers
    /\ pos[w] = n + 1 /\ n < Len(log[In(w)]) /\ log[In(w)][n + 1] = rec

WorkerInOrder(w) ==
    LET r == Res(w)
        n == Count(r) IN
    /\ r \in short => pc[w] \in {"exists", "restart", "purging"}
    /\ pc[w] = "purging" => (r \in short \/ log[r] = <<>>) /\ mark[w] = Len(log[r])
    /\ pc[w] \in {"declare", "consume"} => n = 0 /\ Kind[r] \in Consumers \cup {"err"}
    /\ pc[w] = "consume" => SignalOf(w) \in signal
    /\ pc[w] = "loop" =>
         /\ Open(r) /\ key[w] = n /\ Kind[r] # "err"
         /\ Kind[r] \in Consumers => pos[w] = n \/ (pos[w] = Begin /\ n = 0)
    /\ pc[w] = "send" =>
         Open(r) /\ key[w] = n /\ held[w] = n /\ Holds(w, Data(n, n))
    /\ pc[w] = "eof" => Open(r) /\ Holds(w, Eof)
    /\ pc[w] = "err" => Open(r) /\ ((Kind[r] = "err" /\ n = 0) \/ Holds(w, Err))
    /\ pc[w] = "fail" => EndsWith(r, "err")
    /\ pc[w] = "ack" => Settled(r)

LocalInOrder(w) ==
    /\ pc[w] \in Fresh => pos[w] = Begin /\ key[w] = 0
    /\ task[w] # None => WorkerInOrder(w)

\* All topics and workers are in order, and nobody cancels a reader.
Clean ==
    /\ callbacks = {}
    /\ \A l \in listeners : l.on = Input[l.out]
    /\ \A r \in Results : TopicInOrder(r)
    /\ \A w \in Workers : LocalInOrder(w)

OneExecution == Undisturbed => Clean
-----------------------------------------------------------------------------
(* What a step leaves alone. *)

\* What did not disturb the system so far did not do so before.
LEMMA UndisturbedBefore ==
    ASSUME TypeOK, [Next]_vars, Undisturbed'
    PROVE  Undisturbed /\ crashes =< crashes'
<1>1. /\ \A r \in Results : published[r] =< published'[r]
      /\ crashes =< crashes'
  <2>1. ASSUME NEW q \in Results, NEW anon \in BOOLEAN, Publish(q, anon)
        PROVE  (\A r \in Results : published[r] =< published'[r]) /\ crashes =< crashes'
    BY <2>1 DEF Publish, Enqueue, TypeOK, faults
  <2>2. ASSUME NEW w \in Workers, Deliver(w) \/ Create(w) \/ Ack(w) \/ Crash(w)
        PROVE  published' = published /\ (crashes' = crashes \/ crashes' = crashes + 1)
    BY <2>2 DEF Deliver, Create, Ack, Crash, faults
  <2>3. QED
    BY <2>1, <2>2, StartSteps DEF TypeOK
<1>2. sendFailures' = sendFailures \/ sendFailures' = sendFailures + 1
  <2> USE DEF faults
  <2>1. ASSUME NEW w \in Workers, Work(w)
        PROVE  sendFailures' = sendFailures
    BY <2>1 DEF Work, Deliver, Exists, Create, Restart, Restarted, Declare, Consume,
                Poll, WakeUp, SendData, SendToken, SendFail, Ack
  <2>2. ASSUME NEW w \in Workers, Fault(w)
        PROVE  sendFailures' = sendFailures \/ sendFailures' = sendFailures + 1
    BY <2>2 DEF Fault, PollTimeout, SendFails, ReportFails, Crash
  <2>3. Cancel => sendFailures' = sendFailures
    BY DEF Cancel, CancelBegins, CancelEnds
  <2>4. QED
    BY <2>1, <2>2, <2>3 DEF Next, Publish, Enqueue, Purge, vars
<1> TypeOK'
  BY NextType
<1>3. (crashes > 0 => crashes' > 0) /\ sendFailures = 0
  BY <1>1, <1>2 DEF Undisturbed, TypeOK
<1>4. \A r \in Results : published[r] =< 1
  BY <1>1 DEF Undisturbed, TypeOK
<1>5. QED
  BY <1>1, <1>3, <1>4 DEF Undisturbed

\* A result that is read was not restarted.
LEMMA ReadIsWhole ==
    ASSUME TypeOK, Undisturbed, NEW q \in Results, NEW r \in Results, Input[q] = r
    PROVE  ~Crashed(r)
BY DEF Undisturbed, Crashed

LEMMA ReadIsKept ==
    ASSUME TypeOK, Undisturbed, Clean, NEW q \in Results, NEW r \in Results, Input[q] = r
    PROVE  base[r] = 0 /\ r \notin short /\ Count(r) = Len(log[r])
<1>1. ~Crashed(r) /\ TopicInOrder(r)
  BY ReadIsWhole DEF Clean
<1>2. QED
  BY <1>1 DEF TopicInOrder, TypeOK, Count

\* Two workers do not compute the same result.
LEMMA OneWorker ==
    ASSUME TypeOK, OnePlace, Undisturbed, NEW v \in Workers, NEW w \in Workers,
           task[v] # None, task[w] # None, Res(v) = Res(w)
    PROVE  v = w
<1>1. Res(v) \in Results
  BY DEF TypeOK, Res, Task
<1>2. QED
  BY <1>1 DEF OnePlace, HeldOnce, HeldBy, Undisturbed

\* The locals of worker v.
Rests(v) ==
    /\ pc'[v] = pc[v] /\ task'[v] = task[v] /\ pos'[v] = pos[v]
    /\ key'[v] = key[v] /\ held'[v] = held[v] /\ mark'[v] = mark[v]

\* A step that changes nothing but result r and worker w, and of r only what
\* its readers do not mind: it adds records, unless r has ended with err.
SameTopic(q) ==
    /\ log'[q] = log[q] /\ base'[q] = base[q] /\ acked'[q] = acked[q]
    /\ q \in short' <=> q \in short
    /\ q \in failTopic' => q \in failTopic

Lengthens(r) ==
    /\ base'[r] = base[r] /\ Len(log[r]) =< Len(log'[r])
    /\ \A i \in 1 .. Len(log[r]) : log'[r][i] = log[r][i]
    /\ EndsWith(r, "err") => log'[r] = log[r]

FaultsGrow ==
    /\ \A q \in Results : Crashed(q) => Crashed(q)'
    /\ timeouts > 0 => timeouts' > 0

Apart(w, r) ==
    /\ \A q \in Results \ {r} : SameTopic(q)
    /\ \A q \in Results : r \in Results /\ Input[q] = r => Lengthens(r)
    /\ zk \subseteq zk' /\ FaultsGrow
    /\ \A v \in Workers \ {w} :
         /\ Rests(v)
         /\ task[v] # None => Res(v) # r
         /\ pc[v] = "consume" /\ SignalOf(v) \in signal => SignalOf(v) \in signal'

LEMMA SettledStays ==
    ASSUME NEW q \in Results, Settled(q), FaultsGrow,
           log'[q] = log[q], base'[q] = base[q],
           Kind[q] = "square" /\ EndsWith(Input[q], "err") => EndsWith(Input[q], "err")'
    PROVE  Settled(q)'
BY DEF Settled, Closed, FaultsGrow

LEMMA ErrStays ==
    ASSUME Clean, Undisturbed, TypeOK, NEW w, NEW r, Apart(w, r), NEW q \in Results,
           Kind[q] = "square", EndsWith(Input[q], "err")
    PROVE  EndsWith(Input[q], "err")'
<1>1. Input[q] \in Results
  BY CallAssumption DEF Consumers
<1>2. CASE Input[q] = r
  BY <1>1, <1>2 DEF Apart, Lengthens, EndsWith
<1>3. CASE Input[q] # r
  BY <1>1, <1>3 DEF Apart, SameTopic, EndsWith
<1>4. QED
  BY <1>2, <1>3

LEMMA TopicStays ==
    ASSUME NEW q \in Results, TopicInOrder(q), SameTopic(q), zk \subseteq zk',
           FaultsGrow, Settled(q) => Settled(q)'
    PROVE  TopicInOrder(q)'
<1>1. /\ Count(q)' = Count(q)
      /\ \A i : At(q, i)' = At(q, i)
      /\ EndsWith(q, "err") => EndsWith(q, "err")'
  BY DEF SameTopic, Count, At, EndsWith
<1>2. \A i \in 1 .. Count(q)' :
         \/ At(q, i)' = Data(i - 1, i - 1)
         \/ i = Count(q)' /\ At(q, i)' = Err
         \/ i = Count(q)' /\ At(q, i)' = Eof /\ i = Items + 1
  BY <1>1 DEF TopicInOrder
<1>3. /\ base'[q] =< Len(log'[q])
      /\ q \notin zk' => log'[q] = <<>> /\ q \notin short'
      /\ base'[q] > 0 \/ q \in short' => Crashed(q)'
      /\ acked'[q] > 0 => Settled(q)' /\ q \notin short'
      /\ q \in failTopic' => EndsWith(q, "err")' \/ Crashed(q)'
  BY <1>1 DEF TopicInOrder, SameTopic, FaultsGrow
<1>4. QED
  BY <1>2, <1>3 DEF TopicInOrder

LEMMA HoldsStays ==
    ASSUME TypeOK, Clean, Undisturbed, NEW w, NEW r, Apart(w, r), NEW v \in Workers \ {w},
           task[v] # None, NEW rec, Holds(v, rec)
    PROVE  Holds(v, rec)'
<1> DEFINE q == Res(v)
           n == Count(q)
<1>1. /\ q \in Results /\ q # r /\ Rests(v) /\ SameTopic(q)
      /\ q = Res(v)'
  BY DEF TypeOK, Res, Task, Apart, Rests
<1>2. In(v) \in Results /\ In(v)' = In(v) /\ In(v) = Input[q]
  BY <1>1, CallAssumption DEF In, Holds
<1>3. n \in Int /\ Count(Res(v))' = n
  BY <1>1 DEF Count, SameTopic, TypeOK
<1>4. n \in Nat
  BY <1>1 DEF Clean, TopicInOrder, Count, TypeOK
<1>5. /\ Len(log[In(v)]) =< Len(log'[In(v)])
      /\ \A i \in 1 .. Len(log[In(v)]) : log'[In(v)][i] = log[In(v)][i]
  <2>1. CASE In(v) = r
    BY <1>1, <1>2, <2>1 DEF Apart, Lengthens
  <2>2. CASE In(v) # r
    <3>1. log'[In(v)] = log[In(v)] /\ Len(log[In(v)]) \in Nat
      BY <1>2, <2>2 DEF Apart, SameTopic, TypeOK
    <3>2. QED
      BY <3>1
  <2>3. QED
    BY <2>1, <2>2
<1>6. Len(log[In(v)]) \in Nat /\ Len(log'[In(v)]) \in Int
  BY <1>2, <1>5 DEF TypeOK
<1>7. QED
  BY <1>1, <1>2, <1>3, <1>4, <1>5, <1>6 DEF Holds, Rests
LEMMA WorkerStays ==
    ASSUME TypeOK, Clean, Undisturbed, NEW w, NEW r, Apart(w, r),
           NEW v \in Workers \ {w}, task[v] # None
    PROVE  WorkerInOrder(v)'
<1> DEFINE q == Res(v)
           n == Count(q)
<1>1. /\ q \in Results /\ q # r /\ Rests(v) /\ SameTopic(q)
      /\ Res(v)' = q /\ In(v)' = In(v) /\ SignalOf(v)' = SignalOf(v)
  BY DEF TypeOK, Res, Task, Apart, Rests, In, SignalOf, Does
<1>2. WorkerInOrder(v)
  BY DEF Clean, LocalInOrder
<1>3. /\ Count(q)' = n /\ (Open(q)' <=> Open(q))
      /\ EndsWith(q, "err") => EndsWith(q, "err")'
      /\ q \in short' <=> q \in short
  BY <1>1 DEF SameTopic, Count, Open, At, EndsWith
<1>4. Settled(q) => Settled(q)'
  BY <1>1, ErrStays, SettledStays DEF Apart, SameTopic
<1>5. \A rec : Holds(v, rec) => Holds(v, rec)'
  BY HoldsStays
<1>6. pc[v] = "consume" => SignalOf(v) \in signal'
  BY <1>2 DEF WorkerInOrder, Apart
<1>7. QED
  BY <1>1, <1>2, <1>3, <1>4, <1>5, <1>6 DEF WorkerInOrder, Rests, SameTopic

\* What a step leaves alone stays in order.
LEMMA OthersStay ==
    ASSUME TypeOK, Clean, Undisturbed, NEW w, NEW r, Apart(w, r)
    PROVE  /\ \A q \in Results \ {r} : TopicInOrder(q)'
           /\ \A v \in Workers \ {w} : LocalInOrder(v)'
<1>1. ASSUME NEW q \in Results \ {r}
      PROVE  TopicInOrder(q)'
  <2>1. TopicInOrder(q) /\ SameTopic(q) /\ zk \subseteq zk' /\ FaultsGrow
    BY DEF Clean, Apart
  <2>2. Settled(q) => Settled(q)'
    BY <2>1, ErrStays, SettledStays DEF SameTopic
  <2>3. QED
    BY <2>1, <2>2, TopicStays
<1>2. ASSUME NEW v \in Workers \ {w}
      PROVE  LocalInOrder(v)'
  <2>1. Rests(v) /\ LocalInOrder(v)
    BY DEF Clean, Apart
  <2>2. task[v] # None => WorkerInOrder(v)'
    BY WorkerStays
  <2>3. QED
    BY <2>1, <2>2 DEF LocalInOrder, Rests
<1>3. QED
  BY <1>1, <1>2
-----------------------------------------------------------------------------
(* Steps of a worker. *)

\* A topic that has records exists.
TopicsExist == \A r \in Results : log[r] # <<>> => r \in topics

LEMMA RecordsHaveTopics == Spec => []TopicsExist
<1>1. Init => TopicsExist
  BY DEF Init, TopicsExist
<1>2. TypeOK /\ TopicsExist /\ [Next]_vars => TopicsExist'
  <2> SUFFICES ASSUME TypeOK, TopicsExist, [Next]_vars PROVE TopicsExist'
    OBVIOUS
  <2> USE DEF kafka
  <2>1. ASSUME log' = log, topics \subseteq topics'
        PROVE  TopicsExist'
    BY <2>1 DEF TopicsExist
  <2>2. ASSUME NEW r, NEW x, Send(r, x)
        PROVE  TopicsExist'
    BY <2>2 DEF TopicsExist, Send, TypeOK
  <2>3. ASSUME NEW w \in Workers, Work(w)
        PROVE  TopicsExist'
    <3>1. CASE SendData(w) \/ SendToken(w)
      BY <2>2, <3>1 DEF SendData, SendToken
    <3>2. CASE ~(SendData(w) \/ SendToken(w))
      BY <2>1, <2>3, <3>2 DEF Work, Deliver, Exists, Create, Restart, Restarted, Declare,
                              Consume, Poll, WakeUp, SendFail, Ack
    <3>3. QED
      BY <3>1, <3>2
  <2>4. ASSUME NEW w \in Workers, Fault(w)
        PROVE  TopicsExist'
    <3>1. CASE SendFails(w)
      BY <2>1, <2>2, <3>1 DEF SendFails
    <3>2. CASE ~SendFails(w)
      BY <2>1, <2>4, <3>2 DEF Fault, PollTimeout, ReportFails, Crash
    <3>3. QED
      BY <3>1, <3>2
  <2>5. Cancel => TopicsExist'
    BY <2>1 DEF Cancel, CancelBegins, CancelEnds
  <2>6. QED
    BY <2>1, <2>3, <2>4, <2>5 DEF Next, Publish, Enqueue, Purge, vars
<1>3. QED
  BY <1>1, <1>2, TypeCorrect, PTL DEF Spec

\* All that is known before a step.
Orderly == TypeOK /\ OnePlace /\ StartsOnce /\ TopicsExist /\ Undisturbed /\ Clean

\* A busy worker: its call is started but not acknowledged, and in order.
LEMMA Busy ==
    ASSUME Orderly, NEW w \in Workers, pc[w] # "idle"
    PROVE  /\ task[w] # None /\ task[w] \in Task /\ Res(w) \in Results
           /\ WorkerInOrder(w) /\ TopicInOrder(Res(w)) /\ LocalInOrder(w)
           /\ Started(w, Res(w)) /\ acked[Res(w)] = 0
           /\ Count(Res(w)) \in Nat
           /\ \A v \in Workers \ {w} : task[v] # None => Res(v) # Res(w)
<1>1. task[w] # None /\ task[w] \in Task /\ Res(w) \in Results
  BY BusyHasTask, CallAssumption DEF Orderly
<1>2. WorkerInOrder(w) /\ TopicInOrder(Res(w)) /\ LocalInOrder(w)
  BY <1>1 DEF Orderly, Clean, LocalInOrder
<1>3. HeldBy(w, Res(w)) /\ Held(Res(w)) /\ OneStart(Res(w)) /\ published[Res(w)] =< 1
  BY <1>1 DEF HeldBy, Held, Orderly, StartsOnce, Undisturbed
<1>4. Started(w, Res(w)) /\ acked[Res(w)] = 0
  BY <1>1, <1>3 DEF OneStart, Orderly, TypeOK
<1>5. Count(Res(w)) \in Nat
  BY <1>1, <1>2 DEF TopicInOrder, Count, Orderly, TypeOK
<1>6. \A v \in Workers \ {w} : task[v] # None => Res(v) # Res(w)
  BY <1>1, OneWorker DEF Orderly
<1>7. QED
  BY <1>1, <1>2, <1>4, <1>5, <1>6

\* A step apart from worker w and result r leaves everything in order if it
\* leaves these two in order.
LEMMA CleanAgain ==
    ASSUME Orderly, NEW w, NEW r, Apart(w, r), callbacks' = {},
           \A l \in listeners' : l.on = Input[l.out],
           r \in Results => TopicInOrder(r)', w \in Workers => LocalInOrder(w)'
    PROVE  Clean'
<1>1. /\ \A q \in Results \ {r} : TopicInOrder(q)'
      /\ \A v \in Workers \ {w} : LocalInOrder(v)'
  BY OthersStay DEF Orderly
<1>2. QED
  BY <1>1 DEF Clean

\* A step that leaves the topics alone is apart from all of them.
QuietFor(w) ==
    /\ UNCHANGED <<log, base, short, acked, failTopic, callbacks>>
    /\ zk \subseteq zk' /\ FaultsGrow /\ signal \subseteq signal'
    /\ \A v \in Workers \ {w} : Rests(v)

LEMMA QuietIsApart ==
    ASSUME Orderly, NEW w, QuietFor(w)
    PROVE  Apart(w, None) /\ None \notin Results
<1>1. None \notin Results
  BY CallAssumption
<1>2. \A v \in Workers : task[v] # None => Res(v) # None
  BY <1>1 DEF Orderly, TypeOK, Res, Task
<1>3. QED
  BY <1>1, <1>2 DEF QuietFor, Apart, SameTopic

LEMMA QuietStep ==
    ASSUME Orderly, NEW w, QuietFor(w), \A l \in listeners' : l.on = Input[l.out],
           w \in Workers => LocalInOrder(w)'
    PROVE  Clean'
<1>1. callbacks' = {}
  BY DEF Orderly, Clean, QuietFor
<1>2. QED
  BY <1>1, QuietIsApart, CleanAgain

\* What a quiet step leaves of the topics.
LEMMA QuietTopics ==
    ASSUME NEW w, QuietFor(w)
    PROVE  \A q : /\ Count(q)' = Count(q) /\ (Open(q)' <=> Open(q))
                  /\ EndsWith(q, "err")' <=> EndsWith(q, "err")
                  /\ \A i : At(q, i)' = At(q, i)
BY DEF QuietFor, Count, Open, At, EndsWith

LEMMA DeliverClean ==
    ASSUME Orderly, NEW w \in Workers, Deliver(w)
    PROVE  Clean'
<1>1. QuietFor(w)
  BY DEF Deliver, QuietFor, Rests, kafka, faults, FaultsGrow, Crashed, Orderly, TypeOK
<1>2. LocalInOrder(w)'
  <2>1. pos'[w] = Begin /\ key'[w] = 0 /\ pc'[w] = "exists"
    BY DEF Deliver, Orderly, Clean, LocalInOrder, Fresh, TypeOK
  <2>2. QED
    BY <2>1 DEF LocalInOrder, WorkerInOrder
<1>3. QED
  BY <1>1, <1>2, QuietStep DEF Deliver, Orderly, Clean

LEMMA ExistsClean ==
    ASSUME Orderly, NEW w \in Workers, Exists(w)
    PROVE  Clean'
<1>1. QuietFor(w)
  BY DEF Exists, QuietFor, Rests, brokers, signals, kafka, local, faults, FaultsGrow,
         Crashed, Orderly, TypeOK
<1>2. LocalInOrder(w)'
  <2>1. /\ pos'[w] = Begin /\ key'[w] = 0 /\ Res(w)' = Res(w)
        /\ pc'[w] = IF Res(w) \in zk THEN "restart" ELSE "create"
    BY Busy DEF Exists, Orderly, LocalInOrder, Fresh, TypeOK, local, Res
  <2>2. Res(w) \notin zk => Res(w) \notin short'
    BY Busy DEF Exists, TopicInOrder, kafka
  <2>3. QED
    BY <2>1, <2>2 DEF LocalInOrder, WorkerInOrder
<1>3. QED
  BY <1>1, <1>2, QuietStep DEF Exists, Orderly, Clean, signals

LEMMA CreateClean ==
    ASSUME Orderly, NEW w \in Workers, Create(w)
    PROVE  Clean'
<1>1. /\ QuietFor(w) /\ Res(w)' = Res(w) /\ pos' = pos /\ key' = key
      /\ UNCHANGED <<listeners, task>>
  BY DEF Create, StartService, QuietFor, Rests, signals, kafka, local, faults, FaultsGrow,
         Crashed, Orderly, TypeOK, Res
<1>2. Res(w) \notin zk /\ task[w] # None /\ Res(w) \in Results
  BY Busy DEF Create, Started
<1>3. /\ Kind[Res(w)] \in {"emitter", "errEmitter"} => pc'[w] = "loop"
      /\ Kind[Res(w)] \notin {"emitter", "errEmitter"} => pc'[w] = "declare"
  BY <1>2 DEF Create, StartService, Orderly, TypeOK
<1>4. Count(Res(w)) = 0 /\ Res(w) \notin short'
  <2>1. log[Res(w)] = <<>> /\ base[Res(w)] =< Len(log[Res(w)]) /\ Res(w) \notin short
    BY <1>2, Busy DEF Create, TopicInOrder
  <2>2. QED
    BY <1>1, <1>2, <2>1 DEF Count, Orderly, TypeOK, QuietFor
<1>5. Count(Res(w))' = 0 /\ Open(Res(w))'
  BY <1>1, <1>4, QuietTopics DEF Open
<1>6. pos'[w] = Begin /\ key'[w] = 0
  BY <1>1, Busy DEF Create, LocalInOrder, Fresh
<1>7. LocalInOrder(w)'
  BY <1>1, <1>2, <1>3, <1>4, <1>5, <1>6, CallAssumption
     DEF LocalInOrder, WorkerInOrder, Fresh, Sources, Consumers
<1>8. QED
  BY <1>1, <1>7, QuietStep DEF Orderly, Clean
LEMMA DeclareClean ==
    ASSUME Orderly, NEW w \in Workers, Declare(w)
    PROVE  Clean'
<1>1. /\ QuietFor(w) /\ Res(w)' = Res(w) /\ SignalOf(w)' = SignalOf(w)
      /\ pos' = pos /\ key' = key /\ UNCHANGED <<listeners, task>>
      /\ pc'[w] = "consume" /\ SignalOf(w) \in signal'
  BY DEF Declare, QuietFor, Rests, brokers, kafka, local, faults, FaultsGrow, Crashed,
         Orderly, TypeOK, Res, SignalOf, Does, In
<1>2. /\ pos[w] = Begin /\ key[w] = 0 /\ Res(w) \notin short
      /\ Count(Res(w)) = 0 /\ Kind[Res(w)] \in Consumers \cup {"err"}
  BY Busy DEF Declare, LocalInOrder, WorkerInOrder, Fresh
<1>3. Count(Res(w))' = 0 /\ Res(w) \notin short'
  BY <1>1, <1>2, QuietTopics DEF QuietFor
<1>4. LocalInOrder(w)'
  BY <1>1, <1>2, <1>3 DEF LocalInOrder, WorkerInOrder
<1>5. QED
  BY <1>1, <1>4, QuietStep DEF Orderly, Clean

LEMMA ConsumeClean ==
    ASSUME Orderly, NEW w \in Workers, Consume(w)
    PROVE  Clean'
<1>1. /\ QuietFor(w) /\ Res(w)' = Res(w) /\ pos' = pos /\ key' = key
  BY DEF Consume, QuietFor, Rests, brokers, local, faults, FaultsGrow, Crashed,
         Orderly, TypeOK, Res
<1>2. /\ pos[w] = Begin /\ key[w] = 0 /\ Res(w) \notin short
      /\ Count(Res(w)) = 0 /\ Kind[Res(w)] \in Consumers \cup {"err"}
      /\ SignalOf(w) \in signal /\ task[w] # None /\ Res(w) \in Results
  BY Busy DEF Consume, LocalInOrder, WorkerInOrder, Fresh
<1>3. Count(Res(w))' = 0 /\ Open(Res(w))' /\ Res(w) \notin short'
  BY <1>1, <1>2, QuietTopics DEF QuietFor, Open
<1>4. CASE Kind[Res(w)] = "err"
  <2>1. pc'[w] = "err" /\ listeners' = listeners
    BY <1>2, <1>4 DEF Consume, Does, Consumers, Orderly, TypeOK
  <2>2. LocalInOrder(w)'
    BY <1>1, <1>3, <1>4, <2>1 DEF LocalInOrder, WorkerInOrder, Fresh
  <2>3. QED
    BY <1>1, <2>1, <2>2, QuietStep DEF Orderly, Clean
<1>5. CASE Kind[Res(w)] \in Consumers
  <2>1. /\ pc'[w] = "loop"
        /\ listeners' = listeners \cup
              {[on |-> In(w), out |-> Res(w), w |-> w, id |-> run[w]]}
    BY <1>2, <1>5 DEF Consume, Does, Consumers, Orderly, TypeOK
  <2>2. \A l \in listeners' : l.on = Input[l.out]
    BY <2>1 DEF Orderly, Clean, In
  <2>3. LocalInOrder(w)'
    BY <1>1, <1>2, <1>3, <1>5, <2>1 DEF LocalInOrder, WorkerInOrder, Fresh, Consumers
  <2>4. QED
    BY <1>1, <2>2, <2>3, QuietStep
<1>6. QED
  BY <1>2, <1>4, <1>5

\* The record that a reader finds behind the n it has passed on.
LEMMA NextRecord ==
    ASSUME Orderly, NEW q \in Results, NEW r \in Results, Input[q] = r, NEW n \in Nat,
           n < Len(log[r])
    PROVE  /\ log[r][n + 1] \in {Data(n, n), Eof, Err}
           /\ log[r][n + 1] = Eof => n = Items
           /\ log[r][n + 1] = Err => EndsWith(r, "err")
<1>1. base[r] = 0 /\ Count(r) = Len(log[r]) /\ Len(log[r]) \in Nat
  <2>1. Len(log[r]) \in Nat
    BY DEF Orderly, TypeOK
  <2>2. QED
    BY <2>1, ReadIsKept DEF Orderly
<1>2. /\ n + 1 \in 1 .. Count(r) /\ At(r, n + 1) = log[r][n + 1]
      /\ (n + 1) - 1 = n
  BY <1>1 DEF At
<1>3. \/ log[r][n + 1] = Data(n, n)
      \/ n + 1 = Count(r) /\ log[r][n + 1] = Err
      \/ n + 1 = Count(r) /\ log[r][n + 1] = Eof /\ n + 1 = Items + 1
  BY <1>2 DEF Orderly, Clean, TopicInOrder
<1>4. Data(n, n) # Eof /\ Data(n, n) # Err /\ Eof # Err
  BY DEF Data, Eof, Err
<1>5. n + 1 = Items + 1 => n = Items
  BY BoundAssumption
<1>6. n + 1 = Count(r) /\ log[r][n + 1] = Err => EndsWith(r, "err")
  BY <1>1 DEF EndsWith, Err
<1>7. QED
  BY <1>3, <1>4, <1>5, <1>6

LEMMA PollClean ==
    ASSUME Orderly, NEW w \in Workers, Poll(w)
    PROVE  Clean'
<1> DEFINE r == Res(w)
           n == Count(r)
<1>1. /\ QuietFor(w) /\ Res(w)' = r /\ In(w)' = In(w) /\ key' = key
      /\ UNCHANGED <<listeners, task, log>>
  BY DEF Poll, QuietFor, Rests, brokers, signals, kafka, faults, FaultsGrow, Crashed,
         Orderly, TypeOK, Res, In
<1>2. /\ r \in Results /\ Kind[r] \in Consumers /\ n \in Nat /\ r \notin short
      /\ Open(r) /\ key[w] = n /\ (pos[w] = n \/ (pos[w] = Begin /\ n = 0))
  BY Busy DEF Poll, Does, WorkerInOrder
<1>3. In(w) = Input[r] /\ In(w) \in Results
  BY <1>2, CallAssumption DEF In
<1>4. base[In(w)] = 0 /\ Position(w) = n
  BY <1>2, <1>3, ReadIsKept DEF Position, Orderly, Begin
<1> DEFINE rec == log[In(w)][n + 1]
<1>5. /\ n < Len(log[In(w)]) /\ pos'[w] = n + 1
      /\ \/ rec.tok = "data" /\ held'[w] = rec.val /\ pc'[w] = "send"
         \/ rec.tok = "eof" /\ pc'[w] = "eof"
         \/ rec.tok = "err" /\ Kind[r] = "cat" /\ pc'[w] = "err"
         \/ rec.tok = "err" /\ Kind[r] = "square" /\ pc'[w] = "ack"
  <2>1. ~(Position(w) < base[In(w)])
    BY <1>2, <1>4
  <2>2. QED
    BY <1>4, <2>1 DEF Poll, Does, Orderly, TypeOK
<1>6. /\ rec \in {Data(n, n), Eof, Err}
      /\ rec = Err => EndsWith(In(w), "err")
  BY <1>2, <1>3, <1>5, NextRecord
<1>7. /\ Count(r)' = n /\ Open(r)' /\ r \notin short'
      /\ EndsWith(In(w), "err")' <=> EndsWith(In(w), "err")
  BY <1>1, <1>2, QuietTopics DEF QuietFor
<1>8. rec' = rec /\ Holds(w, rec)'
  BY <1>1, <1>2, <1>5, <1>7 DEF Holds
<1>9. /\ rec.tok = "data" => rec = Data(n, n) /\ rec.val = n
      /\ rec.tok = "eof" => rec = Eof
      /\ rec.tok = "err" => rec = Err
  BY <1>6 DEF Data, Eof, Err
<1>10. WorkerInOrder(w)'
  <2>1. CASE pc'[w] = "send"
    <3>1. held'[w] = n /\ Holds(w, Data(n, n))'
      BY <1>1, <1>5, <1>7, <1>8, <1>9, <2>1
    <3>2. QED
      BY <1>1, <1>2, <1>7, <2>1, <3>1 DEF WorkerInOrder
  <2>2. CASE pc'[w] = "eof"
    <3>1. Holds(w, Eof)'
      BY <1>1, <1>5, <1>8, <1>9, <2>2
    <3>2. QED
      BY <1>1, <1>2, <1>7, <2>2, <3>1 DEF WorkerInOrder
  <2>3. CASE pc'[w] = "err"
    <3>1. Holds(w, Err)'
      BY <1>1, <1>5, <1>8, <1>9, <2>3
    <3>2. QED
      BY <1>1, <1>2, <1>7, <2>3, <3>1 DEF WorkerInOrder
  <2>4. CASE pc'[w] = "ack"
    <3>1. Kind[r] = "square" /\ EndsWith(Input[r], "err")'
      BY <1>1, <1>3, <1>5, <1>6, <1>7, <1>9, <2>4
    <3>2. Settled(r)'
      BY <1>1, <3>1 DEF Settled
    <3>3. QED
      BY <1>1, <1>2, <1>7, <2>4, <3>2 DEF WorkerInOrder
  <2>5. QED
    BY <1>5, <2>1, <2>2, <2>3, <2>4
<1>11. LocalInOrder(w)'
  BY <1>5, <1>10 DEF LocalInOrder, Fresh
<1>12. QED
  BY <1>1, <1>11, QuietStep DEF Orderly, Clean

LEMMA PollTimeoutClean ==
    ASSUME Orderly, NEW w \in Workers, PollTimeout(w)
    PROVE  Clean'
<1>1. /\ QuietFor(w) /\ Res(w)' = Res(w) /\ UNCHANGED <<listeners, task, short>>
      /\ pc'[w] = "ack" /\ timeouts' > 0
  BY DEF PollTimeout, QuietFor, Rests, brokers, signals, kafka, local, FaultsGrow, Crashed,
         Orderly, TypeOK, Res
<1>2. Res(w) \notin short
  BY Busy DEF PollTimeout, WorkerInOrder
<1>3. LocalInOrder(w)'
  BY <1>1, <1>2 DEF LocalInOrder, WorkerInOrder, Fresh, Settled
<1>4. QED
  BY <1>1, <1>3, QuietStep DEF Orderly, Clean

\* A crash takes listeners away, and whatever was lowered stays lowered.
LEMMA CrashClean ==
    ASSUME Orderly, NEW w \in Workers, Crash(w)
    PROVE  Clean'
<1>1. callbacks' = {} /\ callbacks = {} /\ listeners' \subseteq listeners
  BY DEF Crash, Orderly, Clean
<1>2. \A q \in Results : Crashed(q) => Crashed(q)'
  BY BoundAssumption DEF Crash, Crashed, Orderly, TypeOK
<1>3. QuietFor(w)
  BY <1>1, <1>2 DEF Crash, Return, QuietFor, Rests, kafka, FaultsGrow, Orderly, TypeOK
<1>4. pc'[w] = "idle" /\ task'[w] = None /\ pos'[w] = Begin /\ key'[w] = 0
  BY DEF Crash, Return, Orderly, TypeOK
<1>5. LocalInOrder(w)'
  BY <1>4 DEF LocalInOrder
<1>6. QED
  BY <1>1, <1>3, <1>5, QuietStep DEF Orderly, Clean
\* Nobody listens to a result that was restarted.
LEMMA NobodyListens ==
    ASSUME Orderly, NEW r \in Results, Crashed(r)
    PROVE  /\ Cancelled(r) = {} /\ Fired(r) = {}
           /\ \A q \in Results : Input[q] # r
<1>1. \A q \in Results : Input[q] # r
  BY DEF Orderly, Undisturbed, Crashed
<1>2. \A l \in listeners : l.on = Input[l.out] /\ l.out \in Results
  BY DEF Orderly, Clean, TypeOK, Listener
<1>3. QED
  BY <1>1, <1>2 DEF Cancelled, Fired

\* Deleting the signal queue of a restarted result is noticed by nobody.
LEMMA SignalStays ==
    ASSUME Orderly, NEW w \in Workers, pc[w] # "idle", Crashed(Res(w)),
           signal' = signal \ {Res(w)}, NEW v \in Workers \ {w}, pc[v] = "consume",
           SignalOf(v) \in signal
    PROVE  SignalOf(v) \in signal'
<1>1. Res(w) \in Results /\ Res(v) \in Results /\ task[v] # None
  BY Busy
<1>2. Res(v) # Res(w)
  BY <1>1, Busy
<1>3. In(v) # Res(w)
  BY <1>1, NobodyListens DEF In
<1>4. QED
  BY <1>2, <1>3 DEF SignalOf

LEMMA RestartClean ==
    ASSUME Orderly, NEW w \in Workers, Restart(w)
    PROVE  Clean'
<1> DEFINE r == Res(w)
<1>1. /\ r \in Results /\ r \in zk /\ Crashed(r) /\ acked[r] = 0 /\ task[w] # None
      /\ TopicInOrder(r) /\ pos[w] = Begin /\ key[w] = 0
      /\ \A v \in Workers \ {w} : task[v] # None => Res(v) # r
  BY Busy DEF Restart, Started, LocalInOrder, Fresh
<1>2. callbacks' = {} /\ listeners' = listeners
  BY <1>1, NobodyListens DEF Restart, Orderly, Clean
<1>3. /\ short' = Lowered(r) /\ signal' = signal \ {r} /\ pc[w] = "restart"
      /\ UNCHANGED <<log, base, acked, zk, failTopic, crashes, timeouts, task, pos, key>>
      /\ \A v \in Workers \ {w} : Rests(v)
      /\ pc'[w] = "purging" /\ mark'[w] = Len(log[r]) /\ Res(w)' = r
  BY DEF Restart, brokers, faults, Rests, Orderly, TypeOK, Res
<1>4. Apart(w, r)
  <2>1. FaultsGrow /\ \A q \in Results \ {r} : SameTopic(q)
    BY <1>3 DEF FaultsGrow, Crashed, SameTopic, Lowered
  <2>2. \A v \in Workers \ {w} : pc[v] = "consume" /\ SignalOf(v) \in signal
                                   => SignalOf(v) \in signal'
    BY <1>1, <1>3, SignalStays
  <2>3. QED
    BY <1>1, <1>3, <2>1, <2>2, NobodyListens DEF Apart
<1>5. TopicInOrder(r)'
  <2>1. /\ Count(r)' = Count(r) /\ \A i : At(r, i)' = At(r, i)
        /\ EndsWith(r, "err")' <=> EndsWith(r, "err")
        /\ Crashed(r)' <=> Crashed(r)
    BY <1>3 DEF Count, At, EndsWith, Crashed
  <2>2. QED
    BY <1>1, <1>3, <2>1 DEF TopicInOrder, Lowered
<1>6. LocalInOrder(w)'
  <2>1. r \in short' \/ log'[r] = <<>>
    BY <1>1, <1>3 DEF Lowered, Orderly, TopicsExist
  <2>2. QED
    BY <1>1, <1>3, <2>1 DEF LocalInOrder, WorkerInOrder
<1>7. QED
  BY <1>2, <1>3, <1>4, <1>5, <1>6, CleanAgain DEF Orderly, Clean

\* A topic that has just been purged is empty.
LEMMA PurgedIsOpen ==
    ASSUME NEW r \in Results, TopicInOrder(r), Count(r)' = 0, log'[r] = log[r],
           base'[r] =< Len(log[r]), r \in zk, zk' = zk, Crashed(r), Crashed(r)',
           acked[r] = 0, acked' = acked
    PROVE  TopicInOrder(r)'
BY DEF TopicInOrder

LEMMA RestartedClean ==
    ASSUME Orderly, NEW w \in Workers, Restarted(w)
    PROVE  Clean'
<1> DEFINE r == Res(w)
<1>1. /\ r \in Results /\ r \in zk /\ Crashed(r) /\ acked[r] = 0 /\ task[w] # None
      /\ TopicInOrder(r) /\ pos[w] = Begin /\ key[w] = 0
      /\ r \in short \/ log[r] = <<>>
      /\ mark[w] = Len(log[r])
      /\ \A v \in Workers \ {w} : task[v] # None => Res(v) # r
  BY Busy DEF Restarted, Started, LocalInOrder, WorkerInOrder, Fresh
<1>2. callbacks' = {} /\ listeners' = listeners
  BY <1>1, NobodyListens DEF Restarted, Orderly, Clean
<1>3. /\ short' = short \ {r} /\ signal' = signal \ {r} /\ pc[w] = "purging"
      /\ UNCHANGED <<log, base, acked, zk, failTopic, crashes, timeouts, task, pos, key>>
      /\ \A v \in Workers \ {w} : Rests(v)
      /\ Kind[r] \in {"emitter", "errEmitter"} => pc'[w] = "loop"
      /\ Kind[r] \notin {"emitter", "errEmitter"} => pc'[w] = "declare"
      /\ Res(w)' = r /\ Purged(r, mark[w])
  BY DEF Restarted, StartService, brokers, faults, Rests, Orderly, TypeOK, Res
<1>4. Apart(w, r)
  <2>1. FaultsGrow /\ \A q \in Results \ {r} : SameTopic(q)
    BY <1>3 DEF FaultsGrow, Crashed, SameTopic
  <2>2. \A v \in Workers \ {w} : pc[v] = "consume" /\ SignalOf(v) \in signal
                                   => SignalOf(v) \in signal'
    BY <1>1, <1>3, SignalStays
  <2>3. QED
    BY <1>1, <1>3, <2>1, <2>2, NobodyListens DEF Apart
<1>5. Count(r) = 0 /\ Count(r)' = 0 /\ base[r] =< Len(log[r])
  <2>1. Len(log[r]) \in Nat /\ base[r] \in Nat
    BY <1>1 DEF Orderly, TypeOK
  <2>2. QED
    <3>1. CASE r \in short
      BY <1>1, <1>3, <2>1, <3>1 DEF Purged, TopicInOrder, Count
    <3>2. CASE log[r] = <<>>
      <4>1. Len(log[r]) = 0
        BY <3>2
      <4>2. QED
        BY <1>1, <1>3, <2>1, <4>1 DEF TopicInOrder, Count
    <3>3. QED
      BY <1>1, <3>1, <3>2
<1>6. TopicInOrder(r)'
  BY <1>1, <1>3, <1>5, PurgedIsOpen DEF Crashed
<1>7. LocalInOrder(w)'
  BY <1>1, <1>3, <1>5, CallAssumption
     DEF LocalInOrder, WorkerInOrder, Fresh, Open, Sources, Consumers
<1>8. QED
  BY <1>2, <1>3, <1>4, <1>6, <1>7, CleanAgain DEF Orderly, Clean

\* Retention empties a topic only after a crash, so nobody reads it.
LEMMA PurgeClean ==
    ASSUME Orderly, NEW r \in Results, Purge(r)
    PROVE  Clean'
<1>1. /\ TopicInOrder(r) /\ r \in short /\ Crashed(r) /\ r \in zk
      /\ acked[r] = 0 /\ \A q \in Results : Input[q] # r
  <2>1. TopicInOrder(r) /\ r \in short /\ Crashed(r) /\ r \in zk
    BY DEF Orderly, Clean, Purge, TopicInOrder
  <2>2. acked[r] = 0
    BY <2>1 DEF TopicInOrder, Orderly, TypeOK
  <2>3. QED
    BY <2>1, <2>2, NobodyListens
<1>2. /\ base' = [base EXCEPT ![r] = Len(log[r])]
      /\ UNCHANGED <<log, short, acked, zk, failTopic, crashes, timeouts, callbacks,
                     listeners, signal, pc, task, pos, key, held, mark>>
  BY DEF Purge, brokers, signals, local, faults
<1>3. base'[r] = Len(log[r]) /\ \A q \in Results \ {r} : base'[q] = base[q]
  BY <1>2 DEF Orderly, TypeOK
<1>4. TopicInOrder(r)'
  <2>1. Len(log[r]) \in Nat /\ Count(r)' = 0 /\ Crashed(r)'
    BY <1>1, <1>2, <1>3 DEF Orderly, TypeOK, Count, Crashed
  <2>2. QED
    BY <1>1, <1>2, <1>3, <2>1, PurgedIsOpen
<1>5. /\ FaultsGrow /\ zk \subseteq zk'
      /\ \A q \in Results \ {r} : SameTopic(q)
      /\ \A v \in Workers : Rests(v) /\ SignalOf(v)' = SignalOf(v)
  BY <1>2, <1>3 DEF FaultsGrow, Crashed, SameTopic, Rests, SignalOf, Does, Res, In
<1>6. PICK w : /\ w \in Workers => task[w] # None /\ Res(w) = r
               /\ \A v \in Workers \ {w} : task[v] # None => Res(v) # r
  <2>1. CASE \E w \in Workers : task[w] # None /\ Res(w) = r
    BY <2>1, OneWorker DEF Orderly
  <2>2. CASE ~\E w \in Workers : task[w] # None /\ Res(w) = r
    BY <2>2, NoSetContainsEverything
  <2>3. QED
    BY <2>1, <2>2
<1>7. Apart(w, r)
  BY <1>1, <1>2, <1>5, <1>6 DEF Apart
<1>8. ASSUME w \in Workers
      PROVE  LocalInOrder(w)'
  <2>1. /\ task[w] # None /\ Res(w) = r /\ Res(w)' = r /\ pc[w] # "idle"
        /\ LocalInOrder(w) /\ pc[w] \in {"exists", "restart", "purging"}
    BY <1>1, <1>2, <1>6, <1>8 DEF Orderly, Clean, LocalInOrder, WorkerInOrder, TypeOK, Res
  <2>2. QED
    BY <1>1, <1>2, <2>1 DEF LocalInOrder, WorkerInOrder
<1>9. QED
  BY <1>2, <1>4, <1>7, <1>8, CleanAgain DEF Orderly, Clean
-----------------------------------------------------------------------------
(* Steps that send. *)

\* An open result does not end with a token.
LEMMA OpenIsNotEnded ==
    ASSUME TypeOK, NEW r \in Results, Open(r), base[r] =< Len(log[r])
    PROVE  \A t \in {"eof", "err"} : ~EndsWith(r, t)
<1> SUFFICES ASSUME NEW t \in {"eof", "err"}, EndsWith(r, t)
             PROVE  FALSE
  OBVIOUS
<1>1. Len(log[r]) \in Nat /\ base[r] \in Nat /\ Len(log[r]) > base[r]
  BY DEF TypeOK, EndsWith
<1>2. Count(r) \in 1 .. Count(r) /\ At(r, Count(r)) = log[r][Len(log[r])]
  BY <1>1 DEF Count, At
<1>3. At(r, Count(r)).tok = "data"
  BY <1>2 DEF Open, Data
<1>4. QED
  BY <1>2, <1>3 DEF EndsWith

\* What a worker that is sending does to its result, and to nothing else.
LEMMA SendGrows ==
    ASSUME Orderly, NEW w \in Workers, pc[w] \in {"loop", "send", "eof", "err"},
           NEW r \in Results, r = Res(w), NEW x \in Record, Send(r, x),
           UNCHANGED <<base, short, acked, zk, failTopic, signal, crashes, timeouts>>,
           \A v \in Workers \ {w} : Rests(v)
    PROVE  /\ Apart(w, r)
           /\ r \in zk' /\ acked'[r] = 0 /\ r \notin short' /\ base'[r] =< Len(log'[r])
           /\ base'[r] = 0 \/ Crashed(r)'
           /\ Count(r)' = Count(r) + 1 /\ At(r, Count(r))' = x
           /\ \A i \in 1 .. Count(r) : At(r, i)' = Data(i - 1, i - 1)
           /\ Len(log'[r]) > base'[r] /\ log'[r][Len(log'[r])] = x
           /\ ~EndsWith(r, "err")
<1> DEFINE n == Count(r)
<1>1. /\ r \in zk /\ acked[r] = 0 /\ n \in Nat /\ Open(r)
      /\ TopicInOrder(r) /\ r \notin short
      /\ \A v \in Workers \ {w} : task[v] # None => Res(v) # r
  BY Busy DEF Started, WorkerInOrder
<1>2. /\ log[r] \in Seq(Record) /\ Len(log[r]) \in Nat /\ base[r] \in Nat
      /\ base[r] =< Len(log[r]) /\ base'[r] = base[r]
  BY <1>1 DEF Orderly, TypeOK, TopicInOrder
<1>3. log'[r] = Append(log[r], x) /\ \A q \in Results \ {r} : log'[q] = log[q]
  BY DEF Send, Orderly, TypeOK
<1>4. /\ Len(log'[r]) = Len(log[r]) + 1 /\ log'[r][Len(log[r]) + 1] = x
      /\ \A i \in 1 .. Len(log[r]) : log'[r][i] = log[r][i]
  BY <1>2, <1>3
<1>5. /\ Count(r)' = n + 1 /\ At(r, n)' = x
      /\ \A i \in 1 .. n : At(r, i)' = At(r, i)
  <2>1. /\ base[r] + n = Len(log[r]) /\ base[r] + (n + 1) = Len(log[r]) + 1
        /\ \A i \in 1 .. n : base[r] + i \in 1 .. Len(log[r])
    BY <1>2 DEF Count
  <2>2. Count(r)' = n + 1
    BY <1>2, <1>4 DEF Count
  <2>3. At(r, n)' = x
    BY <1>2, <1>4, <2>1, <2>2 DEF At
  <2>4. QED
    BY <1>2, <1>4, <2>1, <2>2, <2>3 DEF At
<1>6. ~EndsWith(r, "err")
  BY <1>1, <1>2, OpenIsNotEnded DEF Orderly
<1>7. Lengthens(r)
  BY <1>2, <1>4, <1>6 DEF Lengthens
<1>8. FaultsGrow /\ \A q \in Results \ {r} : SameTopic(q)
  BY <1>3 DEF FaultsGrow, Crashed, SameTopic
<1>9. Apart(w, r)
  <2>1. \A v \in Workers \ {w} : SignalOf(v) \in signal => SignalOf(v) \in signal'
    OBVIOUS
  <2>2. QED
    BY <1>1, <1>7, <1>8, <2>1 DEF Apart
<1>10. base'[r] = 0 \/ Crashed(r)'
  BY <1>1, <1>2 DEF TopicInOrder, Crashed
<1>11. QED
  BY <1>1, <1>2, <1>4, <1>5, <1>6, <1>9, <1>10 DEF Open

LEMMA SendDataClean ==
    ASSUME Orderly, NEW w \in Workers, SendData(w)
    PROVE  Clean'
<1>1. pc[w] \in {"loop", "send"}
  BY DEF SendData, Sending, Emitting
<1>2. PICK r \in Results : r = Res(w)
  BY <1>1, Busy
<1>3. /\ Count(r) \in Nat /\ Open(r) /\ key[w] = Count(r) /\ Kind[r] # "err"
      /\ TopicInOrder(r) /\ r \in zk
      /\ pc[w] = "send" => /\ held[w] = Count(r) /\ pos[w] = Count(r) + 1
                          /\ Kind[r] \in Consumers
  BY <1>1, <1>2, Busy DEF WorkerInOrder, Holds, Started, Consumers
<1>4. RecordOf(w) = Data(Count(r), Count(r))
  <2>1. ~SendingEof(w) /\ ~SendingErr(w)
    BY <1>1, BoundAssumption DEF SendData, Sending, Emitting, SendingEof, SendingErr, Drained,
                                 Orderly, TypeOK
  <2>2. (IF Emitting(w) THEN key[w] ELSE held[w]) = Count(r)
    BY <1>1, <1>3 DEF SendData, Sending
  <2>3. QED
    BY <1>3, <2>1, <2>2 DEF RecordOf
<1>5. PICK x \in Record : x = RecordOf(w)
  BY RecordType DEF Orderly
<1>6. /\ Send(r, x) /\ task' = task /\ pos' = pos /\ Res(w)' = r
      /\ UNCHANGED <<base, short, acked, zk, failTopic, signal, crashes, timeouts>>
      /\ UNCHANGED <<callbacks, listeners>>
      /\ \A v \in Workers \ {w} : Rests(v)
      /\ key'[w] = Count(r) + 1 /\ pc'[w] = "loop"
  BY <1>2, <1>3, <1>5 DEF SendData, brokers, signals, faults, Rests, Orderly, TypeOK, Res
<1>7. /\ Apart(w, r)
      /\ r \in zk' /\ acked'[r] = 0 /\ r \notin short' /\ base'[r] =< Len(log'[r])
      /\ base'[r] = 0 \/ Crashed(r)'
      /\ Count(r)' = Count(r) + 1 /\ At(r, Count(r))' = x
      /\ \A i \in 1 .. Count(r) : At(r, i)' = Data(i - 1, i - 1)
      /\ ~EndsWith(r, "err")
  BY <1>1, <1>2, <1>6, SendGrows
<1>8. Open(r)'
  BY <1>3, <1>4, <1>5, <1>7 DEF Open
<1>9. TopicInOrder(r)'
  <2>1. r \in failTopic' => Crashed(r)'
    BY <1>3, <1>6, <1>7 DEF TopicInOrder, Crashed
  <2>2. base'[r] \in Nat
    BY <1>6 DEF Orderly, TypeOK
  <2>3. QED
    BY <1>7, <1>8, <2>1, <2>2 DEF TopicInOrder, Open
<1>10. Kind[r] \in Consumers => pos'[w] = Count(r) + 1
  BY <1>1, <1>2, <1>3, <1>6 DEF SendData, Sending, Emitting, Does, Sources, Consumers
<1>11. LocalInOrder(w)'
  BY <1>3, <1>6, <1>7, <1>8, <1>10 DEF LocalInOrder, WorkerInOrder, Fresh
<1>12. QED
  BY <1>6, <1>7, <1>9, <1>11, CleanAgain DEF Orderly, Clean
LEMMA SendTokenClean ==
    ASSUME Orderly, NEW w \in Workers, SendToken(w)
    PROVE  Clean'
<1>1. pc[w] \in {"loop", "eof", "err"}
  BY DEF SendToken, SendingEof, SendingErr, Drained
<1>2. PICK r \in Results : r = Res(w)
  BY <1>1, Busy
<1>3. /\ Count(r) \in Nat /\ Open(r) /\ TopicInOrder(r) /\ r \in zk
      /\ pc[w] = "loop" => key[w] = Count(r)
      /\ pc[w] = "eof" => Kind[r] \in Consumers /\ Holds(w, Eof)
  BY <1>1, <1>2, Busy DEF WorkerInOrder, Holds, Started
<1>4. PICK x \in Record : x = RecordOf(w)
  BY RecordType DEF Orderly
<1>5. /\ SendingErr(w) => x = Err
      /\ ~SendingErr(w) => x = Eof /\ Count(r) = Items
  <2>1. ~(SendingEof(w) /\ SendingErr(w))
    BY DEF SendingEof, SendingErr, Drained, Does
  <2>2. CASE SendingErr(w)
    BY <1>4, <2>1, <2>2 DEF RecordOf
  <2>3. CASE SendingEof(w)
    <3>1. CASE pc[w] = "loop"
      BY <1>3, <1>4, <2>1, <2>3, <3>1 DEF RecordOf, SendingEof, Drained
    <3>2. CASE pc[w] = "eof"
      <4>1. Input[r] \in Results /\ In(w) = Input[r]
        BY <1>2, <1>3, <3>2, CallAssumption DEF In
      <4>2. Count(r) < Len(log[Input[r]]) /\ log[Input[r]][Count(r) + 1] = Eof
        BY <1>2, <1>3, <3>2, <4>1 DEF Holds
      <4>3. Count(r) = Items
        BY <1>3, <4>1, <4>2, NextRecord
      <4>4. QED
        BY <1>4, <2>1, <2>3, <4>3 DEF RecordOf
    <3>3. QED
      BY <2>3, <3>1, <3>2 DEF SendingEof, Drained
  <2>4. QED
    BY <2>1, <2>2, <2>3 DEF SendToken
<1>6. /\ Send(r, x) /\ task' = task /\ Res(w)' = r
      /\ UNCHANGED <<base, short, acked, zk, failTopic, signal, crashes, timeouts>>
      /\ callbacks' = {} /\ listeners' \subseteq listeners
      /\ \A v \in Workers \ {w} : Rests(v)
      /\ pc'[w] = IF SendingErr(w) THEN "fail" ELSE "ack"
  BY <1>2, <1>4 DEF SendToken, CloseChannel, brokers, local, faults, Rests, Orderly, Clean,
                    TypeOK, Res
<1>7. /\ Apart(w, r)
      /\ r \in zk' /\ acked'[r] = 0 /\ r \notin short' /\ base'[r] =< Len(log'[r])
      /\ base'[r] = 0 \/ Crashed(r)'
      /\ Count(r)' = Count(r) + 1 /\ At(r, Count(r))' = x
      /\ \A i \in 1 .. Count(r) : At(r, i)' = Data(i - 1, i - 1)
      /\ Len(log'[r]) > base'[r] /\ log'[r][Len(log'[r])] = x
      /\ ~EndsWith(r, "err")
  BY <1>1, <1>2, <1>6, SendGrows
<1>8. TopicInOrder(r)'
  <2>1. r \in failTopic' => Crashed(r)'
    BY <1>3, <1>6, <1>7 DEF TopicInOrder, Crashed
  <2>2. base'[r] \in Nat
    BY <1>6 DEF Orderly, TypeOK
  <2>3. \A i \in 1 .. Count(r)' :
           \/ At(r, i)' = Data(i - 1, i - 1)
           \/ i = Count(r)' /\ At(r, i)' = Err
           \/ i = Count(r)' /\ At(r, i)' = Eof /\ i = Items + 1
    BY <1>3, <1>5, <1>7
  <2>4. QED
    BY <1>7, <2>1, <2>2, <2>3 DEF TopicInOrder
<1>9. LocalInOrder(w)'
  <2>1. CASE SendingErr(w)
    <3>1. EndsWith(r, "err")'
      BY <1>5, <1>7, <2>1 DEF EndsWith, Err
    <3>2. QED
      BY <1>6, <1>7, <2>1, <3>1 DEF LocalInOrder, WorkerInOrder, Fresh
  <2>2. CASE ~SendingErr(w)
    <3>1. Len(log'[r]) \in base'[r] + 1 .. Len(log'[r])
      BY <1>6, <1>7, SendType DEF Orderly, TypeOK
    <3>2. Closed(r)'
      BY <1>5, <1>7, <2>2, <3>1 DEF Closed, Eof
    <3>3. QED
      BY <1>6, <1>7, <2>2, <3>2 DEF LocalInOrder, WorkerInOrder, Fresh, Settled
  <2>3. QED
    BY <2>1, <2>2
<1>10. QED
  BY <1>6, <1>7, <1>8, <1>9, CleanAgain DEF Orderly, Clean

\* A step that appends nothing and leaves the signal queues alone.
LEMMA StillIsApart ==
    ASSUME Orderly, NEW w \in Workers, NEW r \in Results, r = Res(w), pc[w] # "idle",
           UNCHANGED <<log, base, short, zk, signal, crashes, timeouts>>,
           \A q \in Results \ {r} : acked'[q] = acked[q] /\ (q \in failTopic' => q \in failTopic),
           \A v \in Workers \ {w} : Rests(v)
    PROVE  Apart(w, r)
<1>1. \A v \in Workers \ {w} : task[v] # None => Res(v) # r
  BY Busy
<1>2. FaultsGrow /\ (\A q \in Results \ {r} : SameTopic(q)) /\ Lengthens(r)
  BY DEF FaultsGrow, Crashed, SameTopic, Lengthens, Orderly, TypeOK
<1>3. QED
  BY <1>1, <1>2 DEF Apart

LEMMA SendFailClean ==
    ASSUME Orderly, NEW w \in Workers, SendFail(w)
    PROVE  Clean'
<1>1. pc[w] = "fail"
  BY DEF SendFail
<1>2. PICK r \in Results : r = Res(w)
  BY <1>1, Busy
<1>3. EndsWith(r, "err") /\ TopicInOrder(r) /\ acked[r] = 0 /\ r \notin short
  BY <1>1, <1>2, Busy DEF WorkerInOrder
<1>4. /\ UNCHANGED <<log, base, short, acked, zk, signal, crashes, timeouts>>
      /\ UNCHANGED <<callbacks, listeners, task>> /\ Res(w)' = r
      /\ \A q \in Results \ {r} : q \in failTopic' => q \in failTopic
      /\ \A v \in Workers \ {w} : Rests(v)
      /\ pc'[w] = "ack"
  BY <1>2, CallAssumption DEF SendFail, brokers, signals, local, faults, Rests, Orderly,
                              TypeOK, Res
<1>5. Apart(w, r)
  BY <1>1, <1>2, <1>4, StillIsApart
<1>6. EndsWith(r, "err")' /\ Closed(r)
  <2>1. Len(log[r]) \in Nat /\ base[r] \in Nat
    BY DEF Orderly, TypeOK
  <2>2. Len(log[r]) \in base[r] + 1 .. Len(log[r])
    BY <1>3, <2>1 DEF EndsWith
  <2>3. QED
    BY <1>3, <1>4, <2>2 DEF EndsWith, Closed
<1>7. TopicInOrder(r)'
  BY <1>3, <1>4, <1>6 DEF TopicInOrder, Count, At, Crashed
<1>8. LocalInOrder(w)'
  BY <1>3, <1>4, <1>6 DEF LocalInOrder, WorkerInOrder, Fresh, Settled, Closed
<1>9. QED
  BY <1>4, <1>5, <1>7, <1>8, CleanAgain DEF Orderly, Clean

LEMMA AckClean ==
    ASSUME Orderly, NEW w \in Workers, Ack(w)
    PROVE  Clean'
<1>1. pc[w] = "ack"
  BY DEF Ack
<1>2. PICK r \in Results : r = Res(w)
  BY <1>1, Busy
<1>3. Settled(r) /\ TopicInOrder(r) /\ acked[r] = 0 /\ r \notin short
  BY <1>1, <1>2, Busy DEF WorkerInOrder
<1>4. /\ UNCHANGED <<log, base, short, zk, signal, crashes, timeouts, failTopic>>
      /\ UNCHANGED <<callbacks, listeners>>
      /\ \A q \in Results \ {r} : acked'[q] = acked[q]
      /\ \A v \in Workers \ {w} : Rests(v)
      /\ pc'[w] = "idle" /\ task'[w] = None /\ pos'[w] = Begin /\ key'[w] = 0
  BY <1>2 DEF Ack, Return, kafka, signals, faults, Rests, Orderly, TypeOK
<1>5. Apart(w, r)
  BY <1>1, <1>2, <1>4, StillIsApart
<1>6. TopicInOrder(r)'
  BY <1>3, <1>4 DEF TopicInOrder, Count, At, Crashed, Settled, Closed, EndsWith
<1>7. LocalInOrder(w)'
  BY <1>4 DEF LocalInOrder
<1>8. QED
  BY <1>4, <1>5, <1>6, <1>7, CleanAgain DEF Orderly, Clean

-----------------------------------------------------------------------------
(* The invariant. *)

\* A step that the topics and the workers' locals do not notice.
LEMMA StutterClean ==
    ASSUME Orderly,
           UNCHANGED <<log, base, short, acked, zk, failTopic, signal, crashes, timeouts>>,
           UNCHANGED <<callbacks, listeners, pc, task, pos, key, held, mark>>
    PROVE  Clean'
<1>1. PICK w : w \notin Workers
  BY NoSetContainsEverything
<1>2. QuietFor(w)
  BY DEF QuietFor, Rests, FaultsGrow, Crashed
<1>3. QED
  BY <1>1, <1>2, QuietStep DEF Orderly, Clean

LEMMA CleanStep == Orderly /\ [Next]_vars /\ Undisturbed' => Clean'
<1> SUFFICES ASSUME Orderly, [Next]_vars, Undisturbed' PROVE Clean'
  OBVIOUS
<1>1. ASSUME NEW r \in Results, NEW anon \in BOOLEAN, Publish(r, anon)
      PROVE  Clean'
  BY <1>1, StutterClean DEF Publish, Enqueue, signals, kafka, local, faults
<1>2. ASSUME NEW w \in Workers, Work(w)
      PROVE  Clean'
  <2>1. CASE WakeUp(w)
    BY <2>1, StutterClean DEF WakeUp, brokers, signals, kafka, faults
  <2>2. QED
    BY <1>2, <2>1, DeliverClean, ExistsClean, CreateClean, RestartClean, RestartedClean,
       DeclareClean, ConsumeClean, PollClean, SendDataClean, SendTokenClean,
       SendFailClean, AckClean DEF Work
<1>3. ASSUME NEW w \in Workers, Fault(w)
      PROVE  Clean'
  <2>1. ~SendFails(w) /\ ~ReportFails(w)
    BY DEF SendFails, ReportFails, Undisturbed, Orderly, TypeOK
  <2>2. QED
    BY <1>3, <2>1, PollTimeoutClean, CrashClean DEF Fault
<1>4. ~Cancel
  BY DEF Cancel, Orderly, Clean
<1>5. ASSUME NEW r \in Results, Purge(r)
      PROVE  Clean'
  BY <1>5, PurgeClean
<1>6. UNCHANGED vars => Clean'
  BY StutterClean DEF vars, brokers, signals, kafka, local, faults
<1>7. QED
  BY <1>1, <1>2, <1>3, <1>4, <1>5, <1>6 DEF Next

LEMMA CleanInit == Init => Clean
<1> SUFFICES ASSUME Init PROVE Clean
  OBVIOUS
<1>1. ASSUME NEW r \in Results
      PROVE  TopicInOrder(r)
  BY <1>1, CallAssumption DEF Init, TopicInOrder, Count, At
<1>2. QED
  BY <1>1 DEF Init, Clean, LocalInOrder

\* As long as nothing disturbs the system, every topic holds the record of one
\* execution and every worker continues it.
THEOREM TopicsInOrder == Spec => []OneExecution
<1>1. Init => OneExecution
  BY CleanInit DEF OneExecution
<1>2. TypeOK /\ OnePlace /\ StartsOnce /\ TopicsExist /\ OneExecution /\ [Next]_vars
        => OneExecution'
  BY UndisturbedBefore, CleanStep DEF OneExecution, Orderly
<1>3. QED
  BY <1>1, <1>2, TypeCorrect, MessagesAreUnique, NodesTellCrashes, RecordsHaveTopics, PTL
     DEF Spec
-----------------------------------------------------------------------------
(* What follows for those who read the results. *)

\* The records behind the first b ones of a topic.
LEMMA Rest ==
    ASSUME NEW s \in Seq(Record), NEW b \in Nat, b =< Len(s)
    PROVE  /\ SubSeq(s, b + 1, Len(s)) \in Seq(Record)
           /\ Len(SubSeq(s, b + 1, Len(s))) = Len(s) - b
           /\ \A i \in 1 .. Len(s) - b : SubSeq(s, b + 1, Len(s))[i] = s[b + i]
<1>1. Len(s) \in Nat /\ Len(s) - b \in Nat
  OBVIOUS
<1>2. \A i \in b + 1 .. Len(s) : s[i] \in Record
  OBVIOUS
<1>3. QED
  BY <1>1, <1>2

LEMMA VisibleIs ==
    ASSUME Orderly, NEW r \in Results
    PROVE  /\ Visible(r) \in Seq(Record) /\ Len(Visible(r)) = Count(r) /\ Count(r) \in Nat
           /\ \A i \in 1 .. Count(r) : Visible(r)[i] = At(r, i)
<1>1. log[r] \in Seq(Record) /\ base[r] \in Nat /\ base[r] =< Len(log[r])
  BY DEF Orderly, TypeOK, Clean, TopicInOrder
<1>2. /\ SubSeq(log[r], base[r] + 1, Len(log[r])) \in Seq(Record)
      /\ Len(SubSeq(log[r], base[r] + 1, Len(log[r]))) = Len(log[r]) - base[r]
      /\ \A i \in 1 .. Len(log[r]) - base[r] :
           SubSeq(log[r], base[r] + 1, Len(log[r]))[i] = log[r][base[r] + i]
  BY <1>1, Rest
<1>3. Len(log[r]) - base[r] \in Nat
  BY <1>1
<1>4. QED
  BY <1>2, <1>3 DEF Visible, Count, At

\* The invariants, put together.
LEMMA OrderlyHolds == Spec => [](Undisturbed => Orderly)
<1>1. TypeOK /\ OnePlace /\ StartsOnce /\ TopicsExist /\ OneExecution
        => (Undisturbed => Orderly)
  BY DEF OneExecution, Orderly
<1>2. QED
  BY <1>1, TypeCorrect, MessagesAreUnique, NodesTellCrashes, RecordsHaveTopics,
     TopicsInOrder, PTL

\* Whoever reads a result sees item 0, 1, 2, ... and nothing behind a token,
\* even after crashes, as long as no call is published twice, no send throws
\* and the calls that crashed are read by nobody else.
THEOREM ReadersSeeOneExecution == Spec => [](Undisturbed => LooksExecutedOnce)
<1>1. Orderly => LooksExecutedOnce
  <2> SUFFICES ASSUME Orderly, NEW r \in Results, NEW i \in 1 .. Len(Visible(r))
               PROVE  \/ Visible(r)[i] = Data(i - 1, i - 1)
                      \/ i = Len(Visible(r)) /\ Visible(r)[i] \in {Eof, Err}
    BY DEF LooksExecutedOnce
  <2>1. i \in 1 .. Count(r) /\ Visible(r)[i] = At(r, i) /\ Len(Visible(r)) = Count(r)
    BY VisibleIs
  <2>2. QED
    BY <2>1 DEF Orderly, Clean, TopicInOrder
<1>2. QED
  BY <1>1, OrderlyHolds, PTL

\* An eof is never early: behind all Items items of the source, however many
\* readers they have gone through.
THEOREM EofIsNotEarly == Spec => [](Undisturbed => EofMeansAll)
<1>1. Orderly => EofMeansAll
  <2> SUFFICES ASSUME Orderly, NEW r \in Results, EndsWith(r, "eof")
               PROVE  Cardinality(DataAt(r)) = Items
    BY DEF EofMeansAll
  <2>1. /\ base[r] \in Nat /\ Len(log[r]) \in Nat /\ Items \in Nat
        /\ Len(log[r]) > base[r] /\ log[r][Len(log[r])].tok = "eof"
    BY BoundAssumption DEF Orderly, TypeOK, EndsWith
  <2>2. ASSUME NEW i \in 1 .. Count(r)
        PROVE  \/ At(r, i) = Data(i - 1, i - 1)
               \/ i = Count(r) /\ At(r, i) = Err
               \/ i = Count(r) /\ At(r, i) = Eof /\ i = Items + 1
    BY DEF Orderly, Clean, TopicInOrder
  <2>3. Count(r) = Items + 1
    <3>1. Count(r) \in 1 .. Count(r) /\ At(r, Count(r)) = log[r][Len(log[r])]
      BY <2>1 DEF Count, At
    <3>2. QED
      BY <2>1, <2>2, <3>1 DEF Data, Err
  <2>4. Len(log[r]) = base[r] + Items + 1
    BY <2>1, <2>3 DEF Count
  <2>5. ASSUME NEW i \in base[r] + 1 .. base[r] + Items
        PROVE  log[r][i].tok = "data"
    <3>1. i - base[r] \in 1 .. Count(r) /\ i - base[r] # Count(r) /\ base[r] + (i - base[r]) = i
      BY <2>1, <2>3
    <3>2. At(r, i - base[r]) = Data((i - base[r]) - 1, (i - base[r]) - 1)
      BY <2>2, <3>1
    <3>3. QED
      BY <3>1, <3>2 DEF At, Data
  <2>6. DataAt(r) = base[r] + 1 .. base[r] + Items
    BY <2>1, <2>4, <2>5 DEF DataAt
  <2>7. Cardinality(base[r] + 1 .. base[r] + Items) = Items
    <3>1. base[r] + 1 \in Int /\ base[r] + Items \in Int
      BY <2>1
    <3>2. Cardinality(base[r] + 1 .. base[r] + Items) =
              IF base[r] + 1 > base[r] + Items THEN 0
              ELSE (base[r] + Items) - (base[r] + 1) + 1
      BY <3>1, FS_Interval
    <3>3. QED
      BY <2>1, <3>2
  <2>8. QED
    BY <2>6, <2>7
<1>2. QED
  BY <1>1, OrderlyHolds, PTL

\* A result whose task was acknowledged carries a token, or is the square of one
\* that ends with err, as long as nothing disturbs the system and no poll times out.
THEOREM AcknowledgedIsClosed == Spec => [](Undisturbed /\ timeouts = 0 => AckedIsClosed)
<1>1. Orderly => (timeouts = 0 => AckedIsClosed)
  BY DEF Orderly, Clean, TopicInOrder, Settled, AckedIsClosed
<1>2. QED
  BY <1>1, OrderlyHolds, PTL

\* A name on the fail topic is a result that ends with err, as long as nothing
\* disturbs the system and no worker crashes.
THEOREM FailuresHaveErr == Spec => [](Undisturbed /\ crashes = 0 => FailedHasErr)
<1>1. Orderly => (Undisturbed /\ crashes = 0 => FailedHasErr)
  <2>1. ASSUME Orderly, crashes = 0, NEW r \in failTopic \ {None}
        PROVE  EndsWith(r, "err")
    <3>1. r \in Results /\ TopicInOrder(r)
      BY <2>1 DEF Orderly, Clean, TypeOK
    <3>2. QED
      BY <2>1, <3>1 DEF TopicInOrder, Crashed
  <2>2. QED
    BY <2>1 DEF FailedHasErr
<1>2. QED
  BY <1>1, OrderlyHolds, PTL
\* The bounds within which nothing ever disturbs the system: those of a run in
\* which only calls that nobody reads may crash.
GentleBounds ==
    /\ Copies =< 1 /\ MaxSendFailures = 0
    /\ \A r \in Crashable, q \in Results : Input[q] # r

LEMMA NoSendFails ==
    ASSUME MaxSendFailures = 0
    PROVE  Spec => [](sendFailures = 0)
<1> DEFINE NoneYet == sendFailures = 0
<1>1. Init => NoneYet
  BY DEF Init
<1>2. NoneYet /\ [Next]_vars => NoneYet'
  <2> SUFFICES ASSUME NoneYet, [Next]_vars PROVE sendFailures' = sendFailures
    OBVIOUS
  <2> USE DEF faults
  <2>1. ASSUME NEW w \in Workers, Work(w)
        PROVE  sendFailures' = sendFailures
    BY <2>1 DEF Work, Deliver, Exists, Create, Restart, Restarted, Declare, Consume,
                Poll, WakeUp, SendData, SendToken, SendFail, Ack
  <2>2. ASSUME NEW w \in Workers, Fault(w)
        PROVE  sendFailures' = sendFailures
    BY <2>2 DEF Fault, PollTimeout, SendFails, ReportFails, Crash
  <2>3. Cancel => sendFailures' = sendFailures
    BY DEF Cancel, CancelBegins, CancelEnds
  <2>4. QED
    BY <2>1, <2>2, <2>3 DEF Next, Publish, Enqueue, Purge, vars
<1> HIDE DEF NoneYet
<1>3. Spec => []NoneYet
  BY <1>1, <1>2, PTL DEF Spec
<1>4. QED
  BY <1>3 DEF NoneYet

LEMMA NoCrashes ==
    ASSUME MaxCrashes = 0
    PROVE  Spec => [](crashes = 0)
<1> DEFINE NoneYet == crashes = 0
<1>1. Init => NoneYet
  BY DEF Init
<1>2. TypeOK /\ NoneYet /\ [Next]_vars => NoneYet'
  <2> SUFFICES ASSUME TypeOK, NoneYet, [Next]_vars PROVE NoneYet'
    OBVIOUS
  <2>1. ASSUME NEW q \in Results, NEW anon \in BOOLEAN, Publish(q, anon)
        PROVE  crashes' = crashes
    BY <2>1 DEF Publish, Enqueue, faults
  <2>2. ASSUME NEW w \in Workers, Deliver(w) \/ Create(w) \/ Ack(w) \/ Crash(w)
        PROVE  crashes' = crashes
    BY <2>2 DEF Deliver, Create, Ack, Crash, faults
  <2>3. QED
    BY <2>1, <2>2, StartSteps
<1> HIDE DEF NoneYet
<1>3. Spec => []NoneYet
  BY <1>1, <1>2, TypeCorrect, PTL DEF Spec
<1>4. QED
  BY <1>3 DEF NoneYet

LEMMA StaysUndisturbed ==
    ASSUME GentleBounds
    PROVE  Spec => []Undisturbed
<1>1. /\ \A r \in Results : published[r] =< Copies
      /\ TypeOK /\ sendFailures = 0
      => Undisturbed
  BY BoundAssumption DEF Undisturbed, GentleBounds, TypeOK
<1>2. Spec => [](sendFailures = 0)
  BY NoSendFails DEF GentleBounds
<1>3. QED
  BY <1>1, <1>2, CopiesBounded, TypeCorrect, PTL

\* Within these bounds results always look executed once and eof is never early.
COROLLARY GentleRunsLookExecutedOnce ==
    ASSUME GentleBounds
    PROVE  Spec => [](LooksExecutedOnce /\ EofMeansAll)
<1>1. QED
  BY StaysUndisturbed, ReadersSeeOneExecution, EofIsNotEarly, PTL

-----------------------------------------------------------------------------
(* The refinement of ResultStreams. *)

\* What is sent next: the next item of a source, its token behind all items, or
\* the next record of the input.
LEMMA WhatIsSent ==
    ASSUME Orderly, NEW w \in Workers, SendData(w) \/ SendToken(w),
           NEW r \in Results, r = Res(w), NEW x \in Record, x = RecordOf(w)
    PROVE  LET n == Count(r) IN
           \/ Kind[r] \in {"emitter", "errEmitter"} /\ n < Items /\ x = Data(n, n)
           \/ Kind[r] = "emitter" /\ n = Items /\ x = Eof
           \/ Kind[r] = "errEmitter" /\ n = Items /\ x = Err
           \/ Kind[r] = "err" /\ x = Err
           \/ /\ Kind[r] \in Consumers /\ Input[r] \in Results
              /\ n < Len(log[Input[r]]) /\ x = log[Input[r]][n + 1]
<1> DEFINE n == Count(r)
<1>1. pc[w] \in {"loop", "send", "eof", "err"}
  BY DEF SendData, Sending, Emitting, SendToken, SendingEof, SendingErr, Drained
<1>2. WorkerInOrder(w) /\ n \in Nat /\ key[w] \in Nat
  BY <1>1, Busy DEF Orderly, TypeOK
<1>3. CASE pc[w] = "loop"
  <2>1. key[w] = n /\ Kind[r] # "err"
    BY <1>2, <1>3 DEF WorkerInOrder
  <2>2. CASE Emitting(w)
    <3>1. Kind[r] \in {"emitter", "errEmitter"} /\ n < Items
      BY <2>1, <2>2 DEF Emitting, Does, Sources
    <3>2. ~SendingEof(w) /\ ~SendingErr(w)
      BY <1>2, <1>3, <2>1, <3>1, BoundAssumption DEF SendingEof, SendingErr, Drained
    <3>3. QED
      BY <2>1, <2>2, <3>1, <3>2 DEF RecordOf
  <2>3. CASE ~Emitting(w)
    <3>1. Drained(w, "emitter") \/ Drained(w, "errEmitter")
      BY <1>3, <2>3 DEF SendData, Sending, SendToken, SendingEof, SendingErr
    <3>2. QED
      BY <1>3, <2>1, <3>1 DEF Drained, Does, RecordOf, SendingEof, SendingErr
  <2>4. QED
    BY <2>2, <2>3
<1>4. ASSUME NEW rec, Holds(w, rec)
      PROVE  /\ Kind[r] \in Consumers /\ Input[r] \in Results
             /\ n < Len(log[Input[r]]) /\ rec = log[Input[r]][n + 1]
  BY <1>4, CallAssumption DEF Holds, In
<1>5. CASE pc[w] = "send"
  <2>1. key[w] = n /\ held[w] = n /\ Holds(w, Data(n, n))
    BY <1>2, <1>5 DEF WorkerInOrder
  <2>2. x = Data(n, n)
    BY <1>5, <2>1 DEF RecordOf, SendingEof, SendingErr, Drained, Emitting
  <2>3. QED
    BY <1>4, <2>1, <2>2
<1>6. CASE pc[w] = "eof"
  <2>1. Holds(w, Eof) /\ x = Eof
    BY <1>2, <1>6 DEF WorkerInOrder, RecordOf, SendingEof
  <2>2. QED
    BY <1>4, <2>1
<1>7. CASE pc[w] = "err"
  <2>1. x = Err /\ (Kind[r] = "err" \/ Holds(w, Err))
    BY <1>2, <1>7 DEF WorkerInOrder, RecordOf, SendingEof, SendingErr, Drained
  <2>2. QED
    BY <1>4, <2>1
<1>8. QED
  BY <1>1, <1>3, <1>5, <1>6, <1>7

\* What readers see of a result they see of it after any step but a send and a
\* purge.
LEMMA StreamSteps ==
    ASSUME [Next]_vars
    PROVE  \/ \E w \in Workers : SendData(w) \/ SendToken(w) \/ SendFails(w)
           \/ \E r \in Results : Purge(r)
           \/ UNCHANGED <<log, base>>
<1> USE DEF kafka
<1>1. ASSUME NEW w \in Workers, Work(w)
      PROVE  SendData(w) \/ SendToken(w) \/ UNCHANGED <<log, base>>
  BY <1>1 DEF Work, Deliver, Exists, Create, Restart, Restarted, Declare, Consume, Poll,
              WakeUp, SendFail, Ack
<1>2. ASSUME NEW w \in Workers, Fault(w)
      PROVE  SendFails(w) \/ UNCHANGED <<log, base>>
  BY <1>2 DEF Fault, PollTimeout, ReportFails, Crash
<1>3. Cancel => UNCHANGED <<log, base>>
  BY DEF Cancel, CancelBegins, CancelEnds
<1>4. QED
  BY <1>1, <1>2, <1>3 DEF Next, Publish, Enqueue, vars

\* The state of ResultStreams that a state of the topics stands for.
Seen == [r \in Results |-> Visible(r)]

LEMMA SeenIs ==
    ASSUME Orderly, NEW r \in Results
    PROVE  /\ Len(Seen[r]) = Count(r) /\ Count(r) \in Nat /\ Seen[r] \in Seq(Record)
           /\ \A i \in 1 .. Count(r) : Seen[r][i] = At(r, i)
BY VisibleIs DEF Seen

LEMMA RestGrows ==
    ASSUME NEW s \in Seq(Record), NEW b \in Nat, b =< Len(s), NEW x \in Record
    PROVE  SubSeq(Append(s, x), b + 1, Len(s) + 1) =
               Append(SubSeq(s, b + 1, Len(s)), x)
<1> DEFINE t == Append(s, x)
           u == SubSeq(t, b + 1, Len(s) + 1)
           v == SubSeq(s, b + 1, Len(s))
<1>1. /\ Len(s) \in Nat /\ Len(s) - b \in Nat
      /\ t \in Seq(Record) /\ Len(t) = Len(s) + 1
      /\ \A i \in 1 .. Len(s) : t[i] = s[i]
      /\ t[Len(s) + 1] = x
  OBVIOUS
<1>2. /\ v \in Seq(Record) /\ Len(v) = Len(s) - b
      /\ \A i \in 1 .. Len(s) - b : v[i] = s[b + i]
  BY Rest
<1>3. /\ u \in Seq(Record) /\ Len(u) = (Len(s) + 1) - b
      /\ \A i \in 1 .. (Len(s) + 1) - b : u[i] = t[b + i]
  <2>1. b =< Len(t)
    BY <1>1
  <2>2. QED
    BY <1>1, <2>1, Rest
<1> HIDE DEF t, u, v
<1>4. /\ Append(v, x) \in Seq(Record) /\ Len(Append(v, x)) = (Len(s) - b) + 1
      /\ \A i \in 1 .. Len(s) - b : Append(v, x)[i] = v[i]
      /\ Append(v, x)[(Len(s) - b) + 1] = x
  BY <1>1, <1>2
<1>5. ASSUME NEW i \in 1 .. Len(u)
      PROVE  u[i] = Append(v, x)[i]
  <2>1. CASE i \in 1 .. Len(s) - b
    <3>1. b + i \in 1 .. Len(s) /\ i \in 1 .. (Len(s) + 1) - b
      BY <1>1, <2>1
    <3>2. QED
      BY <1>1, <1>2, <1>3, <1>4, <2>1, <3>1
  <2>2. CASE i = (Len(s) - b) + 1
    <3>1. b + i = Len(s) + 1 /\ i \in 1 .. (Len(s) + 1) - b
      BY <1>1, <2>2
    <3>2. QED
      BY <1>1, <1>3, <1>4, <2>2, <3>1
  <2>3. i \in 1 .. (Len(s) - b) + 1
    BY <1>1, <1>3
  <2>4. i \in 1 .. Len(s) - b \/ i = (Len(s) - b) + 1
    BY <1>1, <2>3
  <2>5. QED
    BY <2>1, <2>2, <2>4
<1>6. u = Append(v, x)
  <2>1. Len(u) = Len(Append(v, x))
    BY <1>1, <1>3, <1>4
  <2>2. QED
    BY <1>3, <1>4, <1>5, <2>1, SeqEqual
<1>7. QED
  BY <1>6 DEF t, u, v

\* A send appends to one of the streams.
LEMMA SeenGrows ==
    ASSUME Orderly, NEW r \in Results, NEW x \in Record, base' = base, Send(r, x)
    PROVE  Seen' = [Seen EXCEPT ![r] = Append(@, x)]
<1>1. /\ log[r] \in Seq(Record) /\ base[r] \in Nat /\ base[r] =< Len(log[r])
      /\ log'[r] = Append(log[r], x) /\ \A q \in Results \ {r} : log'[q] = log[q]
  BY DEF Orderly, TypeOK, Clean, TopicInOrder, Send
<1>2. SubSeq(Append(log[r], x), base[r] + 1, Len(log[r]) + 1) =
          Append(SubSeq(log[r], base[r] + 1, Len(log[r])), x)
  BY <1>1, RestGrows
<1>3. Visible(r)' = Append(Visible(r), x)
  <2>1. Len(log'[r]) = Len(log[r]) + 1 /\ base'[r] = base[r]
    BY <1>1
  <2>2. Visible(r)' = SubSeq(Append(log[r], x), base[r] + 1, Len(log[r]) + 1)
    BY <1>1, <2>1 DEF Visible
  <2>3. QED
    BY <1>2, <2>2 DEF Visible
<1>4. \A q \in Results \ {r} : Visible(q)' = Visible(q)
  BY <1>1 DEF Visible
<1>5. QED
  BY <1>3, <1>4 DEF Seen
\* A result that is not all items yet has not ended.
LEMMA OpenGoesOn ==
    ASSUME Orderly, NEW r \in Results, Open(r)
    PROVE  \A i \in 1 .. Len(Seen[r]) : Seen[r][i].tok = "data"
BY SeenIs DEF Open, Data

\* Every send produces the next record of a source, or passes on the record that
\* stands at the same place in the input.
LEMMA SendStreams ==
    ASSUME Orderly, NEW w \in Workers, SendData(w) \/ SendToken(w)
    PROVE  \E r \in Results : Streams!Source(r) \/ Streams!Relay(r)
<1>1. pc[w] \in {"loop", "send", "eof", "err"}
  BY DEF SendData, Sending, Emitting, SendToken, SendingEof, SendingErr, Drained
<1>2. PICK r \in Results : r = Res(w)
  BY <1>1, Busy
<1>3. PICK x \in Record : x = RecordOf(w)
  BY RecordType DEF Orderly
<1>4. Send(r, x) /\ base' = base
  BY <1>2, <1>3 DEF SendData, SendToken
<1>5. Seen' = [Seen EXCEPT ![r] = Append(@, x)]
  BY <1>4, SeenGrows
<1>6. Open(r)
  BY <1>1, <1>2, Busy DEF WorkerInOrder
<1>7. Len(Seen[r]) = Count(r) /\ ~ Streams!Ended(r)
  BY <1>6, SeenIs, OpenGoesOn DEF Streams!Ended, Seen
<1>8. \/ Kind[r] \in {"emitter", "errEmitter"} /\ Count(r) < Items /\ x = Data(Count(r), Count(r))
      \/ Kind[r] = "emitter" /\ Count(r) = Items /\ x = Eof
      \/ Kind[r] = "errEmitter" /\ Count(r) = Items /\ x = Err
      \/ Kind[r] = "err" /\ x = Err
      \/ /\ Kind[r] \in Consumers /\ Input[r] \in Results
         /\ Count(r) < Len(log[Input[r]]) /\ x = log[Input[r]][Count(r) + 1]
  BY <1>2, <1>3, WhatIsSent
<1>9. ASSUME Kind[r] \in Consumers, Input[r] \in Results,
             Count(r) < Len(log[Input[r]]), x = log[Input[r]][Count(r) + 1]
      PROVE  Streams!Relay(r)
  <2> DEFINE q == Input[r]
  <2>1. base[q] = 0 /\ Count(q) = Len(log[q]) /\ Count(r) \in Nat
    BY <1>9, ReadIsKept, SeenIs DEF Orderly
  <2>2. /\ Len(Seen[q]) = Count(q) /\ Count(q) \in Nat
        /\ \A i \in 1 .. Count(q) : Seen[q][i] = At(q, i)
    BY <1>9, SeenIs
  <2>3. Count(r) < Len(Seen[q]) /\ Seen[q][Count(r) + 1] = x
    BY <1>9, <2>1, <2>2 DEF At
  <2>4. QED
    BY <1>5, <1>7, <1>9, <2>3 DEF Streams!Relay, Consumers, Seen
<1>10. ASSUME Kind[r] \in {"emitter", "errEmitter"}, Count(r) < Items,
              x = Data(Count(r), Count(r))
       PROVE  Streams!Source(r)
  BY <1>5, <1>7, <1>10 DEF Streams!Source, Streams!Item, Data, Seen
<1>11. ASSUME \/ Kind[r] = "emitter" /\ Count(r) = Items /\ x = Eof
              \/ Kind[r] = "errEmitter" /\ Count(r) = Items /\ x = Err
              \/ Kind[r] = "err" /\ x = Err
       PROVE  Streams!Source(r)
  BY <1>5, <1>7, <1>11 DEF Streams!Source, Streams!Token, Eof, Err, Seen
<1>12. QED
  BY <1>8, <1>9, <1>10, <1>11

\* Retention takes a stream away only as a whole, and only after its call's worker
\* may have crashed.
LEMMA PurgeStreams ==
    ASSUME Orderly, NEW r \in Results, Purge(r)
    PROVE  Streams!Reset(r)
<1>1. Crashed(r) /\ r \in Crashable /\ MaxCrashes # 0
  BY DEF Orderly, Clean, Purge, TopicInOrder, Crashed
<1>2. log' = log /\ base' = [base EXCEPT ![r] = Len(log[r])]
  BY DEF Purge
<1>3. log[r] \in Seq(Record) /\ Len(log[r]) \in Nat /\ base'[r] = Len(log[r])
  BY <1>2 DEF Orderly, TypeOK
<1>4. Visible(r)' = <<>>
  <2>1. Visible(r)' = SubSeq(log[r], Len(log[r]) + 1, Len(log[r]))
    BY <1>2, <1>3 DEF Visible
  <2>2. SubSeq(log[r], Len(log[r]) + 1, Len(log[r])) = <<>>
    BY <1>3
  <2>3. QED
    BY <2>1, <2>2
<1>5. \A q \in Results \ {r} : Visible(q)' = Visible(q)
  BY <1>2 DEF Visible, Orderly, TypeOK
<1>6. Seen' = [Seen EXCEPT ![r] = <<>>]
  BY <1>4, <1>5 DEF Seen
<1>7. QED
  BY <1>1, <1>6 DEF Streams!Reset, Seen

LEMMA StreamInit == Init => Streams!SInit
<1> SUFFICES ASSUME Init PROVE Streams!SInit
  OBVIOUS
<1>1. \A r \in Results : Visible(r) = <<>>
  BY DEF Init, Visible
<1>2. QED
  BY <1>1 DEF Streams!SInit

LEMMA StreamStep ==
    Orderly /\ [Next]_vars /\ Undisturbed' => [Streams!SNext]_Seen
<1> SUFFICES ASSUME Orderly, [Next]_vars, Undisturbed' PROVE [Streams!SNext]_Seen
  OBVIOUS
<1>1. ASSUME NEW w \in Workers, SendFails(w)
      PROVE  FALSE
  BY <1>1 DEF SendFails, Orderly, Undisturbed
<1>2. UNCHANGED <<log, base>> => Seen' = Seen
  BY DEF Seen, Visible
<1>3. QED
  BY <1>1, <1>2, StreamSteps, SendStreams, PurgeStreams DEF Streams!SNext

\* As long as nothing disturbs it, what readers see of the topics is a behaviour of
\* ResultStreams: items come in order, readers pass on what stands in their input,
\* and a stream starts over only after its own worker has crashed.
THEOREM TopicsImplementStreams == Spec /\ []Undisturbed => ImplementsStreams
<1>1. Init => Streams!SInit
  BY StreamInit
<1>2. Orderly /\ [Next]_vars /\ Undisturbed' => [Streams!SNext]_Seen
  BY StreamStep
<1>3. Orderly /\ [Next]_vars /\ Undisturbed'
        => [Streams!SNext]_[r \in Results |-> Visible(r)]
  BY <1>2 DEF Seen
<1>4. QED
  BY <1>1, <1>3, OrderlyHolds, PTL DEF Spec, ImplementsStreams, Streams!SSpec

\* Within the bounds of GentleBounds that is so in every behaviour.
COROLLARY GentleTopicsImplementStreams ==
    ASSUME GentleBounds
    PROVE  Spec => ImplementsStreams
BY StaysUndisturbed, TopicsImplementStreams, PTL
-----------------------------------------------------------------------------
(* What a reader has of its input. *)

\* A reader's stream is a prefix of its input's.
Follows(r) ==
    Kind[r] \in Consumers =>
        /\ Len(Seen[r]) =< Len(Seen[Input[r]])
        /\ \A i \in 1 .. Len(Seen[r]) : Seen[r][i] = Seen[Input[r]][i]

ReadersFollow == \A r \in Results : Follows(r)

\* A finished reader has all of its input.
FinishedIsWhole ==
    \A r \in Results :
        Kind[r] \in Consumers /\ Closed(r) => Visible(r) = Visible(Input[r])

\* Whatever is appended to a stream, its readers are still behind it; and a reader
\* appends what follows in its input.
LEMMA AppendFollows ==
    ASSUME Seen \in [Results -> Seq(Record)], ReadersFollow, NEW p \in Results,
           Streams!Source(p) \/ Streams!Relay(p),
           NEW r \in Results, Kind[r] \in Consumers
    PROVE  Follows(r)'
<1> DEFINE q == Input[r]
<1>1. /\ q \in Results \ {r} /\ Seen[r] \in Seq(Record) /\ Seen[q] \in Seq(Record)
      /\ Len(Seen[r]) \in Nat /\ Len(Seen[q]) \in Nat /\ Len(Seen[r]) =< Len(Seen[q])
      /\ \A i \in 1 .. Len(Seen[r]) : Seen[r][i] = Seen[q][i]
  BY CallAssumption DEF ReadersFollow, Follows
<1>2. PICK x : Seen' = [Seen EXCEPT ![p] = Append(@, x)]
  BY DEF Streams!Source, Streams!Relay, Seen
<1>3. CASE p = r
  <2>1. /\ Len(Seen[r]) < Len(Seen[q])
        /\ Seen' = [Seen EXCEPT ![r] = Append(@, Seen[q][Len(Seen[r]) + 1])]
    BY <1>3 DEF Streams!Source, Streams!Relay, Seen, Consumers
  <2>2. /\ Seen'[q] = Seen[q] /\ Seen'[r] = Append(Seen[r], Seen[q][Len(Seen[r]) + 1])
    BY <1>1, <2>1
  <2>3. /\ Len(Seen'[r]) = Len(Seen[r]) + 1
        /\ Seen'[r][Len(Seen[r]) + 1] = Seen[q][Len(Seen[r]) + 1]
        /\ \A i \in 1 .. Len(Seen[r]) : Seen'[r][i] = Seen[r][i]
    BY <1>1, <2>2
  <2>4. QED
    BY <1>1, <2>1, <2>2, <2>3 DEF Follows
<1>4. CASE p = q
  <2>1. Seen'[r] = Seen[r] /\ Seen'[q] = Append(Seen[q], x)
    BY <1>1, <1>2, <1>4
  <2>2. /\ Len(Seen'[q]) = Len(Seen[q]) + 1
        /\ \A i \in 1 .. Len(Seen[q]) : Seen'[q][i] = Seen[q][i]
    BY <1>1, <2>1
  <2>3. QED
    BY <1>1, <2>1, <2>2 DEF Follows
<1>5. CASE p \notin {q, r}
  BY <1>1, <1>2, <1>5 DEF Follows
<1>6. QED
  BY <1>3, <1>4, <1>5

LEMMA SeenType == Orderly => Seen \in [Results -> Seq(Record)]
BY VisibleIs DEF Seen

LEMMA FollowStep ==
    ASSUME Orderly, ReadersFollow, [Next]_vars, Undisturbed'
    PROVE  ReadersFollow'
<1> SUFFICES ASSUME NEW r \in Results, Kind[r] \in Consumers
             PROVE  Follows(r)'
  BY DEF ReadersFollow, Follows
<1>1. Seen \in [Results -> Seq(Record)]
  BY SeenType
<1>2. ASSUME NEW w \in Workers, SendData(w) \/ SendToken(w)
      PROVE  Follows(r)'
  BY <1>1, <1>2, SendStreams, AppendFollows
<1>3. ASSUME NEW w \in Workers, SendFails(w)
      PROVE  FALSE
  BY <1>3 DEF SendFails, Orderly, Undisturbed
<1>4. ASSUME NEW p \in Results, Purge(p)
      PROVE  Follows(r)'
  <2>1. Input[r] \in Results /\ Input[r] # p
    <3>1. Crashed(p)
      BY <1>4 DEF Purge, Orderly, Clean, TopicInOrder
    <3>2. QED
      BY <3>1, NobodyListens, CallAssumption
  <2>2. Seen' = [Seen EXCEPT ![p] = <<>>]
    BY <1>4, PurgeStreams DEF Streams!Reset, Seen
  <2>3. Seen'[Input[r]] = Seen[Input[r]] /\ Len(Seen[Input[r]]) \in Nat
    BY <1>1, <2>1, <2>2
  <2>4. Seen'[r] = Seen[r] \/ Seen'[r] = <<>>
    BY <1>1, <2>2
  <2>5. QED
    BY <2>3, <2>4 DEF ReadersFollow, Follows
<1>5. CASE UNCHANGED <<log, base>>
  BY <1>5 DEF Seen, Visible, ReadersFollow, Follows
<1>6. QED
  BY <1>2, <1>3, <1>4, <1>5, StreamSteps

\* Undisturbed, a reader's stream is always a prefix of its input's: along a pipe
\* every result is a part of what its source has produced, in the same order.
THEOREM StreamsArePrefixes == Spec => [](Undisturbed => ReadersFollow)
<1> DEFINE Inv == Undisturbed => ReadersFollow
<1>1. Init => Inv
  <2>1. Init => \A r \in Results : Len(Visible(r)) = 0
    BY DEF Init, Visible
  <2>2. Init => \A r \in Results : Kind[r] \in Consumers => Input[r] \in Results
    BY CallAssumption
  <2>3. QED
    BY <2>1, <2>2 DEF ReadersFollow, Follows, Seen
<1>2. TypeOK /\ (Undisturbed => Orderly) /\ Inv /\ [Next]_vars => Inv'
  BY UndisturbedBefore, FollowStep
<1> HIDE DEF Inv
<1>3. Spec => []Inv
  BY <1>1, <1>2, TypeCorrect, OrderlyHolds, PTL DEF Spec
<1>4. QED
  BY <1>3 DEF Inv

\* Undisturbed, a reader whose result carries a token has passed on its whole input,
\* the token included: eof comes with all items, and no err is lost on the way.
THEOREM FinishedReadersAreWhole == Spec => [](Undisturbed => FinishedIsWhole)
<1>1. ASSUME Orderly, ReadersFollow, NEW r \in Results, Kind[r] \in Consumers, Closed(r)
      PROVE  Visible(r) = Visible(Input[r])
  <2> DEFINE q == Input[r]
             n == Count(r)
  <2>1. q \in Results /\ Seen[r] = Visible(r) /\ Seen[q] = Visible(q)
    BY <1>1, CallAssumption DEF Seen
  <2>2. /\ TopicInOrder(r) /\ TopicInOrder(q) /\ base[r] \in Nat /\ Len(log[r]) \in Nat
        /\ base[r] =< Len(log[r]) /\ n \in Nat
    <3>1. TopicInOrder(r) /\ TopicInOrder(q)
      BY <1>1, <2>1 DEF Orderly, Clean
    <3>2. log[r] \in Seq(Record) /\ base[r] \in Nat
      BY <1>1 DEF Orderly, TypeOK
    <3>3. base[r] =< Len(log[r])
      BY <3>1 DEF TopicInOrder
    <3>4. QED
      BY <3>1, <3>2, <3>3 DEF Count
  <2>3. PICK i \in base[r] + 1 .. Len(log[r]) : log[r][i].tok # "data"
    BY <1>1 DEF Closed
  <2>4. n \in 1 .. n /\ At(r, n).tok # "data"
    <3>1. i - base[r] \in 1 .. n /\ At(r, i - base[r]).tok # "data"
      BY <2>2, <2>3 DEF Count, At
    <3>2. i - base[r] = n
      BY <2>2, <3>1 DEF TopicInOrder, Data
    <3>3. QED
      BY <3>1, <3>2
  <2>5. n =< Count(q) /\ At(q, n) = At(r, n) /\ Count(q) \in Nat
    <3>1. /\ Len(Seen[r]) = n /\ Len(Seen[q]) = Count(q) /\ Count(q) \in Nat
          /\ Seen[r][n] = At(r, n)
      BY <1>1, <2>1, <2>4, SeenIs
    <3>2. n =< Count(q) /\ Seen[r][n] = Seen[q][n]
      BY <1>1, <2>4, <3>1 DEF ReadersFollow, Follows
    <3>3. Seen[q][n] = At(q, n)
      BY <1>1, <2>1, <2>4, <3>1, <3>2, SeenIs
    <3>4. QED
      BY <3>1, <3>2, <3>3
  <2>6. n = Count(q)
    <3>1. n \in 1 .. Count(q) /\ At(q, n).tok # "data"
      BY <2>2, <2>4, <2>5
    <3>2. At(q, n) = Data(n - 1, n - 1) \/ n = Count(q)
      BY <2>2, <3>1 DEF TopicInOrder
    <3>3. Data(n - 1, n - 1).tok = "data"
      BY DEF Data
    <3>4. QED
      BY <3>1, <3>2, <3>3
  <2>7. /\ Seen[r] \in Seq(Record) /\ Seen[q] \in Seq(Record) /\ Len(Seen[r]) = Len(Seen[q])
        /\ \A k \in 1 .. Len(Seen[r]) : Seen[r][k] = Seen[q][k]
    BY <1>1, <2>1, <2>6, SeenIs DEF ReadersFollow, Follows
  <2>8. QED
    BY <2>1, <2>7, SeqEqual
<1>2. (Undisturbed => Orderly) /\ (Undisturbed => ReadersFollow)
        => (Undisturbed => FinishedIsWhole)
  BY <1>1 DEF FinishedIsWhole
<1>3. QED
  BY <1>2, OrderlyHolds, StreamsArePrefixes, PTL

\* Undisturbed, an acknowledged result is final: no step adds a record to its topic or
\* takes one away.
THEOREM AcknowledgedIsFinal ==
    Spec => [][Undisturbed' => \A r \in Results :
                   acked[r] > 0 => log'[r] = log[r] /\ base'[r] = base[r]]_vars
<1> DEFINE Final == Undisturbed' => \A r \in Results :
                        acked[r] > 0 => log'[r] = log[r] /\ base'[r] = base[r]
<1>1. ASSUME Orderly, [Next]_vars, Undisturbed', NEW r \in Results, acked[r] > 0
      PROVE  log'[r] = log[r] /\ base'[r] = base[r]
  <2>1. ASSUME NEW w \in Workers, SendData(w) \/ SendToken(w)
        PROVE  log'[r] = log[r] /\ base'[r] = base[r]
    <3>1. pc[w] # "idle"
      BY <2>1 DEF SendData, Sending, Emitting, SendToken, SendingEof, SendingErr, Drained
    <3>2. Res(w) # r
      BY <1>1, <3>1, Busy
    <3>3. QED
      BY <1>1, <2>1, <3>2 DEF SendData, SendToken, Send, Orderly, TypeOK
  <2>2. ASSUME NEW w \in Workers, SendFails(w)
        PROVE  FALSE
    BY <1>1, <2>2 DEF SendFails, Orderly, Undisturbed
  <2>3. ASSUME NEW p \in Results, Purge(p)
        PROVE  log'[r] = log[r] /\ base'[r] = base[r]
    BY <1>1, <2>3 DEF Purge, Orderly, Clean, TopicInOrder, TypeOK
  <2>4. QED
    BY <1>1, <2>1, <2>2, <2>3, StreamSteps
<1>2. TypeOK /\ (Undisturbed => Orderly) /\ [Next]_vars => [Final]_vars
  BY <1>1, UndisturbedBefore
<1> HIDE DEF Final
<1>3. Spec => [][Final]_vars
  BY <1>2, TypeCorrect, OrderlyHolds, PTL DEF Spec
<1>4. QED
  BY <1>3 DEF Final
-----------------------------------------------------------------------------
(* Whatever crashes, fails or is published twice: nothing is made up. *)

\* Topic q holds such a record, or has held it.
Origin(q, tok, val) ==
    \E j \in 1 .. Len(log[q]) :
        log[q][j].tok = tok /\ (tok = "data" => log[q][j].val = val)

\* The record is one that the service of call r may produce.
Derived(r, rec) ==
    \/ Kind[r] \in Consumers /\ Origin(Input[r], rec.tok, rec.val)
    \/ Kind[r] \in {"emitter", "errEmitter"} /\ rec.tok = "data" /\ rec.val < Items
    \/ Kind[r] = "emitter" /\ rec.tok = "eof"
    \/ Kind[r] \in {"errEmitter", "err"} /\ rec.tok = "err"

TopicDerived(r) == \A i \in 1 .. Len(log[r]) : Derived(r, log[r][i])

NothingMadeUp == \A r \in Results : TopicDerived(r)

\* What a worker is about to send on stands in its input.
Carries(w) ==
    LET r == Res(w) IN
    /\ pc[w] = "loop" => Kind[r] # "err"
    /\ pc[w] = "send" => Kind[r] \in Consumers /\ Origin(Input[r], "data", held[w])
    /\ pc[w] = "eof" => Kind[r] \in Consumers /\ Origin(Input[r], "eof", 0)
    /\ pc[w] = "err" =>
         Kind[r] = "err" \/ (Kind[r] \in Consumers /\ Origin(Input[r], "err", 0))

AllCarry == \A w \in Workers : task[w] # None => Carries(w)

LogsGrow ==
    \A q \in Results :
        /\ Len(log[q]) =< Len(log'[q])
        /\ \A i \in 1 .. Len(log[q]) : log'[q][i] = log[q][i]

LEMMA OriginStays ==
    ASSUME TypeOK, LogsGrow, NEW q \in Results, NEW tok, NEW val, Origin(q, tok, val)
    PROVE  Origin(q, tok, val)'
<1>1. Len(log[q]) \in Nat /\ Len(log'[q]) >= Len(log[q])
  BY DEF TypeOK, LogsGrow
<1>2. QED
  BY <1>1 DEF Origin, LogsGrow

\* What is sent may be sent.
LEMMA SentIsDerived ==
    ASSUME TypeOK, AllCarry, NEW w \in Workers,
           Sending(w) \/ SendingEof(w) \/ SendingErr(w)
    PROVE  Res(w) \in Results /\ Derived(Res(w), RecordOf(w))
<1>1. pc[w] \in {"loop", "send", "eof", "err"}
  BY DEF Sending, Emitting, SendingEof, SendingErr, Drained
<1>2. task[w] # None /\ Res(w) \in Results /\ Carries(w)
  BY <1>1, BusyHasTask, CallAssumption DEF AllCarry
<1>3. key[w] \in Nat /\ held[w] \in Nat /\ Items \in Nat
  BY BoundAssumption DEF TypeOK
<1>4. CASE SendingEof(w)
  <2>1. RecordOf(w) = Eof
    BY <1>4 DEF RecordOf
  <2>2. QED
    BY <1>2, <1>4, <2>1 DEF SendingEof, Drained, Does, Derived, Carries, Eof, Origin
<1>5. CASE ~SendingEof(w) /\ SendingErr(w)
  <2>1. RecordOf(w) = Err
    BY <1>5 DEF RecordOf
  <2>2. QED
    BY <1>2, <1>5, <2>1 DEF SendingErr, Drained, Does, Derived, Carries, Err, Origin
<1>6. CASE ~SendingEof(w) /\ ~SendingErr(w) /\ Emitting(w)
  <2>1. RecordOf(w) = Data(key[w], key[w])
    BY <1>6 DEF RecordOf
  <2>2. Kind[Res(w)] \in {"emitter", "errEmitter"} /\ key[w] < Items
    BY <1>2, <1>6 DEF Emitting, Does, Sources, Carries
  <2>3. QED
    BY <1>2, <2>1, <2>2 DEF Derived, Data
<1>7. CASE ~SendingEof(w) /\ ~SendingErr(w) /\ ~Emitting(w)
  <2>1. RecordOf(w) = Data(key[w], held[w]) /\ pc[w] = "send"
    BY <1>7 DEF RecordOf, Sending
  <2>2. QED
    BY <1>2, <2>1 DEF Derived, Carries, Data, Origin
<1>8. QED
  BY <1>4, <1>5, <1>6, <1>7

\* A send adds a derived record; every other step leaves the topics as they are.
LEMMA TopicSteps ==
    ASSUME TypeOK, AllCarry, [Next]_vars
    PROVE  \/ log' = log
           \/ \E r \in Results, x \in Record : Send(r, x) /\ Derived(r, x)
<1>1. \A w \in Workers : Sending(w) \/ SendingEof(w) \/ SendingErr(w)
         => Res(w) \in Results /\ Derived(Res(w), RecordOf(w)) /\ RecordOf(w) \in Record
  BY SentIsDerived, RecordType
<1>2. ASSUME NEW w \in Workers, SendData(w) \/ SendToken(w) \/ SendFails(w)
      PROVE  log' = log \/ \E r \in Results, x \in Record : Send(r, x) /\ Derived(r, x)
  BY <1>1, <1>2 DEF SendData, SendToken, SendFails
<1>3. ASSUME NEW r \in Results, Purge(r)
      PROVE  log' = log
  BY <1>3 DEF Purge
<1>4. QED
  BY <1>2, <1>3, StreamSteps

LEMMA SendLogs ==
    ASSUME TypeOK, NEW r \in Results, NEW x \in Record, Send(r, x)
    PROVE  /\ LogsGrow /\ log'[r] = Append(log[r], x)
           /\ Len(log'[r]) = Len(log[r]) + 1 /\ log'[r][Len(log[r]) + 1] = x
           /\ \A q \in Results \ {r} : log'[q] = log[q]
<1>1. log'[r] = Append(log[r], x) /\ \A q \in Results \ {r} : log'[q] = log[q]
  BY DEF TypeOK, Send
<1>2. \A q \in Results : log[q] \in Seq(Record) /\ Len(log[q]) \in Nat
  BY DEF TypeOK
<1>3. /\ Len(log'[r]) = Len(log[r]) + 1 /\ log'[r][Len(log[r]) + 1] = x
      /\ \A i \in 1 .. Len(log[r]) : log'[r][i] = log[r][i]
  BY <1>1, <1>2
<1>4. QED
  BY <1>1, <1>2, <1>3 DEF LogsGrow

LEMMA DerivedStays ==
    ASSUME TypeOK, LogsGrow, NEW r \in Results, NEW rec, Derived(r, rec)
    PROVE  \/ Kind[r] \in Consumers /\ Origin(Input[r], rec.tok, rec.val)'
           \/ Kind[r] \in {"emitter", "errEmitter"} /\ rec.tok = "data" /\ rec.val < Items
           \/ Kind[r] = "emitter" /\ rec.tok = "eof"
           \/ Kind[r] \in {"errEmitter", "err"} /\ rec.tok = "err"
<1>1. Kind[r] \in Consumers => Input[r] \in Results
  BY CallAssumption
<1>2. QED
  BY <1>1, OriginStays DEF Derived
LEMMA CarriesStays ==
    ASSUME TypeOK, LogsGrow, NEW v \in Workers, task[v] # None, Carries(v),
           task'[v] = task[v], pc'[v] = pc[v], held'[v] = held[v]
    PROVE  Carries(v)'
<1>1. Res(v) \in Results /\ Res(v)' = Res(v)
  BY CallAssumption DEF TypeOK, Task, Res
<1>2. Kind[Res(v)] \in Consumers => Input[Res(v)] \in Results
  BY <1>1, CallAssumption
<1>3. CASE pc[v] = "send"
  BY <1>1, <1>2, <1>3, OriginStays DEF Carries
<1>4. CASE pc[v] = "eof"
  BY <1>1, <1>2, <1>4, OriginStays DEF Carries
<1>5. CASE pc[v] = "err"
  BY <1>1, <1>2, <1>5, OriginStays DEF Carries
<1>6. CASE pc[v] \notin {"send", "eof", "err"}
  BY <1>1, <1>6 DEF Carries
<1>7. QED
  BY <1>3, <1>4, <1>5, <1>6

\* Behind the steps that hold no record there is nothing to carry.
CarriesNothing(w) == pc'[w] \notin {"loop", "send", "eof", "err"}

LEMMA PollCarries ==
    ASSUME TypeOK, NEW w \in Workers, Poll(w)
    PROVE  Carries(w)'
<1> DEFINE q == In(w)
           k == Position(w) + 1
<1>1. /\ pc[w] = "loop" /\ task[w] # None /\ Res(w) \in Results
      /\ Kind[Res(w)] \in Consumers /\ q \in Results
  <2>1. pc[w] = "loop" /\ Does(w, Consumers)
    BY DEF Poll
  <2>2. Res(w) \in Results
    BY <2>1, BusyHasTask
  <2>3. QED
    BY <2>1, <2>2, CallAssumption DEF Does, In
<1>2. log' = log /\ Res(w)' = Res(w) /\ In(w) = Input[Res(w)]
  BY DEF Poll, kafka, Res, In
<1>3. log[q] \in Seq(Record) /\ Len(log[q]) \in Nat /\ base[q] \in Nat
  BY <1>1 DEF TypeOK
<1>4. CASE pc' = pc
  BY <1>1, <1>2, <1>4 DEF Carries, Consumers
<1>5. ASSUME Position(w) >= base[q], Position(w) < Len(log[q])
      PROVE  k \in 1 .. Len(log[q])
  <2>1. Position(w) \in Nat
    BY <1>1, <1>3 DEF Position, TypeOK, Begin
  <2>2. QED
    BY <1>3, <1>5, <2>1
<1>6. CASE /\ Position(w) >= base[q] /\ Position(w) < Len(log[q])
           /\ log[q][k].tok = "data"
           /\ held' = [held EXCEPT ![w] = log[q][k].val]
           /\ pc' = [pc EXCEPT ![w] = "send"]
  <2>1. held'[w] = log[q][k].val /\ pc'[w] = "send"
    BY <1>6 DEF TypeOK
  <2>2. k \in 1 .. Len(log[q])
    BY <1>5, <1>6
  <2>3. Origin(q, "data", log[q][k].val)
    BY <1>6, <2>2 DEF Origin
  <2>4. QED
    BY <1>1, <1>2, <2>1, <2>3 DEF Carries, Origin
<1>7. CASE /\ Position(w) >= base[q] /\ Position(w) < Len(log[q])
           /\ log[q][k].tok = "eof" /\ pc' = [pc EXCEPT ![w] = "eof"]
  <2>1. Origin(q, "eof", 0) /\ pc'[w] = "eof"
    BY <1>5, <1>7 DEF Origin, TypeOK
  <2>2. QED
    BY <1>1, <1>2, <2>1 DEF Carries, Origin
<1>8. CASE /\ Position(w) >= base[q] /\ Position(w) < Len(log[q])
           /\ log[q][k].tok = "err" /\ pc' = [pc EXCEPT ![w] = "err"]
  <2>1. Origin(q, "err", 0) /\ pc'[w] = "err"
    BY <1>5, <1>8 DEF Origin, TypeOK
  <2>2. QED
    BY <1>1, <1>2, <2>1 DEF Carries, Origin
<1>9. CASE pc' = [pc EXCEPT ![w] = "ack"]
  BY <1>9 DEF Carries, TypeOK
<1>10. QED
  BY <1>4, <1>6, <1>7, <1>8, <1>9 DEF Poll

\* What the worker that takes the step holds afterwards.
LEMMA StepCarries ==
    ASSUME TypeOK, AllCarry, LogsGrow, NEW w \in Workers, Work(w) \/ Fault(w), task'[w] # None
    PROVE  Carries(w)'
<1> USE DEF TypeOK
<1>1. CASE Deliver(w) \/ Exists(w) \/ Restart(w) \/ Declare(w) \/ SendFail(w)
  BY <1>1 DEF Deliver, Exists, Restart, Declare, SendFail, Carries
<1>2. CASE Create(w) \/ Restarted(w)
  <2>1. \/ StartService(w) \/ pc' = [pc EXCEPT ![w] = "ack"]
    BY <1>2 DEF Create, Restarted
  <2>2. Res(w)' = Res(w)
    BY <1>2 DEF Create, Restarted, Res
  <2>3. QED
    BY <2>1, <2>2 DEF StartService, Carries
<1>3. CASE Consume(w)
  <2>1. Res(w)' = Res(w)
    BY <1>3 DEF Consume, Res
  <2>2. \/ pc'[w] \in {"fail", "ack"}
        \/ pc'[w] = "err" /\ Kind[Res(w)] = "err"
        \/ pc'[w] = "loop" /\ Kind[Res(w)] \in Consumers
    BY <1>3 DEF Consume, Does
  <2>3. QED
    BY <2>1, <2>2 DEF Carries, Consumers
<1>4. CASE Poll(w)
  BY <1>4, PollCarries
<1>5. CASE WakeUp(w)
  <2>1. task[w] # None /\ task'[w] = task[w] /\ pc'[w] = pc[w] /\ held'[w] = held[w]
    BY <1>5, BusyHasTask, CallAssumption DEF WakeUp
  <2>2. QED
    BY <2>1, CarriesStays DEF AllCarry
<1>6. CASE PollTimeout(w) \/ SendToken(w) \/ ReportFails(w)
  BY <1>6 DEF PollTimeout, SendToken, ReportFails, Carries
<1>7. CASE SendData(w)
  <2>1. pc[w] \in {"loop", "send"} /\ pc'[w] = "loop" /\ task'[w] = task[w]
    BY <1>7 DEF SendData, Sending, Emitting
  <2>2. Carries(w) /\ Res(w)' = Res(w)
    BY <2>1 DEF AllCarry, Res
  <2>3. Kind[Res(w)] # "err"
    BY <2>1, <2>2 DEF Carries, Consumers
  <2>4. QED
    BY <2>1, <2>2, <2>3 DEF Carries
<1>8. CASE SendFails(w)
  <2>1. /\ Res(w)' = Res(w)
        /\ pc'[w] \in {"fail", "ack"} \/ (pc'[w] = "loop" /\ Kind[Res(w)] = "cat")
    BY <1>8 DEF SendFails, Does, Res
  <2>2. QED
    BY <2>1 DEF Carries
<1>9. CASE Ack(w) \/ Crash(w)
  BY <1>9 DEF Ack, Crash, Return
<1>10. QED
  BY <1>1, <1>2, <1>3, <1>4, <1>5, <1>6, <1>7, <1>8, <1>9 DEF Work, Fault

\* A step of one worker leaves what the others hold.
LEMMA OthersCarry ==
    ASSUME TypeOK, [Next]_vars
    PROVE  \/ \E w \in Workers :
                /\ Work(w) \/ Fault(w)
                /\ \A v \in Workers \ {w} :
                     task'[v] = task[v] /\ pc'[v] = pc[v] /\ held'[v] = held[v]
           \/ UNCHANGED <<task, pc, held>>
<1> USE DEF local, TypeOK
<1>1. ASSUME NEW w \in Workers, Work(w)
      PROVE  \A v \in Workers \ {w} :
                 task'[v] = task[v] /\ pc'[v] = pc[v] /\ held'[v] = held[v]
  <2>1. CASE Deliver(w) \/ Exists(w) \/ Create(w) \/ Restart(w) \/ Restarted(w)
    BY <2>1 DEF Deliver, Exists, Create, Restart, Restarted, StartService
  <2>2. CASE Declare(w) \/ Consume(w) \/ WakeUp(w) \/ SendData(w) \/ SendToken(w)
    BY <2>2 DEF Declare, Consume, WakeUp, SendData, SendToken
  <2>3. CASE Poll(w)
    BY <2>3 DEF Poll
  <2>4. CASE SendFail(w) \/ Ack(w)
    BY <2>4 DEF SendFail, Ack, Return
  <2>5. QED
    BY <1>1, <2>1, <2>2, <2>3, <2>4 DEF Work
<1>2. ASSUME NEW w \in Workers, Fault(w)
      PROVE  \A v \in Workers \ {w} :
                 task'[v] = task[v] /\ pc'[v] = pc[v] /\ held'[v] = held[v]
  BY <1>2 DEF Fault, PollTimeout, SendFails, ReportFails, Crash, Return
<1>3. Cancel => UNCHANGED <<task, pc, held>>
  BY DEF Cancel, CancelBegins, CancelEnds
<1>4. ASSUME NEW r \in Results, NEW anon \in BOOLEAN, Publish(r, anon)
      PROVE  UNCHANGED <<task, pc, held>>
  BY <1>4 DEF Publish, Enqueue
<1>5. ASSUME NEW r \in Results, Purge(r)
      PROVE  UNCHANGED <<task, pc, held>>
  BY <1>5 DEF Purge
<1>6. UNCHANGED vars => UNCHANGED <<task, pc, held>>
  BY DEF vars
<1>7. QED
  BY <1>1, <1>2, <1>3, <1>4, <1>5, <1>6 DEF Next

LEMMA MadeUpStep ==
    TypeOK /\ AllCarry /\ NothingMadeUp /\ [Next]_vars => AllCarry' /\ NothingMadeUp'
<1> SUFFICES ASSUME TypeOK, AllCarry, NothingMadeUp, [Next]_vars
             PROVE  AllCarry' /\ NothingMadeUp'
  OBVIOUS
<1>1. LogsGrow
  <2>1. log' = log => LogsGrow
    BY DEF LogsGrow, TypeOK
  <2>2. QED
    BY <2>1, TopicSteps, SendLogs
<1>2. AllCarry'
  <2>1. ASSUME NEW v \in Workers, task'[v] # None,
               task'[v] = task[v], pc'[v] = pc[v], held'[v] = held[v]
        PROVE  Carries(v)'
    BY <1>1, <2>1, CarriesStays DEF AllCarry
  <2>2. ASSUME NEW v \in Workers, task'[v] # None, Work(v) \/ Fault(v)
        PROVE  Carries(v)'
    BY <1>1, <2>2, StepCarries
  <2>3. QED
    BY <2>1, <2>2, OthersCarry DEF AllCarry
<1>3. ASSUME NEW q \in Results, NEW i \in 1 .. Len(log'[q])
      PROVE  Derived(q, log[q][i])'
  <2>1. PICK rec : rec = log'[q][i]
    OBVIOUS
  <2>2. Derived(q, rec)
    <3>1. CASE log' = log
      BY <2>1, <3>1 DEF NothingMadeUp, TopicDerived
    <3>2. ASSUME NEW r \in Results, NEW x \in Record, Send(r, x), Derived(r, x)
          PROVE  Derived(q, rec)
      <4>1. Len(log[q]) \in Nat
        BY DEF TypeOK
      <4>2. CASE q = r /\ i = Len(log[r]) + 1
        BY <2>1, <3>2, <4>2, SendLogs
      <4>3. CASE i \in 1 .. Len(log[q])
        BY <1>1, <2>1, <4>3 DEF LogsGrow, NothingMadeUp, TopicDerived
      <4>4. QED
        BY <3>2, <4>1, <4>2, <4>3, SendLogs
    <3>3. QED
      BY <3>1, <3>2, TopicSteps
  <2>3. QED
    BY <1>1, <2>1, <2>2, DerivedStays DEF Derived
<1>4. QED
  BY <1>2, <1>3 DEF NothingMadeUp, TopicDerived

\* Whatever crashes, fails to be sent, times out or is published twice, every record
\* in the topic of a reader has its origin in the topic it reads, and every record of
\* a source is one of its items or its token: no step mixes results up, and an eof or
\* err in a result was sent by the source of its pipe.
THEOREM NothingIsMadeUp == Spec => []NothingMadeUp
<1>1. Init => AllCarry /\ NothingMadeUp
  BY DEF Init, AllCarry, NothingMadeUp, TopicDerived
<1>2. TypeOK /\ AllCarry /\ NothingMadeUp /\ [Next]_vars => AllCarry' /\ NothingMadeUp'
  BY MadeUpStep
<1>3. QED
  BY <1>1, <1>2, TypeCorrect, PTL DEF Spec
-----------------------------------------------------------------------------
(* The same from the constants alone. *)

\* Within the gentle bounds a task is acknowledged only when its result carries a
\* token, or squares a failed one, for as long as no poll times out.
COROLLARY GentleRunsCloseResults ==
    ASSUME GentleBounds
    PROVE  Spec => [](timeouts = 0 => AckedIsClosed)
BY StaysUndisturbed, AcknowledgedIsClosed, PTL

\* Without crashes a name on the fail topic is a result that ends with err.
COROLLARY GentleRunsFailWithErr ==
    ASSUME GentleBounds, MaxCrashes = 0
    PROVE  Spec => []FailedHasErr
BY StaysUndisturbed, NoCrashes, FailuresHaveErr, PTL
=============================================================================
