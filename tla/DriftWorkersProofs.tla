------------------------- MODULE DriftWorkersProofs -------------------------
(***************************************************************************)
(* Theorems about DriftWorkers that hold for every set of workers, every   *)
(* network of calls, every number of copies and every fault budget.        *)
(***************************************************************************)
EXTENDS DriftWorkers, FiniteSetTheorems, TLAPS

-----------------------------------------------------------------------------
(* Typing. *)

\* The records a service sends are records.
LEMMA RecordType ==
    ASSUME TypeOK, NEW w \in Workers
    PROVE  RecordOf(w) \in Record
<1>1. key[w] \in Nat /\ held[w] \in Nat
  BY DEF TypeOK
<1>2. QED
  BY <1>1 DEF RecordOf, Record, Data, Eof, Err

\* A worker that is not idle has a task.
LEMMA BusyHasTask ==
    ASSUME TypeOK, NEW w \in Workers, pc[w] # "idle"
    PROVE  task[w] \in Task /\ Res(w) \in Results
BY DEF TypeOK, Task, Res

\* Sending a record keeps the topics typed.
LEMMA SendType ==
    ASSUME TypeOK, NEW r \in Results, NEW rec \in Record, Send(r, rec)
    PROVE  log' \in [Results -> Seq(Record)] /\ topics' \subseteq Results
BY DEF TypeOK, Send

\* Canceling the listeners of a signal queue starts one callback for each.
LEMMA FiredType ==
    ASSUME TypeOK, NEW q
    PROVE  Fired(q) \subseteq Callback
BY DEF TypeOK, Fired, Cancelled, Callback

\* A listening service declares the signal queue of a result or of no input.
LEMMA SignalType ==
    ASSUME TypeOK, NEW w \in Workers, pc[w] \in {"declare", "consume"}
    PROVE  SignalOf(w) \in Results \cup {None}
BY BusyHasTask, CallAssumption DEF SignalOf, In

\* The position of a consumer is an offset.
LEMMA PositionType ==
    ASSUME TypeOK, NEW w \in Workers, In(w) \in Results
    PROVE  Position(w) \in Nat
BY DEF TypeOK, Position, Begin

\* Closing a channel removes listeners and callbacks, or makes them closing.
LEMMA CloseType ==
    ASSUME TypeOK, NEW w \in Workers, CloseChannel(w)
    PROVE  listeners' \subseteq Listener /\ callbacks' \subseteq Callback
<1>1. ASSUME NEW c \in callbacks
      PROVE  [c EXCEPT !.st = "closing"] \in Callback
  <2>1. c \in Callback
    BY <1>1 DEF TypeOK
  <2>2. QED
    BY <2>1 DEF Callback
<1>2. callbacks' \subseteq Callback
  BY <1>1 DEF CloseChannel, TypeOK
<1>3. QED
  BY <1>2 DEF CloseChannel, TypeOK

\* The end of a delivery leaves an idle worker with fresh locals.
LEMMA ReturnType ==
    ASSUME TypeOK, NEW w \in Workers, Return(w)
    PROVE  /\ pc' \in [Workers -> Control]
           /\ task' \in [Workers -> Task \cup {None}]
           /\ \A v \in Workers : pc'[v] = "idle" <=> task'[v] = None
           /\ pos' \in [Workers -> Nat \cup {Begin}]
           /\ key' \in [Workers -> Nat] /\ held' \in [Workers -> Nat]
           /\ mark' \in [Workers -> Nat] /\ wake' \in [Workers -> BOOLEAN]
BY DEF TypeOK, Return, Control

LEMMA InitType == Init => TypeOK
<1> SUFFICES ASSUME Init PROVE TypeOK
  OBVIOUS
<1>1. taskQueue \in Seq(Task) /\ log \in [Results -> Seq(Record)]
  BY DEF Init
<1>2. /\ pc \in [Workers -> Control]
      /\ task \in [Workers -> Task \cup {None}]
      /\ \A w \in Workers : pc[w] = "idle" /\ task[w] = None
  BY DEF Init, Control
<1>3. wake \in [Workers -> BOOLEAN]
  BY DEF Init
<1>4. /\ published \in [Results -> Nat] /\ acked \in [Results -> Nat]
      /\ base \in [Results -> Nat]
      /\ run \in [Workers -> Nat] /\ pos \in [Workers -> Nat \cup {Begin}]
      /\ key \in [Workers -> Nat] /\ held \in [Workers -> Nat]
      /\ mark \in [Workers -> Nat] /\ deliveries \in Nat
      /\ crashes \in Nat /\ sendFailures \in Nat /\ timeouts \in Nat
  BY DEF Init
<1>5. QED
  BY <1>1, <1>2, <1>3, <1>4 DEF Init, TypeOK

LEMMA WorkType ==
    ASSUME TypeOK, NEW w \in Workers, Work(w)
    PROVE  TypeOK'
<1> USE DEF vars, brokers, signals, kafka, local, faults
<1>1. CASE Deliver(w)
  <2>1. Head(taskQueue) \in Task /\ Tail(taskQueue) \in Seq(Task)
    BY <1>1 DEF Deliver, TypeOK
  <2>2. None \notin Task
    BY CallAssumption DEF Task
  <2>3. /\ pc' \in [Workers -> Control]
        /\ task' \in [Workers -> Task \cup {None}]
        /\ \A v \in Workers : pc'[v] = "idle" <=> task'[v] = None
    BY <1>1, <2>1, <2>2 DEF Deliver, TypeOK, Control
  <2>4. signal' \subseteq Results \cup {None}
    BY <1>1, <2>1 DEF Deliver, TypeOK, Task
  <2>5. QED
    BY <1>1, <2>1, <2>3, <2>4 DEF Deliver, TypeOK
<1>2. CASE Exists(w)
  BY <1>2 DEF Exists, TypeOK, Control
<1>3. CASE Create(w)
  <2>1. Res(w) \in Results
    BY <1>3, BusyHasTask DEF Create
  <2>2. QED
    BY <1>3, <2>1 DEF Create, StartService, TypeOK, Control
<1>4. CASE Restart(w)
  <2>1. Res(w) \in Results
    BY <1>4, BusyHasTask DEF Restart
  <2>2. Len(log[Res(w)]) \in Nat
    BY <2>1 DEF TypeOK
  <2>3. Fired(Res(w)) \subseteq Callback
    BY FiredType
  <2>4. QED
    BY <1>4, <2>1, <2>2, <2>3 DEF Restart, Lowered, TypeOK, Control
<1>5. CASE Restarted(w)
  <2>1. Res(w) \in Results
    BY <1>5, BusyHasTask DEF Restarted
  <2>3. Fired(Res(w)) \subseteq Callback
    BY FiredType
  <2>4. QED
    BY <1>5, <2>1, <2>3 DEF Restarted, StartService, TypeOK, Control
<1>6. CASE Declare(w)
  <2>1. Res(w) \in Results
    BY <1>6, BusyHasTask DEF Declare
  <2>2. QED
    BY <1>6, <2>1, SignalType DEF Declare, TypeOK, Control
<1>7. CASE Consume(w)
  <2>1. Res(w) \in Results /\ task[w] \in Task
    BY <1>7, BusyHasTask DEF Consume
  <2>2. CASE Does(w, Consumers)
    <3>1. In(w) \in Results
      BY <2>1, <2>2, CallAssumption DEF Does, In
    <3>2. [on |-> In(w), out |-> Res(w), w |-> w, id |-> run[w]] \in Listener
      BY <2>1, <3>1 DEF Listener, TypeOK
    <3>3. QED
      BY <1>7, <3>1, <3>2 DEF Consume, TypeOK, Control
  <2>3. CASE ~Does(w, Consumers)
    BY <1>7, <2>3 DEF Consume, TypeOK, Control
  <2>4. QED
    BY <2>2, <2>3
<1>8. CASE Poll(w)
  <2>1. Res(w) \in Results /\ task[w] \in Task
    BY <1>8, BusyHasTask DEF Poll
  <2>2. In(w) \in Results
    BY <1>8, <2>1, CallAssumption DEF Poll, Does, In
  <2>3. base[In(w)] \in Nat /\ log[In(w)] \in Seq(Record)
    BY <2>2 DEF TypeOK
  <2>4. CASE Position(w) < base[In(w)]
    <3>1. Len(log[In(w)]) \in Nat
      BY <2>3
    <3>2. /\ pos' = [pos EXCEPT ![w] = Len(log[In(w)])]
          /\ UNCHANGED <<brokers, signals, kafka, pc, held, task, run, key, mark,
                         wake, deliveries, faults>>
      BY <1>8, <2>2, <2>3, <2>4, PositionType DEF Poll
    <3>3. QED
      BY <3>1, <3>2 DEF TypeOK
  <2>5. CASE Position(w) >= base[In(w)] /\ Position(w) < Len(log[In(w)])
    <3>1. Position(w) \in Nat
      BY <2>2, PositionType
    <3>2. log[In(w)][Position(w) + 1] \in Record
      BY <2>3, <2>5, <3>1
    <3>3. log[In(w)][Position(w) + 1].val \in Nat
      BY <3>2 DEF Record
    <3>4. /\ pos' = [pos EXCEPT ![w] = Position(w) + 1]
          /\ held' = held \/ held' = [held EXCEPT ![w] = log[In(w)][Position(w) + 1].val]
          /\ \E x \in {"send", "eof", "err", "ack"} : pc' = [pc EXCEPT ![w] = x]
          /\ UNCHANGED <<brokers, signals, kafka, task, run, key, mark, wake,
                         deliveries, faults>>
      BY <1>8, <2>3, <2>5, <3>1 DEF Poll
    <3>5. pos' \in [Workers -> Nat \cup {Begin}]
      BY <3>1, <3>4 DEF TypeOK
    <3>6. held' \in [Workers -> Nat]
      BY <3>3, <3>4 DEF TypeOK
    <3>7. /\ pc' \in [Workers -> Control]
          /\ \A v \in Workers : pc'[v] = "idle" <=> task'[v] = None
      BY <1>8, <3>4 DEF Poll, TypeOK, Control
    <3>8. QED
      BY <3>4, <3>5, <3>6, <3>7 DEF TypeOK
  <2>6. QED
    BY <1>8, <2>3, <2>4, <2>5 DEF Poll, TypeOK
<1>9. CASE WakeUp(w)
  BY <1>9 DEF WakeUp, TypeOK
<1>10. CASE SendData(w)
  <2>1. pc[w] \in {"loop", "send"}
    BY <1>10 DEF SendData, Sending, Emitting
  <2>2. Res(w) \in Results /\ RecordOf(w) \in Record
    BY <2>1, BusyHasTask, RecordType
  <2>3. log' \in [Results -> Seq(Record)] /\ topics' \subseteq Results
    BY <1>10, <2>2, SendType DEF SendData
  <2>4. QED
    BY <1>10, <2>1, <2>3 DEF SendData, TypeOK, Control
<1>11. CASE SendToken(w)
  <2>1. pc[w] \in {"loop", "eof", "err"}
    BY <1>11 DEF SendToken, SendingEof, SendingErr, Drained
  <2>2. Res(w) \in Results /\ RecordOf(w) \in Record
    BY <2>1, BusyHasTask, RecordType
  <2>3. log' \in [Results -> Seq(Record)] /\ topics' \subseteq Results
    BY <1>11, <2>2, SendType DEF SendToken
  <2>4. listeners' \subseteq Listener /\ callbacks' \subseteq Callback
    BY <1>11, CloseType DEF SendToken, TypeOK
  <2>5. /\ pc' \in [Workers -> Control]
        /\ \A v \in Workers : pc'[v] = "idle" <=> task'[v] = None
    BY <1>11, <2>1 DEF SendToken, TypeOK, Control
  <2>6. QED
    BY <1>11, <2>3, <2>4, <2>5 DEF SendToken, TypeOK
<1>12. CASE SendFail(w)
  <2>1. Res(w) \in Results
    BY <1>12, BusyHasTask DEF SendFail
  <2>2. QED
    BY <1>12, <2>1 DEF SendFail, TypeOK, Control
<1>13. CASE Ack(w)
  <2>1. Res(w) \in Results
    BY <1>13, BusyHasTask DEF Ack
  <2>2. acked' \in [Results -> Nat]
    BY <1>13, <2>1 DEF Ack, TypeOK
  <2>3. QED
    BY <1>13, <2>2, ReturnType DEF Ack, TypeOK
<1>14. QED
  BY <1>1, <1>2, <1>3, <1>4, <1>5, <1>6, <1>7, <1>8, <1>9, <1>10, <1>11, <1>12,
     <1>13 DEF Work

LEMMA FaultType ==
    ASSUME TypeOK, NEW w \in Workers, Fault(w)
    PROVE  TypeOK'
<1> USE DEF vars, brokers, signals, kafka, local, faults
<1>1. CASE PollTimeout(w)
  BY <1>1 DEF PollTimeout, TypeOK, Control
<1>2. CASE SendFails(w)
  <2>1. pc[w] \in {"loop", "send", "eof", "err"}
    BY <1>2 DEF SendFails, Sending, Emitting, SendingEof, SendingErr, Drained
  <2>2. Res(w) \in Results /\ RecordOf(w) \in Record
    BY <2>1, BusyHasTask, RecordType
  <2>3. log' \in [Results -> Seq(Record)] /\ topics' \subseteq Results
    BY <1>2, <2>2, SendType DEF SendFails, TypeOK
  <2>4. /\ pc' \in [Workers -> Control]
        /\ \A v \in Workers : pc'[v] = "idle" <=> task'[v] = None
    BY <1>2, <2>1 DEF SendFails, TypeOK, Control
  <2>5. QED
    BY <1>2, <2>3, <2>4 DEF SendFails, TypeOK
<1>3. CASE Crash(w)
  <2>1. taskQueue' \in Seq(Task)
    <3>1. CASE task[w] = None
      BY <1>3, <3>1 DEF Crash, TypeOK
    <3>2. CASE task[w] # None
      <4>1. task[w] \in Task
        BY <3>2 DEF TypeOK
      <4>2. taskQueue' = <<task[w]>> \o taskQueue
        BY <1>3, <3>2 DEF Crash
      <4>3. <<task[w]>> \in Seq(Task) /\ taskQueue \in Seq(Task)
        BY <4>1 DEF TypeOK
      <4>4. QED
        BY <4>2, <4>3
    <3>3. QED
      BY <3>1, <3>2
  <2>2. listeners' \subseteq Listener /\ callbacks' \subseteq Callback
    BY <1>3 DEF Crash, TypeOK
  <2>3. Return(w) /\ crashes' = crashes + 1
    BY <1>3 DEF Crash
  <2>4. UNCHANGED <<published, acked, zk, signal, kafka, run, deliveries, sendFailures,
                    timeouts>>
    BY <1>3 DEF Crash
  <2>5. /\ pc' \in [Workers -> Control]
        /\ task' \in [Workers -> Task \cup {None}]
        /\ \A v \in Workers : pc'[v] = "idle" <=> task'[v] = None
        /\ pos' \in [Workers -> Nat \cup {Begin}]
        /\ key' \in [Workers -> Nat] /\ held' \in [Workers -> Nat]
        /\ mark' \in [Workers -> Nat] /\ wake' \in [Workers -> BOOLEAN]
    BY <2>3, ReturnType
  <2>6. crashes' \in Nat
    BY <2>3 DEF TypeOK
  <2>7. QED
    BY <2>1, <2>2, <2>4, <2>5, <2>6 DEF TypeOK
<1>4. CASE ReportFails(w)
  <2>1. Res(w) \in Results
    BY <1>4, BusyHasTask DEF ReportFails
  <2>2. failTopic' \subseteq Results \cup {None}
    <3>1. failTopic' = failTopic \/ failTopic' = failTopic \cup {IF task[w].anon THEN None ELSE Res(w)}
      BY <1>4 DEF ReportFails
    <3>2. QED
      BY <2>1, <3>1 DEF TypeOK
  <2>3. /\ pc[w] = "fail" /\ pc' = [pc EXCEPT ![w] = "ack"]
        /\ sendFailures' = sendFailures + 1
    BY <1>4 DEF ReportFails
  <2>4. UNCHANGED <<brokers, signals, log, base, short, topics, task, local, deliveries,
                    crashes, timeouts>>
    BY <1>4 DEF ReportFails
  <2>5. QED
    BY <2>2, <2>3, <2>4 DEF TypeOK, Control
<1>5. QED
  BY <1>1, <1>2, <1>3, <1>4 DEF Fault

LEMMA CancelType == TypeOK /\ Cancel => TypeOK'
<1> USE DEF vars, brokers, signals, kafka, local, faults
<1>1. ASSUME TypeOK, NEW c \in callbacks, CancelBegins(c)
      PROVE  TypeOK'
  <2>1. c \in Callback /\ c.lst.out \in Results
    BY <1>1 DEF TypeOK, Callback, Listener
  <2>2. Len(log[c.lst.out]) \in Nat
    BY <1>1, <2>1 DEF TypeOK
  <2>3. [c EXCEPT !.st = "purging", !.from = Len(log[c.lst.out])] \in Callback
    BY <2>1, <2>2 DEF Callback
  <2>4. callbacks' \subseteq Callback
    BY <1>1, <2>3, FiredType DEF CancelBegins, TypeOK
  <2>5. QED
    BY <1>1, <2>1, <2>4 DEF CancelBegins, Lowered, TypeOK
<1>2. ASSUME TypeOK, NEW c \in callbacks, CancelEnds(c)
      PROVE  TypeOK'
  <2>1. callbacks' \subseteq Callback
    BY <1>2, FiredType DEF CancelEnds, TypeOK
  <2>2. wake' \in [Workers -> BOOLEAN]
    BY <1>2, Zenon DEF CancelEnds, TypeOK, Does
  <2>3. QED
    BY <1>2, <2>1, <2>2 DEF CancelEnds, TypeOK
<1>3. QED
  BY <1>1, <1>2 DEF Cancel

\* Every step keeps the types.
LEMMA NextType == TypeOK /\ [Next]_vars => TypeOK'
<1> USE DEF vars, brokers, signals, kafka, local, faults
<1>1. ASSUME TypeOK, NEW r \in Results, NEW anon \in BOOLEAN, Publish(r, anon)
      PROVE  TypeOK'
  <2>1. [res |-> r, anon |-> anon] \in Task
    BY <1>1 DEF Task
  <2>2. taskQueue' \in Seq(Task)
    BY <1>1, <2>1 DEF Publish, Enqueue, TypeOK
  <2>3. QED
    BY <1>1, <2>2 DEF Publish, Enqueue, TypeOK
<1>2. ASSUME TypeOK, NEW r \in Results, Purge(r)
      PROVE  TypeOK'
  BY <1>2 DEF Purge, TypeOK
<1>3. TypeOK /\ UNCHANGED vars => TypeOK'
  BY DEF TypeOK
<1>4. QED
  BY <1>1, <1>2, <1>3, WorkType, FaultType, CancelType DEF Next

\* Typing: every variable keeps its type and a worker has a task exactly when
\* its handleDelivery is running.
THEOREM TypeCorrect == Spec => []TypeOK
<1>1. Init => TypeOK
  BY InitType
<1>2. TypeOK /\ [Next]_vars => TypeOK'
  BY NextType
<1>3. QED
  BY <1>1, <1>2, PTL DEF Spec
-----------------------------------------------------------------------------
(* Where the messages of a call are. *)

\* Appending to the task queue, taking its head, putting a task back.
LEMMA QueuedAppend ==
    ASSUME TypeOK, NEW t \in Task, taskQueue' = Append(taskQueue, t), NEW r
    PROVE  /\ Queued(r)' <=> Queued(r) \/ t.res = r
           /\ ~(Queued(r) /\ t.res = r) /\ QueuedOnce(r) => QueuedOnce(r)'
<1>1. /\ taskQueue \in Seq(Task) /\ Len(taskQueue) \in Nat
      /\ Len(taskQueue') = Len(taskQueue) + 1
      /\ \A i \in 1 .. Len(taskQueue) : taskQueue'[i] = taskQueue[i]
      /\ taskQueue'[Len(taskQueue) + 1] = t
  BY DEF TypeOK
<1>2. QED
  BY <1>1 DEF Queued, QueuedOnce

LEMMA QueuedTail ==
    ASSUME TypeOK, taskQueue # <<>>, taskQueue' = Tail(taskQueue), NEW r
    PROVE  /\ Queued(r) <=> Queued(r)' \/ Head(taskQueue).res = r
           /\ QueuedOnce(r) => QueuedOnce(r)' /\ ~(Queued(r)' /\ Head(taskQueue).res = r)
<1>1. /\ taskQueue \in Seq(Task) /\ Len(taskQueue) \in Nat \ {0}
      /\ Len(taskQueue') = Len(taskQueue) - 1
      /\ \A i \in 1 .. Len(taskQueue') : taskQueue'[i] = taskQueue[i + 1]
      /\ Head(taskQueue) = taskQueue[1]
  BY DEF TypeOK
<1>2. Queued(r) => Queued(r)' \/ Head(taskQueue).res = r
  <2>1. ASSUME NEW i \in 1 .. Len(taskQueue), taskQueue[i].res = r, i # 1
        PROVE  i - 1 \in 1 .. Len(taskQueue') /\ taskQueue'[i - 1].res = r
    BY <1>1, <2>1
  <2>2. QED
    BY <1>1, <2>1 DEF Queued
<1>3. Queued(r)' \/ Head(taskQueue).res = r => Queued(r)
  BY <1>1 DEF Queued
<1>4. QueuedOnce(r) => QueuedOnce(r)' /\ ~(Queued(r)' /\ Head(taskQueue).res = r)
  <2> SUFFICES ASSUME QueuedOnce(r)
               PROVE  QueuedOnce(r)' /\ ~(Queued(r)' /\ Head(taskQueue).res = r)
    OBVIOUS
  <2>1. QueuedOnce(r)'
    BY <1>1 DEF QueuedOnce
  <2>2. ASSUME NEW i \in 1 .. Len(taskQueue'), taskQueue'[i].res = r,
               Head(taskQueue).res = r
        PROVE  FALSE
    BY <1>1, <2>2 DEF QueuedOnce
  <2>3. QED
    BY <2>1, <2>2 DEF Queued
<1>5. QED
  BY <1>2, <1>3, <1>4

LEMMA QueuedCons ==
    ASSUME TypeOK, NEW t \in Task, taskQueue' = <<t>> \o taskQueue, NEW r
    PROVE  /\ Queued(r)' <=> Queued(r) \/ t.res = r
           /\ ~(Queued(r) /\ t.res = r) /\ QueuedOnce(r) => QueuedOnce(r)'
<1>1. /\ taskQueue \in Seq(Task) /\ Len(taskQueue) \in Nat
      /\ Len(taskQueue') = Len(taskQueue) + 1
      /\ taskQueue'[1] = t
      /\ \A i \in 1 .. Len(taskQueue) : taskQueue'[i + 1] = taskQueue[i]
      /\ \A i \in 2 .. Len(taskQueue) + 1 : taskQueue'[i] = taskQueue[i - 1]
  BY DEF TypeOK
<1>2. Queued(r)' => Queued(r) \/ t.res = r
  BY <1>1 DEF Queued
<1>3. Queued(r) \/ t.res = r => Queued(r)'
  <2>1. ASSUME NEW i \in 1 .. Len(taskQueue), taskQueue[i].res = r
        PROVE  i + 1 \in 1 .. Len(taskQueue') /\ taskQueue'[i + 1].res = r
    BY <1>1, <2>1
  <2>2. 1 \in 1 .. Len(taskQueue')
    BY <1>1
  <2>3. QED
    BY <1>1, <2>1, <2>2 DEF Queued
<1>4. ~(Queued(r) /\ t.res = r) /\ QueuedOnce(r) => QueuedOnce(r)'
  <2> SUFFICES ASSUME ~(Queued(r) /\ t.res = r), QueuedOnce(r),
                      NEW i \in 1 .. Len(taskQueue'), NEW j \in 1 .. Len(taskQueue'),
                      taskQueue'[i].res = r, taskQueue'[j].res = r
               PROVE  i = j
    BY DEF QueuedOnce
  <2>1. CASE i = 1 \/ j = 1
    BY <1>1, <2>1 DEF Queued
  <2>2. CASE i # 1 /\ j # 1
    <3>1. /\ i - 1 \in 1 .. Len(taskQueue) /\ j - 1 \in 1 .. Len(taskQueue)
          /\ taskQueue[i - 1].res = r /\ taskQueue[j - 1].res = r
      BY <1>1, <2>2
    <3>2. i - 1 = j - 1
      BY <3>1 DEF QueuedOnce
    <3>3. QED
      BY <1>1, <3>2
  <2>3. QED
    BY <2>1, <2>2
<1>5. QED
  BY <1>2, <1>3, <1>4

\* Only four actions move a message of the task queue.
LEMMA MessageSteps ==
    ASSUME [Next]_vars
    PROVE  \/ \E r \in Results, anon \in BOOLEAN : Publish(r, anon)
           \/ \E w \in Workers : Deliver(w) \/ Ack(w) \/ Crash(w)
           \/ UNCHANGED <<taskQueue, published, acked, task>>
<1> USE DEF brokers
<1>1. ASSUME NEW w \in Workers, Work(w)
      PROVE  Deliver(w) \/ Ack(w) \/ UNCHANGED <<taskQueue, published, acked, task>>
  BY <1>1 DEF Work, Exists, Create, Restart, Restarted, Declare, Consume, Poll, WakeUp,
              SendData, SendToken, SendFail
<1>2. ASSUME NEW w \in Workers, Fault(w)
      PROVE  Crash(w) \/ UNCHANGED <<taskQueue, published, acked, task>>
  BY <1>2 DEF Fault, PollTimeout, SendFails, ReportFails
<1>3. Cancel => UNCHANGED <<taskQueue, published, acked, task>>
  BY DEF Cancel, CancelBegins, CancelEnds
<1>4. ASSUME NEW r \in Results, Purge(r)
      PROVE  UNCHANGED <<taskQueue, published, acked, task>>
  BY <1>4 DEF Purge
<1>5. QED
  BY <1>1, <1>2, <1>3, <1>4 DEF Next, vars
\* A delivery gives the head of the queue to an idle worker.
LEMMA HeldDeliver ==
    ASSUME TypeOK, NEW w \in Workers, Deliver(w), NEW v \in Workers, NEW r
    PROVE  /\ Head(taskQueue) \in Task
           /\ HeldBy(v, r)' <=> IF v = w THEN Head(taskQueue).res = r ELSE HeldBy(v, r)
           /\ ~HeldBy(w, r)
<1>1. Head(taskQueue) \in Task /\ Head(taskQueue) # None
  BY CallAssumption DEF Deliver, TypeOK
<1>2. task[w] = None /\ task' = [task EXCEPT ![w] = Head(taskQueue)]
  BY DEF Deliver, TypeOK
<1>3. QED
  BY <1>1, <1>2 DEF HeldBy, Res, TypeOK

\* An acknowledgement or a crash takes the task out of the worker's hands.
LEMMA HeldReturn ==
    ASSUME TypeOK, NEW w \in Workers, Return(w), NEW v \in Workers, NEW r
    PROVE  HeldBy(v, r)' <=> v # w /\ HeldBy(v, r)
BY DEF Return, HeldBy, Res, TypeOK

LEMMA NoTaskLostStep == TypeOK /\ NoTaskLost /\ [Next]_vars => NoTaskLost'
<1> SUFFICES ASSUME TypeOK, NoTaskLost, [Next]_vars, NEW r \in Results,
                    published'[r] > 0
             PROVE  acked'[r] > 0 \/ Queued(r)' \/ Held(r)'
  BY DEF NoTaskLost
<1>1. published[r] > 0 => acked[r] > 0 \/ Queued(r) \/ Held(r)
  BY DEF NoTaskLost
<1>2. ASSUME NEW q \in Results, NEW anon \in BOOLEAN, Publish(q, anon)
      PROVE  acked'[r] > 0 \/ Queued(r)' \/ Held(r)'
  <2>1. [res |-> q, anon |-> anon] \in Task
    BY DEF Task
  <2>2. Queued(r)' <=> Queued(r) \/ q = r
    BY <1>2, <2>1, QueuedAppend DEF Publish, Enqueue
  <2>3. acked' = acked /\ task' = task /\ (q # r => published'[r] = published[r])
    BY <1>2 DEF Publish, Enqueue, TypeOK
  <2>4. Held(r)' <=> Held(r)
    BY <2>3 DEF Held, HeldBy, Res
  <2>5. QED
    BY <1>1, <2>2, <2>3, <2>4
<1>3. ASSUME NEW w \in Workers, Deliver(w)
      PROVE  acked'[r] > 0 \/ Queued(r)' \/ Held(r)'
  <2>1. Queued(r) <=> Queued(r)' \/ Head(taskQueue).res = r
    BY <1>3, QueuedTail DEF Deliver
  <2>2. Held(r) \/ Head(taskQueue).res = r => Held(r)'
    <3>1. \A v \in Workers : HeldBy(v, r)' <=>
              IF v = w THEN Head(taskQueue).res = r ELSE HeldBy(v, r)
      BY <1>3, HeldDeliver
    <3>2. ~HeldBy(w, r)
      BY <1>3, HeldDeliver
    <3>3. QED
      BY <3>1, <3>2 DEF Held
  <2>3. published' = published /\ acked' = acked
    BY <1>3 DEF Deliver
  <2>4. QED
    BY <1>1, <2>1, <2>2, <2>3
<1>4. ASSUME NEW w \in Workers, Ack(w)
      PROVE  acked'[r] > 0 \/ Queued(r)' \/ Held(r)'
  <2>1. /\ taskQueue' = taskQueue /\ published' = published /\ Return(w)
        /\ acked' = [acked EXCEPT ![Res(w)] = @ + 1]
        /\ Res(w) \in Results
    BY <1>4, BusyHasTask DEF Ack
  <2>2. CASE Res(w) = r
    BY <2>1, <2>2 DEF TypeOK
  <2>3. CASE Res(w) # r
    <3>1. Held(r) => Held(r)'
      BY <2>1, <2>3, HeldReturn DEF Held, HeldBy
    <3>2. acked'[r] = acked[r] /\ (Queued(r)' <=> Queued(r))
      BY <2>1, <2>3 DEF TypeOK, Queued
    <3>3. QED
      BY <1>1, <2>1, <3>1, <3>2
  <2>4. QED
    BY <2>2, <2>3
<1>5. ASSUME NEW w \in Workers, Crash(w)
      PROVE  acked'[r] > 0 \/ Queued(r)' \/ Held(r)'
  <2>1. published' = published /\ acked' = acked /\ Return(w)
    BY <1>5 DEF Crash
  <2>2. CASE task[w] = None
    <3>1. taskQueue' = taskQueue
      BY <1>5, <2>2 DEF Crash
    <3>2. (Queued(r) => Queued(r)') /\ (Held(r) => Held(r)')
      BY <2>1, <2>2, <3>1, HeldReturn DEF Held, HeldBy, Queued
    <3>3. QED
      BY <1>1, <2>1, <3>2
  <2>3. CASE task[w] # None
    <3>1. task[w] \in Task /\ taskQueue' = <<task[w]>> \o taskQueue
      BY <1>5, <2>3 DEF Crash, TypeOK
    <3>2. Queued(r)' <=> Queued(r) \/ task[w].res = r
      BY <3>1, QueuedCons
    <3>3. Held(r) => Held(r)' \/ task[w].res = r
      BY <2>1, HeldReturn DEF Held, HeldBy, Res
    <3>4. QED
      BY <1>1, <2>1, <3>2, <3>3
  <2>4. QED
    BY <2>2, <2>3
<1>6. CASE UNCHANGED <<taskQueue, published, acked, task>>
  BY <1>1, <1>6 DEF Queued, Held, HeldBy, Res
<1>7. QED
  BY <1>2, <1>3, <1>4, <1>5, <1>6, MessageSteps

\* No task is lost: whatever workers crash and whatever sends fail, a published
\* call waits in the task queue, is in some worker's hands, or is acknowledged.
THEOREM TasksAreNotLost == Spec => []NoTaskLost
<1>1. Init => NoTaskLost
  BY DEF Init, NoTaskLost
<1>2. TypeOK /\ NoTaskLost /\ [Next]_vars => NoTaskLost'
  BY NoTaskLostStep
<1>3. QED
  BY <1>1, <1>2, TypeCorrect, PTL DEF Spec

-----------------------------------------------------------------------------
(* One producer. *)

LEMMA OnePlaceInit == Init => OnePlace
BY CallAssumption DEF Init, OnePlace, Queued, QueuedOnce, Held, HeldOnce, HeldBy

LEMMA OnePlaceStep == TypeOK /\ OnePlace /\ [Next]_vars => OnePlace'
<1> SUFFICES ASSUME TypeOK, OnePlace, [Next]_vars, NEW r \in Results
             PROVE  /\ Queued(r)' \/ Held(r)' => published'[r] > 0
                    /\ published'[r] =< 1 =>
                         QueuedOnce(r)' /\ HeldOnce(r)' /\ ~(Queued(r)' /\ Held(r)')
  BY DEF OnePlace
<1> DEFINE Goal == /\ Queued(r)' \/ Held(r)' => published'[r] > 0
                   /\ published'[r] =< 1 =>
                        QueuedOnce(r)' /\ HeldOnce(r)' /\ ~(Queued(r)' /\ Held(r)')
<1>1. /\ Queued(r) \/ Held(r) => published[r] > 0
      /\ published[r] =< 1 =>
           QueuedOnce(r) /\ HeldOnce(r) /\ ~(Queued(r) /\ Held(r))
      /\ published[r] \in Nat
  BY DEF OnePlace, TypeOK
<1>2. ASSUME NEW q \in Results, NEW anon \in BOOLEAN, Publish(q, anon)
      PROVE  Goal
  <2>1. [res |-> q, anon |-> anon] \in Task
    BY DEF Task
  <2>2. /\ Queued(r)' <=> Queued(r) \/ q = r
        /\ ~(Queued(r) /\ q = r) /\ QueuedOnce(r) => QueuedOnce(r)'
    BY <1>2, <2>1, QueuedAppend DEF Publish, Enqueue
  <2>3. /\ task' = task
        /\ published'[r] = IF q = r THEN published[r] + 1 ELSE published[r]
    BY <1>2 DEF Publish, Enqueue, TypeOK
  <2>4. (Held(r)' <=> Held(r)) /\ (HeldOnce(r)' <=> HeldOnce(r))
    BY <2>3 DEF Held, HeldOnce, HeldBy, Res
  <2>5. QED
    BY <1>1, <2>2, <2>3, <2>4
<1>3. ASSUME NEW w \in Workers, Deliver(w)
      PROVE  Goal
  <2>1. /\ Queued(r) <=> Queued(r)' \/ Head(taskQueue).res = r
        /\ QueuedOnce(r) => QueuedOnce(r)' /\ ~(Queued(r)' /\ Head(taskQueue).res = r)
    BY <1>3, QueuedTail DEF Deliver
  <2>2. /\ \A v \in Workers : HeldBy(v, r)' <=>
              IF v = w THEN Head(taskQueue).res = r ELSE HeldBy(v, r)
        /\ ~HeldBy(w, r)
    BY <1>3, HeldDeliver
  <2>3. Held(r)' <=> Held(r) \/ Head(taskQueue).res = r
    BY <2>2 DEF Held
  <2>4. HeldOnce(r) /\ ~(Queued(r) /\ Held(r)) => HeldOnce(r)'
    BY <2>1, <2>2 DEF Held, HeldOnce
  <2>5. published' = published
    BY <1>3 DEF Deliver
  <2>6. QED
    BY <1>1, <2>1, <2>3, <2>4, <2>5
<1>4. ASSUME NEW w \in Workers, Ack(w)
      PROVE  Goal
  <2>1. taskQueue' = taskQueue /\ published' = published /\ Return(w)
    BY <1>4 DEF Ack
  <2>2. \A v \in Workers : HeldBy(v, r)' => HeldBy(v, r)
    BY <2>1, HeldReturn
  <2>3. (Held(r)' => Held(r)) /\ (HeldOnce(r) => HeldOnce(r)')
    BY <2>2 DEF Held, HeldOnce
  <2>4. (Queued(r)' <=> Queued(r)) /\ (QueuedOnce(r)' <=> QueuedOnce(r))
    BY <2>1 DEF Queued, QueuedOnce
  <2>5. QED
    BY <1>1, <2>1, <2>3, <2>4
<1>5. ASSUME NEW w \in Workers, Crash(w)
      PROVE  Goal
  <2>1. published' = published /\ Return(w)
    BY <1>5 DEF Crash
  <2>2. \A v \in Workers : HeldBy(v, r)' <=> v # w /\ HeldBy(v, r)
    BY <2>1, HeldReturn
  <2>3. (Held(r)' => Held(r)) /\ (HeldOnce(r) => HeldOnce(r)')
    BY <2>2 DEF Held, HeldOnce
  <2>4. CASE task[w] = None
    <3>1. taskQueue' = taskQueue
      BY <1>5, <2>4 DEF Crash
    <3>2. (Queued(r)' <=> Queued(r)) /\ (QueuedOnce(r)' <=> QueuedOnce(r))
      BY <3>1 DEF Queued, QueuedOnce
    <3>3. QED
      BY <1>1, <2>1, <2>3, <3>2
  <2>5. CASE task[w] # None
    <3>1. task[w] \in Task /\ taskQueue' = <<task[w]>> \o taskQueue
      BY <1>5, <2>5 DEF Crash, TypeOK
    <3>2. /\ Queued(r)' <=> Queued(r) \/ task[w].res = r
          /\ ~(Queued(r) /\ task[w].res = r) /\ QueuedOnce(r) => QueuedOnce(r)'
      BY <3>1, QueuedCons
    <3>3. task[w].res = r => HeldBy(w, r) /\ Held(r)
      BY <2>5 DEF HeldBy, Held, Res
    <3>4. HeldOnce(r) /\ task[w].res = r => ~Held(r)'
      BY <2>2, <3>3 DEF Held, HeldOnce
    <3>5. QED
      BY <1>1, <2>1, <2>3, <3>2, <3>3, <3>4
  <2>6. QED
    BY <2>4, <2>5
<1>6. CASE UNCHANGED <<taskQueue, published, acked, task>>
  BY <1>1, <1>6 DEF Queued, QueuedOnce, Held, HeldOnce, HeldBy, Res
<1>7. QED
  BY <1>2, <1>3, <1>4, <1>5, <1>6, MessageSteps

\* The message of a call published once is in one place.
THEOREM MessagesAreUnique == Spec => []OnePlace
<1>1. Init => OnePlace
  BY OnePlaceInit
<1>2. TypeOK /\ OnePlace /\ [Next]_vars => OnePlace'
  BY OnePlaceStep
<1>3. QED
  BY <1>1, <1>2, TypeCorrect, PTL DEF Spec

\* A call published once never has two workers, so that its result never has
\* two producers, whatever crashes and is delivered again.
THEOREM OneProducer == Spec => []SingleProducer
<1>1. OnePlace => SingleProducer
  BY DEF OnePlace, SingleProducer
<1>2. QED
  BY <1>1, MessagesAreUnique, PTL
-----------------------------------------------------------------------------
(* Every message is accounted for. *)

\* The places of call r in a queue, and the workers that hold its messages.
Places(s, r) == {i \in 1 .. Len(s) : s[i].res = r}
Holders(r) == {w \in Workers : HeldBy(w, r)}

\* Each message of a call is in the queue, with a worker or acknowledged, and in one
\* of these places only: none is lost and none is doubled.
MessagesConserved ==
    \A r \in Results :
        /\ IsFiniteSet(Holders(r))
        /\ published[r] =
               Cardinality(Places(taskQueue, r)) + Cardinality(Holders(r)) + acked[r]

LEMMA PlacesFinite ==
    ASSUME NEW s \in Seq(Task), NEW r
    PROVE  IsFiniteSet(Places(s, r)) /\ Cardinality(Places(s, r)) \in Nat
<1>1. IsFiniteSet(1 .. Len(s)) /\ Places(s, r) \in SUBSET (1 .. Len(s))
  BY FS_Interval DEF Places
<1>2. IsFiniteSet(Places(s, r))
  BY <1>1, FS_Subset
<1>3. QED
  BY <1>2, FS_CardinalityType

LEMMA PlacesAppend ==
    ASSUME NEW s \in Seq(Task), NEW t \in Task, NEW r
    PROVE  Cardinality(Places(Append(s, t), r)) =
               Cardinality(Places(s, r)) + IF t.res = r THEN 1 ELSE 0
<1> DEFINE n == Len(s) + 1
<1>1. /\ Len(s) \in Nat /\ Len(Append(s, t)) = n /\ Append(s, t)[n] = t
      /\ \A i \in 1 .. Len(s) : Append(s, t)[i] = s[i]
  OBVIOUS
<1>2. Places(Append(s, t), r) = IF t.res = r THEN Places(s, r) \cup {n} ELSE Places(s, r)
  BY <1>1 DEF Places
<1>3. n \notin Places(s, r)
  BY <1>1 DEF Places
<1>4. IsFiniteSet(Places(s, r)) /\ Cardinality(Places(s, r)) \in Nat
  BY PlacesFinite
<1>5. Cardinality(Places(s, r) \cup {n}) = Cardinality(Places(s, r)) + 1
  BY <1>3, <1>4, FS_AddElement
<1>6. QED
  BY <1>2, <1>4, <1>5

\* A message put in front moves every other one back by one place.
LEMMA PlacesCons ==
    ASSUME NEW s \in Seq(Task), NEW t \in Task, NEW r
    PROVE  Cardinality(Places(<<t>> \o s, r)) =
               Cardinality(Places(s, r)) + IF t.res = r THEN 1 ELSE 0
<1> DEFINE u == <<t>> \o s
           Moved == {i \in 2 .. Len(u) : u[i].res = r}
           f == [i \in Places(s, r) |-> i + 1]
<1>1. /\ Len(s) \in Nat /\ Len(u) = Len(s) + 1 /\ u[1] = t
      /\ \A i \in 1 .. Len(s) : u[i + 1] = s[i]
      /\ \A i \in 2 .. Len(u) : i - 1 \in 1 .. Len(s) /\ u[i] = s[i - 1]
  OBVIOUS
<1> HIDE DEF u
<1>2. f \in Bijection(Places(s, r), Moved)
  <2>1. f \in [Places(s, r) -> Moved]
    BY <1>1 DEF Places
  <2>2. \A i, j \in Places(s, r) : f[i] = f[j] => i = j
    BY DEF Places
  <2>3. \A k \in Moved : k - 1 \in Places(s, r) /\ f[k - 1] = k
    BY <1>1 DEF Places
  <2>4. QED
    BY <2>1, <2>2, <2>3 DEF Bijection, Injection, Surjection, IsInjective
<1>3. IsFiniteSet(Moved) /\ Cardinality(Moved) = Cardinality(Places(s, r))
  <2>1. ExistsBijection(Places(s, r), Moved)
    BY <1>2 DEF ExistsBijection
  <2>2. QED
    BY <2>1, PlacesFinite, FS_Bijection
<1>4. Places(u, r) = IF t.res = r THEN Moved \cup {1} ELSE Moved
  BY <1>1 DEF Places
<1>5. 1 \notin Moved /\ Cardinality(Places(s, r)) \in Nat
  BY PlacesFinite
<1> HIDE DEF Moved
<1>6. Cardinality(Moved \cup {1}) = Cardinality(Places(s, r)) + 1
  BY <1>3, <1>5, FS_AddElement
<1>7. Cardinality(Places(u, r)) = Cardinality(Places(s, r)) + IF t.res = r THEN 1 ELSE 0
  BY <1>3, <1>4, <1>5, <1>6
<1>8. QED
  BY <1>7 DEF u

LEMMA PlacesTail ==
    ASSUME NEW s \in Seq(Task), s # <<>>, NEW r
    PROVE  Cardinality(Places(s, r)) =
               Cardinality(Places(Tail(s), r)) + IF Head(s).res = r THEN 1 ELSE 0
<1>1. Head(s) \in Task /\ Tail(s) \in Seq(Task) /\ s = <<Head(s)>> \o Tail(s)
  OBVIOUS
<1>2. QED
  BY <1>1, PlacesCons

LEMMA ConservedStep == TypeOK /\ MessagesConserved /\ [Next]_vars => MessagesConserved'
<1> SUFFICES ASSUME TypeOK, MessagesConserved, [Next]_vars, NEW r \in Results
             PROVE  /\ IsFiniteSet(Holders(r))'
                    /\ published'[r] = Cardinality(Places(taskQueue', r)) +
                                       Cardinality(Holders(r)') + acked'[r]
  BY DEF MessagesConserved
<1> DEFINE queued == Cardinality(Places(taskQueue, r))
           inHands == Cardinality(Holders(r))
<1>1. /\ IsFiniteSet(Holders(r)) /\ published[r] = queued + inHands + acked[r]
      /\ queued \in Nat /\ inHands \in Nat /\ acked[r] \in Nat /\ published[r] \in Nat
      /\ taskQueue \in Seq(Task)
  <2>1. taskQueue \in Seq(Task) /\ acked[r] \in Nat /\ published[r] \in Nat
    BY DEF TypeOK
  <2>2. IsFiniteSet(Holders(r)) /\ published[r] = queued + inHands + acked[r]
    BY DEF MessagesConserved
  <2>3. QED
    BY <2>1, <2>2, PlacesFinite, FS_CardinalityType
<1>2. ASSUME NEW q \in Results, NEW anon \in BOOLEAN, Publish(q, anon)
      PROVE  /\ IsFiniteSet(Holders(r))'
             /\ published'[r] = Cardinality(Places(taskQueue', r)) +
                                Cardinality(Holders(r)') + acked'[r]
  <2> DEFINE t == [res |-> q, anon |-> anon]
  <2>1. /\ t \in Task /\ t.res = q /\ taskQueue' = Append(taskQueue, t)
        /\ acked' = acked /\ task' = task
        /\ published'[r] = IF q = r THEN published[r] + 1 ELSE published[r]
    BY <1>2 DEF Publish, Enqueue, TypeOK, Task
  <2> HIDE DEF t
  <2>2. Holders(r)' = Holders(r)
    BY <2>1 DEF Holders, HeldBy, Res
  <2>3. Cardinality(Places(taskQueue', r)) = queued + IF q = r THEN 1 ELSE 0
    BY <1>1, <2>1, PlacesAppend
  <2>4. QED
    BY <1>1, <2>1, <2>2, <2>3
<1>3. ASSUME NEW w \in Workers, Deliver(w)
      PROVE  /\ IsFiniteSet(Holders(r))'
             /\ published'[r] = Cardinality(Places(taskQueue', r)) +
                                Cardinality(Holders(r)') + acked'[r]
  <2>1. /\ taskQueue # <<>> /\ taskQueue' = Tail(taskQueue)
        /\ UNCHANGED <<published, acked>>
    BY <1>3 DEF Deliver
  <2>2. Holders(r)' = IF Head(taskQueue).res = r THEN Holders(r) \cup {w} ELSE Holders(r)
    BY <1>3, HeldDeliver DEF Holders
  <2>3. w \notin Holders(r)
    BY <1>3, HeldDeliver DEF Holders
  <2>4. queued = Cardinality(Places(taskQueue', r)) + IF Head(taskQueue).res = r THEN 1 ELSE 0
    BY <1>1, <2>1, PlacesTail
  <2>5. Cardinality(Places(taskQueue', r)) \in Nat
    <3>1. Tail(taskQueue) \in Seq(Task)
      BY <1>1, <2>1
    <3>2. QED
      BY <2>1, <3>1, PlacesFinite
  <2>6. /\ IsFiniteSet(Holders(r)')
        /\ Cardinality(Holders(r)') = inHands + IF Head(taskQueue).res = r THEN 1 ELSE 0
    <3>1. /\ IsFiniteSet(Holders(r) \cup {w})
          /\ Cardinality(Holders(r) \cup {w}) = inHands + 1
      BY <1>1, <2>3, FS_AddElement
    <3>2. QED
      BY <1>1, <2>2, <3>1
  <2>7. QED
    BY <1>1, <2>1, <2>4, <2>5, <2>6
<1>4. ASSUME NEW w \in Workers, Return(w), task[w] # None
      PROVE  /\ IsFiniteSet(Holders(r)')
             /\ inHands = Cardinality(Holders(r)') + IF Res(w) = r THEN 1 ELSE 0
             /\ Cardinality(Holders(r)') \in Nat
  <2>1. Holders(r)' = Holders(r) \ {w}
    BY <1>4, HeldReturn DEF Holders
  <2>2. w \in Holders(r) <=> Res(w) = r
    BY <1>4 DEF Holders, HeldBy
  <2>3. IsFiniteSet(Holders(r)') /\ Cardinality(Holders(r)') \in Nat
    BY <1>1, <2>1, FS_RemoveElement, FS_CardinalityType
  <2>4. QED
    BY <1>1, <2>1, <2>2, <2>3, FS_RemoveElement
<1>5. ASSUME NEW w \in Workers, Ack(w)
      PROVE  /\ IsFiniteSet(Holders(r))'
             /\ published'[r] = Cardinality(Places(taskQueue', r)) +
                                Cardinality(Holders(r)') + acked'[r]
  <2>1. /\ UNCHANGED <<taskQueue, published>> /\ Return(w) /\ task[w] # None
        /\ Res(w) \in Results /\ acked' = [acked EXCEPT ![Res(w)] = @ + 1]
    BY <1>5, BusyHasTask, CallAssumption DEF Ack
  <2>2. acked'[r] = acked[r] + IF Res(w) = r THEN 1 ELSE 0
    BY <1>1, <2>1 DEF TypeOK
  <2>3. /\ IsFiniteSet(Holders(r)')
        /\ inHands = Cardinality(Holders(r)') + IF Res(w) = r THEN 1 ELSE 0
        /\ Cardinality(Holders(r)') \in Nat
    BY <1>4, <2>1
  <2>4. QED
    BY <1>1, <2>1, <2>2, <2>3
<1>6. ASSUME NEW w \in Workers, Crash(w)
      PROVE  /\ IsFiniteSet(Holders(r))'
             /\ published'[r] = Cardinality(Places(taskQueue', r)) +
                                Cardinality(Holders(r)') + acked'[r]
  <2>1. UNCHANGED <<published, acked>> /\ Return(w)
    BY <1>6 DEF Crash
  <2>2. CASE task[w] = None
    <3>1. taskQueue' = taskQueue /\ Holders(r)' = Holders(r)
      BY <1>6, <2>1, <2>2, HeldReturn DEF Crash, Holders, HeldBy
    <3>2. QED
      BY <1>1, <2>1, <3>1
  <2>3. CASE task[w] # None
    <3>1. task[w] \in Task /\ taskQueue' = <<task[w]>> \o taskQueue
      BY <1>6, <2>3 DEF Crash, TypeOK
    <3>2. Cardinality(Places(taskQueue', r)) = queued + IF Res(w) = r THEN 1 ELSE 0
      BY <1>1, <3>1, PlacesCons DEF Res
    <3>3. QED
      BY <1>1, <1>4, <2>1, <2>3, <3>2
  <2>4. QED
    BY <2>2, <2>3
<1>7. CASE UNCHANGED <<taskQueue, published, acked, task>>
  <2>1. Holders(r)' = Holders(r)
    BY <1>7 DEF Holders, HeldBy, Res
  <2>2. QED
    BY <1>1, <1>7, <2>1
<1>8. QED
  BY <1>2, <1>3, <1>5, <1>6, <1>7, MessageSteps

\* However often calls are published and whatever crashes, the messages of a call are
\* its queued ones, its held ones and its acknowledged ones: at-least-once delivery
\* redelivers what was not acknowledged, but acknowledges nothing twice.
THEOREM MessagesAreConserved == Spec => []MessagesConserved
<1>1. Init => MessagesConserved
  <2>1. Init => \A r \in Results :
            /\ Places(taskQueue, r) = {} /\ Holders(r) = {}
            /\ published[r] = 0 /\ acked[r] = 0
    BY DEF Init, Places, Holders, HeldBy
  <2>2. QED
    BY <2>1, FS_EmptySet DEF MessagesConserved
<1>2. TypeOK /\ MessagesConserved /\ [Next]_vars => MessagesConserved'
  BY ConservedStep
<1>3. QED
  BY <1>1, <1>2, TypeCorrect, PTL DEF Spec
=============================================================================
