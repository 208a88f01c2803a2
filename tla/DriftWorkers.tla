----------------------------- MODULE DriftWorkers -----------------------------
(***************************************************************************)
(* The distributed half of Drift: the workers (CmdLineWorker.java), the    *)
(* services they run (Emitter, ErrEmitter, Err, Cat, Square) and the three *)
(* brokers they meet in: the RabbitMQ task queue and signal queues, the    *)
(* Kafka result topics, and the ZooKeeper nodes that record that a result  *)
(* has been started.                                                       *)
(*                                                                         *)
(* A result is named by the hash of the service call that computes it      *)
(* (CmdInfo.servicesHash), so a member of Results stands for that call and *)
(* for the topic, the signal queue and the node that carry its hash.       *)
(***************************************************************************)
EXTENDS Integers, Sequences, FiniteSets

CONSTANTS
    Workers,          \* worker processes
    Results,          \* service calls, each the name of its result
    None,             \* no task, no input
    Kind,             \* the service a call runs
    Input,            \* the result a call reads (argNames.get(0)), or None
    Items,            \* items an emitter sends before its token (30 or 3)
    Copies,           \* bound: how often one call is published
    Crashable,        \* calls during which a worker may crash
    MaxCrashes,       \* bound on worker crashes
    MaxSendFailures,  \* bound on Kafka sends that throw
    MaxTimeouts       \* bound on polls that find nothing for MAX_POLL ms

Sources   == {"emitter", "errEmitter", "err"}
Consumers == {"cat", "square"}

(***************************************************************************)
(* A task message: the call, and whether the command that asked for it had *)
(* no target (an anonymous command).                                       *)
(***************************************************************************)
Task == [res : Results, anon : BOOLEAN]

ASSUME CallAssumption ==
    /\ None \notin Results /\ None \notin Task
    /\ Kind \in [Results -> Sources \cup Consumers]
    /\ Input \in [Results -> Results \cup {None}]
    /\ \A r \in Results : Kind[r] \in Consumers => Input[r] \in Results \ {r}

ASSUME BoundAssumption ==
    /\ Items \in Nat /\ Copies \in Nat
    /\ MaxCrashes \in Nat /\ MaxSendFailures \in Nat /\ MaxTimeouts \in Nat
    /\ Crashable \subseteq Results

(***************************************************************************)
(* A Kafka record.  A data record carries the producer's counter as its    *)
(* key; its value is the number of the source item it was computed from.   *)
(***************************************************************************)
Record == [tok : {"data", "eof", "err"}, key : Nat, val : Nat]
Data(k, v) == [tok |-> "data", key |-> k, val |-> v]
Eof == [tok |-> "eof", key |-> 0, val |-> 0]
Err == [tok |-> "err", key |-> 0, val |-> 0]

Begin == -1   \* a consumer position not yet resolved after seekToBeginning

\* A deleteListener: the signal queue it consumes, the result it protects,
\* and the worker and delivery that registered it.
Listener == [on : Results, out : Results, w : Workers, id : Nat]

\* A running handleCancel of a listener; from is the end of the topic when
\* its purge began.
Callback == [lst : Listener, st : {"cancelled", "purging", "closing"}, from : Nat]

VARIABLES
    taskQueue,    \* RabbitMQ TASK queue, head first
    published,    \* published[r]: messages sent so far for call r
    acked,        \* acked[r]: messages of call r acknowledged so far
    zk,           \* ZooKeeper nodes
    signal,       \* declared signal queues
    listeners,    \* registered deleteListeners
    callbacks,    \* handleCancel calls in progress
    log,          \* log[r]: every record ever appended to topic r
    base,         \* base[r]: how many of them retention has deleted
    short,        \* topics whose retention.ms is set to 1000
    topics,       \* topics that exist
    failTopic,    \* set of names published on the "fail" topic
    pc,           \* control state of each worker's handleDelivery
    task,         \* unacknowledged task of each worker
    run,          \* delivery number of that task
    pos,          \* position of the service's Kafka consumer
    key,          \* the service's key counter
    held,         \* item read and not yet sent on
    mark,         \* end of the topic when the worker's own purge began
    wake,         \* wakeup() called and not yet thrown
    deliveries,   \* deliveries so far, numbers the runs
    crashes, sendFailures, timeouts   \* faults so far

brokers == <<taskQueue, published, acked, zk>>
signals == <<signal, listeners, callbacks>>
kafka   == <<log, base, short, topics, failTopic>>
local   == <<run, pos, key, held, mark, wake>>
faults  == <<crashes, sendFailures, timeouts>>
vars == <<brokers, signals, kafka, pc, task, local, deliveries, faults>>

-----------------------------------------------------------------------------
(* Helpers on topics and signal queues. *)

Visible(r) == SubSeq(log[r], base[r] + 1, Len(log[r]))
DataAt(r)  == {i \in base[r] + 1 .. Len(log[r]) : log[r][i].tok = "data"}
Closed(r)  == \E i \in base[r] + 1 .. Len(log[r]) : log[r][i].tok # "data"
EndsWith(r, t) == Len(log[r]) > base[r] /\ log[r][Len(log[r])].tok = t

Send(r, rec) ==
    /\ log' = [log EXCEPT ![r] = Append(@, rec)]
    /\ topics' = topics \cup {r}

Cancelled(q) == {l \in listeners : l.on = q}
Fired(q) == {[lst |-> l, st |-> "cancelled", from |-> 0] : l \in Cancelled(q)}

\* The result worker w computes, and the topic its service reads.
Res(w) == task[w].res
In(w)  == Input[Res(w)]
Does(w, kinds) == task[w] # None /\ Kind[Res(w)] \in kinds

\* Variant: deleteTopic does not wait.
PurgedAtOnce(r, from) == TRUE

\* deleteTopic waits 5 s with the retention at 1 s, and the broker looks
\* every second: what the topic held at the start is gone at the end,
\* unless a later record kept the segment young or somebody else set the
\* retention back.
Purged(r, from) == base[r] >= from \/ Len(log[r]) > from \/ r \notin short

\* kafka-configs lowers the retention of a topic that exists, and fails otherwise.
Lowered(r) == short \cup ({r} \cap topics)
-----------------------------------------------------------------------------
Init ==
    /\ taskQueue = <<>>
    /\ published = [r \in Results |-> 0]
    /\ acked = [r \in Results |-> 0]
    /\ zk = {}
    /\ signal = {} /\ listeners = {} /\ callbacks = {}
    /\ log = [r \in Results |-> <<>>]
    /\ base = [r \in Results |-> 0]
    /\ short = {} /\ topics = {} /\ failTopic = {}
    /\ pc = [w \in Workers |-> "idle"]
    /\ task = [w \in Workers |-> None]
    /\ run = [w \in Workers |-> 0]
    /\ pos = [w \in Workers |-> Begin]
    /\ key = [w \in Workers |-> 0]
    /\ held = [w \in Workers |-> 0]
    /\ mark = [w \in Workers |-> 0]
    /\ wake = [w \in Workers |-> FALSE]
    /\ deliveries = 0
    /\ crashes = 0 /\ sendFailures = 0 /\ timeouts = 0

\* basicPublish of a task, at most Copies times for a call.
Enqueue(r, anon) ==
    /\ published[r] < Copies
    /\ taskQueue' = Append(taskQueue, [res |-> r, anon |-> anon])
    /\ published' = [published EXCEPT ![r] = @ + 1]
    /\ UNCHANGED <<acked, zk, signals, kafka, pc, task, local, deliveries, faults>>

(***************************************************************************)
(* What the workers see of the shells: a call is published after the call  *)
(* whose result it reads.  Module Drift has the shells themselves, and its *)
(* proofs show that they keep to this.                                     *)
(***************************************************************************)
Publish(r, anon) ==
    /\ Input[r] # None => published[Input[r]] > 0
    /\ Enqueue(r, anon)

\* Variant: basicConsume with automatic acknowledgement.
DeliverAcked(w) ==
    /\ pc[w] = "idle" /\ taskQueue # <<>>
    /\ task' = [task EXCEPT ![w] = Head(taskQueue)]
    /\ taskQueue' = Tail(taskQueue)
    /\ acked' = [acked EXCEPT ![Head(taskQueue).res] = @ + 1]
    /\ signal' = signal \cup {Head(taskQueue).res}
    /\ deliveries' = deliveries + 1
    /\ run' = [run EXCEPT ![w] = deliveries + 1]
    /\ pc' = [pc EXCEPT ![w] = "exists"]
    /\ UNCHANGED <<published, zk, listeners, callbacks, kafka, pos, key,
                   held, mark, wake, faults>>

(***************************************************************************)
(* handleDelivery, handleCmd and the head of execNameCmd: the task is      *)
(* taken without being acknowledged, and its signal queue is declared.     *)
(***************************************************************************)
Deliver(w) ==
    /\ pc[w] = "idle" /\ taskQueue # <<>>
    /\ task' = [task EXCEPT ![w] = Head(taskQueue)]
    /\ taskQueue' = Tail(taskQueue)
    /\ signal' = signal \cup {Head(taskQueue).res}
    /\ deliveries' = deliveries + 1
    /\ run' = [run EXCEPT ![w] = deliveries + 1]
    /\ pc' = [pc EXCEPT ![w] = "exists"]
    /\ UNCHANGED <<published, acked, zk, listeners, callbacks, kafka, pos, key,
                   held, mark, wake, faults>>

\* Variant: the test is whether the result's topic exists.
ExistsByTopic(w) ==
    /\ pc[w] = "exists"
    /\ pc' = [pc EXCEPT ![w] = IF Res(w) \in topics THEN "restart" ELSE "create"]
    /\ UNCHANGED <<brokers, signals, kafka, task, local, deliveries, faults>>

\* zk.exists: a node means that the result was started before.
Exists(w) ==
    /\ pc[w] = "exists"
    /\ pc' = [pc EXCEPT ![w] = IF Res(w) \in zk THEN "restart" ELSE "create"]
    /\ UNCHANGED <<brokers, signals, kafka, task, local, deliveries, faults>>

\* The head of Service.run.  Its locals are those of Init: see Return.
StartService(w) ==
    pc' = [pc EXCEPT ![w] =
             IF Kind[Res(w)] \in {"emitter", "errEmitter"} THEN "loop" ELSE "declare"]

\* Variant: the worker forgets to let go of its task.
ReturnHolding(w) ==
    /\ UNCHANGED <<task, mark>>
    /\ pc' = [pc EXCEPT ![w] = "idle"]
    /\ pos' = [pos EXCEPT ![w] = Begin]
    /\ key' = [key EXCEPT ![w] = 0]
    /\ held' = [held EXCEPT ![w] = 0]
    /\ wake' = [wake EXCEPT ![w] = FALSE]

\* The locals of a delivery do not outlive it: the next run of a service seeks
\* to the beginning of its input and counts its keys from 0.
Return(w) ==
    /\ task' = [task EXCEPT ![w] = None]
    /\ pc' = [pc EXCEPT ![w] = "idle"]
    /\ pos' = [pos EXCEPT ![w] = Begin]
    /\ key' = [key EXCEPT ![w] = 0]
    /\ held' = [held EXCEPT ![w] = 0]
    /\ mark' = [mark EXCEPT ![w] = 0]
    /\ wake' = [wake EXCEPT ![w] = FALSE]

(***************************************************************************)
(* zk.create.  If another worker created the node since, NodeExists is     *)
(* caught at the end of execNameCmd and the task is acknowledged unrun.    *)
(***************************************************************************)
Create(w) ==
    /\ pc[w] = "create"
    /\ \/ /\ Res(w) \notin zk
          /\ zk' = zk \cup {Res(w)}
          /\ StartService(w)
       \/ /\ Res(w) \in zk
          /\ pc' = [pc EXCEPT ![w] = "ack"]
          /\ UNCHANGED zk
    /\ UNCHANGED <<taskQueue, published, acked, signals, kafka, task, local,
                   deliveries, faults>>

(***************************************************************************)
(* The restart branch of execNameCmd: delete the signal queue, which       *)
(* cancels every listener on it, and lower the retention of the topic.     *)
(***************************************************************************)
Restart(w) ==
    /\ pc[w] = "restart"
    /\ signal' = signal \ {Res(w)}
    /\ listeners' = listeners \ Cancelled(Res(w))
    /\ callbacks' = callbacks \cup Fired(Res(w))
    /\ short' = Lowered(Res(w))
    /\ mark' = [mark EXCEPT ![w] = Len(log[Res(w)])]
    /\ pc' = [pc EXCEPT ![w] = "purging"]
    /\ UNCHANGED <<brokers, log, base, topics, failTopic, task, run, pos, key, held,
                   wake, deliveries, faults>>

\* The end of deleteTopic, the second queueDelete, and the service.
Restarted(w) ==
    /\ pc[w] = "purging"
    /\ Purged(Res(w), mark[w])
    /\ short' = short \ {Res(w)}
    /\ signal' = signal \ {Res(w)}
    /\ listeners' = listeners \ Cancelled(Res(w))
    /\ callbacks' = callbacks \cup Fired(Res(w))
    /\ mark' = [mark EXCEPT ![w] = 0]
    /\ StartService(w)
    /\ UNCHANGED <<brokers, log, base, topics, failTopic, task, run, pos, key, held,
                   wake, deliveries, faults>>

\* Kafka deletes the records of a topic whose retention is 1 s.
Purge(r) ==
    /\ r \in short /\ base[r] < Len(log[r])
    /\ base' = [base EXCEPT ![r] = Len(log[r])]
    /\ UNCHANGED <<brokers, signals, log, short, topics, failTopic, pc, task, local,
                   deliveries, faults>>

(***************************************************************************)
(* A service that listens declares a signal queue and then consumes it:    *)
(* Cat and Square that of their input, Err that of its own result (its     *)
(* listener only closes the channel and is left out).  If the queue was    *)
(* deleted in between, basicConsume throws and run returns.                *)
(***************************************************************************)
SignalOf(w) == IF Does(w, {"err"}) THEN Res(w) ELSE In(w)

Declare(w) ==
    /\ pc[w] = "declare"
    /\ signal' = signal \cup {SignalOf(w)}
    /\ pc' = [pc EXCEPT ![w] = "consume"]
    /\ UNCHANGED <<brokers, listeners, callbacks, kafka, task, local, deliveries,
                   faults>>

Consume(w) ==
    /\ pc[w] = "consume"
    /\ \/ /\ SignalOf(w) \in signal /\ Does(w, {"err"})
          /\ pc' = [pc EXCEPT ![w] = "err"]
          /\ UNCHANGED <<listeners, topics>>
       \/ /\ SignalOf(w) \in signal /\ Does(w, Consumers)
          /\ listeners' = listeners \cup
                {[on |-> In(w), out |-> Res(w), w |-> w, id |-> run[w]]}
          /\ topics' = topics \cup {In(w)}     \* created by the first poll
          /\ pc' = [pc EXCEPT ![w] = "loop"]
       \/ /\ SignalOf(w) \notin signal
          /\ pc' = [pc EXCEPT ![w] = IF Does(w, {"err"}) THEN "fail" ELSE "ack"]
          /\ UNCHANGED <<listeners, topics>>
    /\ UNCHANGED <<brokers, signal, callbacks, log, base, short, failTopic, task,
                   local, deliveries, faults>>

\* Variant: no seekToBeginning, so a new consumer starts at the end.
PositionLatest(w) == IF pos[w] = Begin THEN Len(log[In(w)]) ELSE pos[w]

(***************************************************************************)
(* One turn of the poll loop of Cat and Square.  A position that retention *)
(* has overtaken is out of range, and the client goes to the end of the    *)
(* topic (auto.offset.reset is left at "latest").                          *)
(***************************************************************************)
Position(w) == IF pos[w] = Begin THEN base[In(w)] ELSE pos[w]

Poll(w) ==
    /\ pc[w] = "loop" /\ Does(w, Consumers)
    /\ \/ /\ Position(w) < base[In(w)]
          /\ pos' = [pos EXCEPT ![w] = Len(log[In(w)])]
          /\ UNCHANGED <<pc, held>>
       \/ /\ Position(w) >= base[In(w)] /\ Position(w) < Len(log[In(w)])
          /\ pos' = [pos EXCEPT ![w] = Position(w) + 1]
          /\ LET rec == log[In(w)][Position(w) + 1] IN
             \/ /\ rec.tok = "data"
                /\ held' = [held EXCEPT ![w] = rec.val]
                /\ pc' = [pc EXCEPT ![w] = "send"]
             \/ /\ rec.tok = "eof"
                /\ pc' = [pc EXCEPT ![w] = "eof"]
                /\ UNCHANGED held
             \/ /\ rec.tok = "err" /\ Does(w, {"cat"})
                /\ pc' = [pc EXCEPT ![w] = "err"]
                /\ UNCHANGED held
             \/ /\ rec.tok = "err" /\ Does(w, {"square"})
                /\ pc' = [pc EXCEPT ![w] = "ack"]   \* parseInt("") throws
                /\ UNCHANGED held
    /\ UNCHANGED <<brokers, signals, kafka, task, run, key, mark, wake, deliveries,
                   faults>>

\* Cat catches WakeupException: it starts a new Unix process and polls on,
\* neither seeking back nor resetting its key.
WakeUp(w) ==
    /\ pc[w] = "loop" /\ wake[w]
    /\ wake' = [wake EXCEPT ![w] = FALSE]
    /\ UNCHANGED <<brokers, signals, kafka, pc, task, run, pos, key, held, mark,
                   deliveries, faults>>

\* A poll that finds nothing for MAX_POLL ms: iterator().next() throws, which
\* Cat catches inside its loop (no state changes) and Square outside of it.
PollTimeout(w) ==
    /\ timeouts < MaxTimeouts
    /\ pc[w] = "loop" /\ Does(w, {"square"})
    /\ Position(w) = Len(log[In(w)])
    /\ pc' = [pc EXCEPT ![w] = "ack"]
    /\ timeouts' = timeouts + 1
    /\ UNCHANGED <<brokers, signals, kafka, task, local, deliveries, crashes,
                   sendFailures>>

(***************************************************************************)
(* Sends.  What a service is about to append depends on its control state; *)
(* a source runs its for loop, a consumer sends on what it holds.          *)
(***************************************************************************)
Emitting(w) == pc[w] = "loop" /\ Does(w, Sources) /\ key[w] < Items

\* Variant: the source stops one item early.
DrainedEarly(w, kind) == pc[w] = "loop" /\ Does(w, {kind}) /\ key[w] + 1 >= Items

Drained(w, kind) == pc[w] = "loop" /\ Does(w, {kind}) /\ key[w] = Items

\* Variant: a reader passes err on as eof.
SendingEofForErr(w) == Drained(w, "emitter") \/ pc[w] \in {"eof", "err"}

Sending(w)    == Emitting(w) \/ pc[w] = "send"
SendingEof(w) == Drained(w, "emitter") \/ pc[w] = "eof"
SendingErr(w) == Drained(w, "errEmitter") \/ pc[w] = "err"

\* Variant: every service ends with eof.
RecordEof(w) ==
    IF SendingEof(w) \/ SendingErr(w) THEN Eof
    ELSE Data(key[w], IF Emitting(w) THEN key[w] ELSE held[w])

RecordOf(w) ==
    IF SendingEof(w) THEN Eof
    ELSE IF SendingErr(w) THEN Err
    ELSE Data(key[w], IF Emitting(w) THEN key[w] ELSE held[w])

SendData(w) ==
    /\ Sending(w)
    /\ Send(Res(w), RecordOf(w))
    /\ key' = [key EXCEPT ![w] = @ + 1]
    /\ pc' = [pc EXCEPT ![w] = "loop"]
    /\ UNCHANGED <<brokers, signals, base, short, failTopic, task, run, pos, held,
                   mark, wake, deliveries, faults>>

\* channel.close() at the end of Cat.run: its listener is gone, a handleCancel
\* not yet past its first queueDelete fails there, one that purges fails later.
CloseChannel(w) ==
    /\ listeners' = {l \in listeners : l.id # run[w]}
    /\ callbacks' =
         {c \in callbacks : c.lst.id # run[w]} \cup
         {[c EXCEPT !.st = "closing"] :
            c \in {d \in callbacks : d.lst.id = run[w] /\ d.st = "purging"}}

\* eof (run returns 0) or err (run returns 1, so sendFail follows).  Only Cat
\* closes the channel of its listener.
SendToken(w) ==
    /\ SendingEof(w) \/ SendingErr(w)
    /\ Send(Res(w), RecordOf(w))
    /\ pc' = [pc EXCEPT ![w] = IF SendingErr(w) THEN "fail" ELSE "ack"]
    /\ IF Does(w, {"cat"}) THEN CloseChannel(w) ELSE UNCHANGED <<listeners, callbacks>>
    /\ UNCHANGED <<brokers, signal, base, short, failTopic, task, local, deliveries,
                   faults>>

(***************************************************************************)
(* producer.send(...).get() throws, with or without the record appended.   *)
(* Cat goes on with its loop, except at its eof, which is sent outside of  *)
(* it; the others leave run, and none of them sends a token.               *)
(***************************************************************************)
SendFails(w) ==
    /\ sendFailures < MaxSendFailures
    /\ sendFailures' = sendFailures + 1
    /\ Sending(w) \/ SendingEof(w) \/ SendingErr(w)
    /\ Send(Res(w), RecordOf(w)) \/ UNCHANGED <<log, topics>>
    /\ \/ /\ Does(w, {"errEmitter", "err"})
          /\ pc' = [pc EXCEPT ![w] = "fail"]
       \/ /\ Does(w, {"cat"}) /\ ~SendingEof(w)
          /\ pc' = [pc EXCEPT ![w] = "loop"]
       \/ /\ Does(w, {"emitter", "square"}) \/ (Does(w, {"cat"}) /\ SendingEof(w))
          /\ pc' = [pc EXCEPT ![w] = "ack"]
    /\ UNCHANGED <<brokers, signals, base, short, failTopic, task, local, deliveries,
                   crashes, timeouts>>

\* Variant: every failure is anonymous.
SendFailAnonymous(w) ==
    /\ pc[w] = "fail"
    /\ failTopic' = failTopic \cup {None}
    /\ pc' = [pc EXCEPT ![w] = "ack"]
    /\ UNCHANGED <<brokers, signals, log, base, short, topics, task, local, deliveries,
                   faults>>

\* sendFail: the name of the call, or "anonym", on the "fail" topic.
SendFail(w) ==
    /\ pc[w] = "fail"
    /\ failTopic' = failTopic \cup {IF task[w].anon THEN None ELSE Res(w)}
    /\ pc' = [pc EXCEPT ![w] = "ack"]
    /\ UNCHANGED <<brokers, signals, log, base, short, topics, task, local, deliveries,
                   faults>>

\* The send of the report throws, with or without its record in the topic:
\* sendFail prints the exception, and the task is acknowledged all the same.
ReportFails(w) ==
    /\ pc[w] = "fail" /\ sendFailures < MaxSendFailures
    /\ sendFailures' = sendFailures + 1
    /\ failTopic' \in {failTopic, failTopic \cup {IF task[w].anon THEN None ELSE Res(w)}}
    /\ pc' = [pc EXCEPT ![w] = "ack"]
    /\ UNCHANGED <<brokers, signals, log, base, short, topics, task, local, deliveries,
                   crashes, timeouts>>

\* basicAck, after handleCmd has returned.
Ack(w) ==
    /\ pc[w] = "ack"
    /\ acked' = [acked EXCEPT ![Res(w)] = @ + 1]
    /\ Return(w)
    /\ UNCHANGED <<taskQueue, published, zk, signals, kafka, run, deliveries, faults>>

(***************************************************************************)
(* handleCancel of Cat and Square, on a thread of the RabbitMQ client:     *)
(* delete the own signal queue, purge the own result, delete the queue     *)
(* again and, in Cat only, wake the consumer up.                           *)
(***************************************************************************)
CancelBegins(c) ==
    /\ c.st = "cancelled"
    /\ signal' = signal \ {c.lst.out}
    /\ listeners' = listeners \ Cancelled(c.lst.out)
    /\ callbacks' = (callbacks \ {c}) \cup Fired(c.lst.out) \cup
                    {[c EXCEPT !.st = "purging", !.from = Len(log[c.lst.out])]}
    /\ short' = Lowered(c.lst.out)
    /\ UNCHANGED <<brokers, log, base, topics, failTopic, pc, task, local, deliveries,
                   faults>>

CancelEnds(c) ==
    /\ c.st \in {"purging", "closing"}
    /\ Purged(c.lst.out, c.from)
    /\ short' = short \ {c.lst.out}
    /\ \/ /\ c.st = "purging"
          /\ signal' = signal \ {c.lst.out}
          /\ listeners' = listeners \ Cancelled(c.lst.out)
          /\ callbacks' = (callbacks \ {c}) \cup Fired(c.lst.out)
          /\ wake' = [w \in Workers |->
                        wake[w] \/ (w = c.lst.w /\ run[w] = c.lst.id
                                    /\ pc[w] \in {"loop", "send", "eof", "err"}
                                    /\ Does(w, {"cat"}))]
       \/ /\ c.st = "closing"
          /\ callbacks' = callbacks \ {c}
          /\ UNCHANGED <<signal, listeners, wake>>
    /\ UNCHANGED <<brokers, log, base, topics, failTopic, pc, task, run, pos, key, held,
                   mark, deliveries, faults>>

\* Variant: the task dies with the worker.
CrashLosing(w) ==
    /\ crashes < MaxCrashes
    /\ crashes' = crashes + 1
    /\ task[w] # None => Res(w) \in Crashable
    /\ Return(w)
    /\ listeners' = {l \in listeners : l.w # w}
    /\ callbacks' = {c \in callbacks : c.lst.w # w}
    /\ UNCHANGED <<brokers, signal, kafka, run, deliveries, sendFailures, timeouts>>

\* Variant: the task is delivered again while the worker still runs it.
CrashRunning(w) ==
    /\ crashes < MaxCrashes
    /\ crashes' = crashes + 1
    /\ task[w] # None /\ Res(w) \in Crashable
    /\ taskQueue' = <<task[w]>> \o taskQueue
    /\ UNCHANGED <<published, acked, zk, signals, kafka, pc, task, local, deliveries,
                   sendFailures, timeouts>>

(***************************************************************************)
(* A worker process dies and is started again.  RabbitMQ puts its          *)
(* unacknowledged task back at the head of the queue and drops its         *)
(* listeners; a retention it had lowered stays lowered.                    *)
(***************************************************************************)
Crash(w) ==
    /\ crashes < MaxCrashes
    /\ crashes' = crashes + 1
    /\ task[w] # None => Res(w) \in Crashable
    /\ taskQueue' = IF task[w] = None THEN taskQueue ELSE <<task[w]>> \o taskQueue
    /\ Return(w)
    /\ listeners' = {l \in listeners : l.w # w}
    /\ callbacks' = {c \in callbacks : c.lst.w # w}
    /\ UNCHANGED <<published, acked, zk, signal, kafka, run, deliveries,
                   sendFailures, timeouts>>

-----------------------------------------------------------------------------
\* The steps a worker takes by itself, in program order.
Work(w) ==
    \/ Deliver(w) \/ Exists(w) \/ Create(w) \/ Restart(w) \/ Restarted(w)
    \/ Declare(w) \/ Consume(w) \/ Poll(w) \/ WakeUp(w)
    \/ SendData(w) \/ SendToken(w) \/ SendFail(w) \/ Ack(w)

Cancel == \E c \in callbacks : CancelBegins(c) \/ CancelEnds(c)

Fault(w) == PollTimeout(w) \/ SendFails(w) \/ ReportFails(w) \/ Crash(w)

Next ==
    \/ \E r \in Results, anon \in BOOLEAN : Publish(r, anon)
    \/ \E w \in Workers : Work(w) \/ Fault(w)
    \/ Cancel
    \/ \E r \in Results : Purge(r)

Spec == Init /\ [][Next]_vars

(***************************************************************************)
(* A worker, its RabbitMQ callbacks and the Kafka log cleaner run on       *)
(* threads of their own that nothing blocks for ever; the user need not    *)
(* type anything, and nothing needs to fail.                               *)
(***************************************************************************)
Fairness ==
    /\ \A w \in Workers : WF_vars(Work(w))
    /\ WF_vars(Cancel)
    /\ \A r \in Results : WF_vars(Purge(r))

FairSpec == Spec /\ Fairness
-----------------------------------------------------------------------------
(* Properties. *)

Control == {"idle", "exists", "create", "restart", "purging", "declare", "consume",
            "loop", "send", "eof", "err", "fail", "ack"}

\* Every variable has its type; only an idle worker has no task.
TypeOK ==
    /\ taskQueue \in Seq(Task)
    /\ published \in [Results -> Nat] /\ acked \in [Results -> Nat]
    /\ zk \subseteq Results /\ signal \subseteq Results \cup {None}
    /\ listeners \subseteq Listener /\ callbacks \subseteq Callback
    /\ log \in [Results -> Seq(Record)] /\ base \in [Results -> Nat]
    /\ short \subseteq Results /\ topics \subseteq Results
    /\ failTopic \subseteq Results \cup {None}
    /\ pc \in [Workers -> Control]
    /\ task \in [Workers -> Task \cup {None}]
    /\ \A w \in Workers : pc[w] = "idle" <=> task[w] = None
    /\ run \in [Workers -> Nat] /\ pos \in [Workers -> Nat \cup {Begin}]
    /\ key \in [Workers -> Nat] /\ held \in [Workers -> Nat]
    /\ mark \in [Workers -> Nat] /\ wake \in [Workers -> BOOLEAN]
    /\ deliveries \in Nat
    /\ crashes \in Nat /\ sendFailures \in Nat /\ timeouts \in Nat

Queued(r) == \E i \in 1 .. Len(taskQueue) : taskQueue[i].res = r
HeldBy(w, r) == task[w] # None /\ Res(w) = r
Held(r) == \E w \in Workers : HeldBy(w, r)

\* A call that was published is waiting, in some worker's hands, or
\* acknowledged: neither a crash nor a full set of workers loses it.
NoTaskLost ==
    \A r \in Results : published[r] > 0 =>
        acked[r] > 0 \/ Queued(r) \/ Held(r)

HeldOnce(r) == \A v, w \in Workers : HeldBy(v, r) /\ HeldBy(w, r) => v = w

\* A call published once is never in the hands of two workers, so that a
\* result never has two producers, whatever crashes and is delivered again.
SingleProducer ==
    \A r \in Results : published[r] =< 1 => HeldOnce(r)

\* Why SingleProducer is inductive: only published calls are queued or held,
\* and the one message of a call published once is in one place: it has one
\* position in the queue, or one holder, or is gone.
QueuedOnce(r) == \A i, j \in 1 .. Len(taskQueue) :
    taskQueue[i].res = r /\ taskQueue[j].res = r => i = j
OnePlace ==
    \A r \in Results :
        /\ Queued(r) \/ Held(r) => published[r] > 0
        /\ published[r] =< 1 => QueuedOnce(r) /\ HeldOnce(r) /\ ~(Queued(r) /\ Held(r))

\* A task is acknowledged only when its result carries a token, so whoever
\* reads the result comes to an end; the square of a failed result has none.
AckedIsClosed ==
    \A r \in Results : acked[r] > 0 =>
        Closed(r) \/ (Kind[r] = "square" /\ EndsWith(Input[r], "err"))

\* What a reader sees in a result looks like one execution: item 0, 1, 2, ...
\* under keys 0, 1, 2, ..., and nothing behind a token.
LooksExecutedOnce ==
    \A r \in Results : LET v == Visible(r) IN
        \A i \in 1 .. Len(v) :
            v[i] = Data(i - 1, i - 1) \/ (i = Len(v) /\ v[i] \in {Eof, Err})

\* An eof is never early: behind it all items of the source have gone through.
EofMeansAll ==
    \A r \in Results : EndsWith(r, "eof") => Cardinality(DataAt(r)) = Items

\* A name on the fail topic is a result that ends with err.
FailedHasErr == \A r \in failTopic \ {None} : EndsWith(r, "err")

\* A worker restarts a result only after some worker has crashed.
RestartMeansCrash ==
    \A w \in Workers : pc[w] \in {"restart", "purging"} => crashes > 0

\* Every published task is acknowledged some day.
EveryTaskAcked == \A r \in Results : published[r] > 0 ~> acked[r] > 0

\* However often a call is published, in the end its result carries a token
\* and keeps it.
EndsClosed == \A r \in Results : published[r] > 0 ~> []Closed(r)

\* A token in a result comes through to every published reader of it.
TokenPropagates ==
    \A r \in Results : Input[r] \in Results =>
        \A t \in {"eof", "err"} :
            (published[r] > 0 /\ EndsWith(Input[r], t)) ~> EndsWith(r, t)

(***************************************************************************)
(* What a reader sees of the topics implements ResultStreams: without      *)
(* crashes every result is produced exactly once; a crash may at most      *)
(* start the crashed call itself over.                                     *)
(***************************************************************************)
Streams == INSTANCE ResultStreams WITH
    Resettable <- IF MaxCrashes = 0 THEN {} ELSE Crashable,
    stream     <- [r \in Results |-> Visible(r)]

ImplementsStreams == Streams!SSpec

-----------------------------------------------------------------------------
(* What the documents say and the code does not do. *)

\* Once eof or err is in a result, the result looks like one execution.
ClosedLooksExecutedOnce ==
    \A r \in Results : LET v == Visible(r) IN
        Closed(r) =>
            \A i \in 1 .. Len(v) :
                v[i] = Data(i - 1, i - 1) \/ (i = Len(v) /\ v[i] \in {Eof, Err})
=============================================================================
