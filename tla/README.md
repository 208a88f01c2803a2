# Drift: a verification development

Drift is a distributed shell. A user types commands such as
`B = emitter | cat`; a shell (`CmdLine.java`) turns each stage into a *call*,
publishes the calls on a RabbitMQ queue, and workers (`CmdLineWorker.java`) run
the named services, which stream their results into Kafka topics while the
shell and other services read them. This directory holds TLA+ models of that
system, the TLC configurations that check them and TLAPS proofs about them.

The reference is `src/antlr/java/10-err_token`, the last iteration in which
shell, workers and services are complete (`11-history` adds a name log to the
shell and switches the dispatch of commands off). Paths below are relative to
it unless they begin with `src/`.

## 1. Inventory

| Component | State | Operations | Interacts through |
|---|---|---|---|
| Shell: dispatch (`CmdLine`: parseCmd, checkCmd, splitCmd, handleNameCmd, resultExists, sendTask, handleRm) | `nameTable`, `failedServices`, current `cmdInfo` | bind a name, skip what exists, publish the rest | topic list (Kafka), TASK queue (RabbitMQ) |
| Shell: queries (`printResult`, handleNameQuery) | a consumer and its position, a cancelation thread, its flag | print a result until its token, `q` or an expired poll | result topics, stdin shared with the command loop |
| Shell: fail listener (`main`) | `failedServices` | read the `fail` topic | `fail` topic |
| Shell: namespaces, import, ls, cd | files under `fs/<session>`, `nameTable` | handleNamespaceCmd, receiveNamespace, importSetup, importFile, handleLs, handleCd | topics named `hash-...` and after imported files |
| Worker (`CmdLineWorker`) | unacknowledged task | handleDelivery, execNameCmd, execNamespaceCmd, deleteTopic, sendFail, basicAck | TASK queue, signal queues, ZooKeeper nodes, topics |
| Services Emitter, Emitter2, ErrEmitter, Err, Cat, Square | key counter, consumer position, deleteListener | run, handleCancel | result topics, signal queues |
| Service Add | two consumers, key counter | run, singleQueueConsume | result topics |
| Services Untar, Dup | the unpacked directory, one producer per file | run, importDir, sendFileToQueue, hasEof | index topic `hash-`, a topic `hash-file` per file |
| Command language (`CmdLine.g4`, `CmdLineWalker`) | none | text to `CmdInfo` | - |
| Name history (`src/antlr/java/11-history`) | `nameLogTable` | createImportNameLog, printHistory, resolveEntry, getEntry | shell only |
| Retry count (`src/antlr/java/09-max-retry-count`) | exec counter, done and fail queues | execNameCmd, sendDone, sendFail | RabbitMQ, ZooKeeper |
| Sync and async commands (`src/antlr/java/05-cmdline-sync-async`) | response queues | waitForResult, sendTask | RabbitMQ |
| Brokers (RabbitMQ, Kafka, ZooKeeper) | queues, logs, nodes | external | - |

What connects them is the name of a result: `CmdInfo.servicesHash`, a hash of
the call. It names the topic that carries the result, the signal queue on which
readers of the result listen for its deletion, and the ZooKeeper node that says
it was started once.

What is hard about it:

* **Crash and redelivery.** A task is acknowledged after its service has run.
  A worker that dies leaves a half-written topic; its successor finds the node,
  purges the topic by lowering its retention, cancels the readers of the topic
  by deleting the signal queue, and the readers purge their own results in turn.
* **Callbacks.** `handleCancel` runs on a RabbitMQ thread while the poll loop
  of the same service goes on sending into the topic being purged.
* **Tokens.** `eof` and `err` are ordinary records; a reader that misses the
  token of its input never ends.
* **Shared topics.** Shells decide what to publish from a list of topics read
  earlier; consumers create topics by polling them.
* **Order.** Stages must be queued first to last, or fewer workers than stages
  wait for each other for ever.
* **Silent failures.** Sends throw, polls expire, and the task is acknowledged
  all the same.
* **Shared input.** The command loop and the cancelation listener of every
  result read the same `BufferedReader`, whose lock a reader keeps while it waits.
* **Half finished directories.** A namespace is many topics; whoever takes over
  must tell the finished ones from the others by their last record.
* **Imports without a lock.** Sessions test for a topic and then send it.
* **Counters.** The ninth iteration counts executions in ZooKeeper, in a
  read-purge-write that may be cut off anywhere.

Every such place is a hazard in `PROJECT.json`, at its line, with the properties
that watch it.

What makes each component correct: the task queue loses nothing and a call
published once has one producer; a result looks like one execution of its call
and ends with its token; an `eof` stands behind all items; a token reaches every
reader; a shell publishes inputs before readers; a bound name can be queried; a
query ends; a failed result marks its names; what is typed at a prompt reaches
the command loop; finished files stay and half sent ones go; a listed directory
is complete; whoever reads an imported file reads one import of it; the pairs of
Add do not slip; a call is executed a bounded number of times and then settled.

## 2. Modules

| Module | Models | Checked by |
|---|---|---|
| `ResultStreams` | abstract specification: results as streams that grow by one record and end with a token | refined by `DriftWorkers` |
| `DriftWorkers` | workers, services, callbacks, crashes and the brokers they meet in | `MCDriftWorkers`, `workers_*`, `doc_reset` |
| `DriftWorkersProofs` | theorems about `DriftWorkers`: state, messages, producers | tlapm |
| `StreamProofs` | theorems about what `DriftWorkers` puts into its topics, and that it implements `ResultStreams` | tlapm |
| `Drift` | the whole system: shells in front of `DriftWorkers` | `MCDrift`, `drift_*` |
| `DriftProofs` | theorems about `Drift` | tlapm |
| `ShellInput` | who reads what the user types: command loop, cancelation listeners, stdin | `shell_input` |
| `Namespaces` | calls whose result is a directory: execNamespaceCmd, Untar, Dup, receiveNamespace | `namespaces` |
| `FileImport` | sessions that import files over each other, and read them | `file_import` |
| `AddService` | Add, its two inputs and its worker | `add` |
| `RetryWorker` | the ninth iteration: retry counter, done and fail queues, blocked names | `retry` |
| `ShellInputProofs`, `NamespacesProofs`, `FileImportProofs`, `AddServiceProofs`, `RetryWorkerProofs` | theorems about them | tlapm |

`Drift` extends `DriftWorkers`; `DriftWorkers` stands for the abstract behaviour
of the shells by its action `Publish` (a call is published after the call it
reads). `Drift` replaces that action by the code of the shell, and
`ImplementsWorkers` states that nothing else happens at the brokers. The other
modules look closely at parts that `Drift` leaves out or takes as one step; each
stands alone, with the rest of the system as it appears from there.

### DriftWorkers

A member of `Results` is a call *as it was written*, and the topic, queue and
node that carry its hash. `Kind` is the service, `Input` the result it reads.
The control state `pc` of a worker follows one `handleDelivery`:

    idle -Deliver-> exists -Exists-> create  -Create->              (service)
                                  \-> restart -Restart-> purging -Restarted-^
    (service) = loop                              sources
              = declare -Declare-> consume -Consume-> loop   Cat, Square
              = declare -Declare-> consume -Consume-> err    Err
    loop -Poll-> send -SendData-> loop,  -> eof / err -SendToken-> ack / fail
    fail -SendFail-> ack -Ack-> idle

| Definition | Code |
|---|---|
| `Deliver` | `handleDelivery`, `handleCmd`, `execNameCmd` up to `zk.exists`, with `queueDeclare` of the signal queue |
| `Exists`, `Create` | `zk.exists`, `zk.create` and its NodeExists exception: two steps, so another worker may come between |
| `Restart`, `Purge`, `Restarted` | queueDelete and `deleteTopic`: retention to 1 s, 5 s of sleep, retention back, queueDelete |
| `Declare`, `Consume` | `queueDeclare` and `basicConsume` of a listening service |
| `Poll`, `SendData`, `SendToken` | the loops of the services |
| `CancelBegins`, `CancelEnds`, `WakeUp` | `handleCancel` and the WakeupException it causes in Cat |
| `SendFails`, `PollTimeout`, `Crash` | `send().get()` that throws, `iterator().next()` on an empty poll, death of the process |
| `SendFail`, `ReportFails`, `Ack` | the `fail` topic, a report whose send throws, and `basicAck` |

A topic is a log that is never cut plus `base`, the number of records retention
has deleted, so positions of consumers survive a purge as Kafka offsets do. A
consumer whose position has been overtaken goes to the end
(`auto.offset.reset` is left at `latest`).

Deliberate abstractions:

* The hash is the call: equal hashes mean equal calls and nothing else.
* A data record's value is the number of the source item it was computed from.
* Steps that touch one broker each and that nobody can tell apart are one
  action: queueDelete with the lowering of the retention, its restoring with the
  second queueDelete and the wakeup, the delivery with queueDeclare, the first
  poll with the subscription.
* A purge deletes a topic as a whole. `deleteTopic` sleeps five seconds with
  the retention at one second while the broker looks every second
  (`log.retention.check.interval.ms` is 1000 in
  `src/kafka/00-kafka_2.11-0.10.1.0/config/server.properties:108`), so what was
  there at the start is gone at the end; `Purged` says so and names the
  exceptions (a younger record, somebody else restoring the retention).
* `kafka-configs` fails for a topic that does not exist, so retention is lowered
  for existing topics only (`Lowered`).
* A wakeup seeks nowhere and resets no key, as in the code. A crash leaves a
  retention it had lowered as it is.
* `failTopic` is a set: the order in which names are read is left open.
  `None` on it is `anonym`.
* The listener of `Err` on its own queue only closes the channel and is left
  out. `Emitter2` is `Emitter` with other output on the terminal.
* A worker that loses its connection without dying, and failures of the brokers
  themselves, are not modelled. `Crash` kills a worker and returns its message
  in one step, so that `SingleProducer` is about dead workers.

### ResultStreams

`stream[r]` is what a reader of `r` sees. A source appends its items and its
token, a reader appends the next record of its input, and only the results in
`Resettable` start over. `DriftWorkers` implements it with
`stream[r] = Visible(r)`; without crashes nothing is resettable, with crashes
of a call only that call is. The runs `workers_clean` and `workers_leaf` check the
refinement, `StreamProofs` proves it.

### Drift

The control state `shell` of a session follows `handleNameCmd`:

    prompt -ReadCommand-> check -CheckFailed-> exists -ResultExists-> topics
    topics -ListTopics-> publish -PublishNext-> ... -> prompt (named) / print
    prompt -ReadQuery-> print -StartPrinting-> loop -PrintRecord-> ... prompt

with an action of its own for every visit of a broker, so that two shells, the
workers and the fail listener interleave between `listTopics` and
`basicPublish`. `Split` builds the calls of a command; `Existing` and `SendList`
are the backward scan of `sendTask`, which stops at the first stage whose topic
exists. Topics created by a shell's own consumers are kept in `polled`; what
`listTopics` returns is `Queues == topics \cup polled`.

Two facts of the code show in the definitions. The hash covers the text of a
stage, into which `checkCmd` has put the result a name stands for but
`splitCmd` puts nothing; so `cat A` and the `cat` of `emitter | cat` are
different calls even when `A` stands for `emitter` (`Piped`). And
`handleNameCmd` looks the hash of the whole command up in `failedServices` for
each stage, which is the hash of a call only if there is one stage
(`CheckFailed`).

A task of a command without target is anonymous (`anon`), and its failure is
reported as `anonym`, which marks no name. `FailuresAreMarked` is therefore claimed
of a result as long as no anonymous message for it is under way (`Anonymous`);
Otherwise a name bound to the result later stays unmarked (section 3).

Commands that `checkCmd` rejects change nothing and are left out. Left out, too:
a service argument in a later stage of a pipe; a publish that throws; `ls` and
`cd`, which read and change local paths only.

### ShellInput

    prompt -MainEnters-> reading -MainReads-> handle -StartListener-> show
    show -TokenArrives, ThrowWakeup-> join -Join-> prompt,  show -PollExpires-> prompt
    reading -MainReads-> ended    "q"              reading -MainReads-> thrown    end of input
    listener: check -Ready-> sleep -Slept-> check / gone
              check -Ready-> enter -ListenerEnters-> reading -ListenerReads-> check / wake -> gone

`inside` is the lock of the `BufferedReader`: `ready()` needs it, `readLine()`
keeps it until a line comes. Each result that is shown has its listener, flag
and wakeup, numbered by `shows`, so that a listener left behind is told from the
present one. A line carries where it was typed (`at`), because the properties
are about lines typed at an empty prompt. `Close` is `stdIn.close()`;
`receiveNamespace` (lines 257-343) is `printResult` again and shares its
actions. Records that are only printed are left out, and the token may come at
any time.

An expired poll (`PollExpires`) throws past the loop, so that nobody tells the
listener, which goes on reading at the next prompt; the properties say "unless
the poll expired". A `q` typed while a result is shown is for the listener
only if it comes before the token; afterwards it is read at the prompt and ends
the session. That follows from the code and no property contradicts it.

The input may end (`EndInput`). `readLine()` then returns null (`TakeNull`), which
neither the command loop (`line.length()`, line 975) nor the listener
(`new String(...)`, line 199) looks for: the one ends with a NullPointerException
(`thrown`), the other one is `gone`.

### Namespaces

    idle -Deliver-> run                        node did not exist
                \-> list -List-> lower -Lower(e)*, Waited-> restore -Restore(e)*, Restored-> run
    run -Run-> import -NextEntry-> name -SendName-> data -SendData-> eof -SendEof-> import
        import -SendIndexEof-> ack              good archive
        reject -SendIndexErr-> fail -> ack      tar failed
        dup -DupSends*-> fail -> ack            Dup

`index` is the topic `hash-`, which is never purged, so that it may hold names
and tokens of several runs; `file[e]` is the topic of an entry as far as
retention has left it. `hasEof` asks for the last record with a poll of one
second, which may find nothing (`slow`); exceptions and slow polls mark the
files they hit (`harmed`), because the code makes no promise about those. A
directory inside the archive is named but never sent (`readAllBytes` throws,
`Untar.java:95`); an input that ended with `err` leaves Untar polling until the
poll expires (`Untar.java:214`). The interactive pauses (`System.in.read`) in
`Untar` are places where it may be killed, as any other step is. The
existing-result branch of `handleNamespaceCmd` binds the name and does not
create the directory (`CmdLine.java:441-444`); `Command` models what it sends.
There is one call and one worker at a time. A shell that has polled the index has
created its topic (`polled`), and one that has read the `fail` topic knows of the
failure (`failedServices`); both make it leave out the task. A send that throws may
have left its record (`MaybeIndex`, `MaybeFile`). It ends the service
(`LeaveThrown`), except in `sendFileToQueue`, after which `importDir` goes on with
the next entry (`SkipThrown`).

### FileImport

A session is `off`, goes through the files of `importSetup`
(`exists`, `again`, `send`, `eof`, `bind`) and then queries names from its
prompt. `hasQueue` is asked twice, by importFile and by sendFileToQueue, and
neither locks anything. A record is the session whose content was sent, or the
eof, so that two sessions with different files of one name can be told apart.
`given` is what finished queries of a file have shown. Two sessions that are past
both tests at once make a file `raced`: its topic may then hold both files, in any
order, and a reader is shown one or both (`ShownIsOneImport`). A
file is `spoiled` when its import was cut off by a crash or an exception: the
topic then exists and no later session sends it again. `importDir`
(lines 653-691) is never called (its call is commented out at 702).

### AddService

    idle -Deliver-> start / restart -Restart-> start -Start-> read
    read -Poll-> read / send / eof, -PollExpires-> ack
    send -Send-> read / ack, -SendThrows-> ack,  eof -SendEof-> ack -Ack-> idle

`args` is `<<1, 2>>`, or `<<1, 1>>` for `singleQueueConsume`; `held` are the
records read for the next pair, and its length says whose turn it is. `Produce`
and `RestartInput` are the services of the inputs and their restarts, with
`log` and `base` as in `DriftWorkers`; the purge of Add's own topic is one step,
since `DriftWorkers` looks into it. The loop looks for the key `eof` only. The
value of an `err` is held until `parseInt` throws and run returns without a token;
if the other input ends with `eof` at the same place, the loop breaks before that
and Add sends `eof`. `Expected` is the result of an execution, this included; a
send that throws (`SendThrows`) may have left its record.

### RetryWorker

The reference is `src/antlr/java/09-max-retry-count`.

    idle -Deliver-> exists -LookUp-> create -Create-> run       no node
         lower -Lower-> wait -Restore-> count -SetData-> run    counter below the limit
                                              \-> ack           at the limit: given up
    run -Start-> send -Send*, SendThrows-> ack -Ack-> report -Report-> idle

`node` is the counter (0: no node). `Tree` is the call of a namespace, which
has no limit, and whose handler closes the worker's only ZooKeeper session
(`CmdLineWorker.java:380`), after which a name command throws and counts as done
(`open`, `skipped`). A send of the service that throws, with its record or without
it, is caught by the service, which returns true all the same
(`Emitter.java:58-64`; `SendThrows`): the call counts as done with what came
before (`threw`). A worker that dies behind its acknowledgement takes its report
with it (`lost`). Reports are sent behind the acknowledgement. `kafka-configs` fails for
a topic that does not exist, so `Lower` lowers existing topics only.
Left out: pipes, anonymous commands, queries, which `failListener` wakes up, the
signal queues, and the topics of a namespace's files.

### Variants

Some modules define wrong versions of an operator just before the right one
(`ExistsByTopic`, `DeliverAcked`, `JoinAtOnce`, `SendListBackwards`, ...).
No specification uses them. They are plausible mistakes in the code; replacing
the right definition by one of them makes TLC report the property that
`PROJECT.json` pairs with it.

## 3. Runs

| Run | Instance | Question | Result |
|---|---|---|---|
| `workers_clean` | emitter and its square, Err and its copy; 2 workers, 2 items | exactly-once results, tokens, liveness, no faults | holds |
| `workers_leaf` | emitter, copy, copy of the copy; the last may crash twice | does a restart look like one execution, does every task end | holds |
| `workers_faults` | Err, its copy and its square; a crash of any, a failing send, an expired poll | typing, tasks, one producer | holds |
| `workers_dup` | one emitter published twice, one crash | does the result end closed | holds |
| `drift_two` | 2 shells, 2 commands each, 1 worker, pipe of two and square, 2 items | refinement of `DriftWorkers`, names, topics, what is printed | holds |
| `drift_fail` | 1 shell, 3 commands, 2 workers, failing emitter, with a name and without, and copy | do queries end, are failures marked | holds |
| `shell_input` | 5 lines, end of input, 2 expired polls | who reads a line, do listeners end, does the prompt come back | holds |
| `namespaces` | archive of two files and a directory, Dup with 2 and 1 records, 2 faults | are files sent once, kept and indexed completely, do bound files arrive, are failures reported | holds |
| `file_import` | 2 sessions, 2 files, a crash, a failure | is what readers see one import, are bound files whole, do queries end | holds |
| `add` | inputs of 0 to 2 items that end with `eof` or `err`, or one input twice, 2 faults | do sums pair up, is an acknowledged result whole, does it end | holds |
| `retry` | 2 workers, a call and a namespace, 2 names, 2 tasks, limit 2, 2 crashes, a send that throws, a report another session takes | bounded executions, settled results, released names | holds |
| `doc_reset` | emitter and copy, the emitter crashes | does a closed result look like one execution | violated |

The runs check what the components promise. The inductive invariants behind it
(`OnePlace`, `StartsOnce`, `OneExecution`, `AllCarry`, `PrintedInOrder`, `InOrder`, `InputInOrder`, `UploadInOrder`, `ImportedInOrder`,
`SentInOrder`, `SideBySide`, `CountedInOrder`), most type invariants and
`ListedIsBound` are proved, for every instance,
and the runs do not repeat them.

`doc_reset` states a sentence of the thesis (`src/ma/chapters`) that the code does
not keep; `PROJECT.json` quotes it.

Other places where the code and the thesis (`04-3_driftimpl.tex`) part, seen
while modelling and left in the models as the code has them. Where a property
would fail for one of these reasons, it names the case in a premise, so that the
run covers everything else:

* A token does not always come through, lines 769-771. When a source dies behind its
  token and is restarted, Cat lowers the retention of its own result
  (`Cat.java:110-123`), may read the new run meanwhile, close its result and be
  acknowledged, and then the purge takes what it has sent; a copy whose position
  retention has overtaken goes past the new token and polls for ever.
  `TokenPropagates` and `EveryTaskAcked` are checked without the reset of an input
  that is read.
* A worker that dies between its token and its `basicAck` makes its successor
  purge and recompute a finished result; lines 861-866 say that the last token
  is read first (`CmdLineWorker.java:121`; `Exists`).
* Square and Add drop the `err` of an input instead of passing it on, lines
  766-768 (`Square.java:133`, `Add.java:136`). Add even closes with `eof` where an `err` of
  its first input meets the `eof` of the second (`Add.java:127-134`; `ErrThenEof`).
* A command typed twice before its topic exists is executed by two workers,
  lines 306-315 (`CmdLine.java:112`; `ListTopics`, `PublishNext`).
* The failure of an anonymous command marks no name that is bound to its result
  later, lines 773-780 (`CmdLineWorker.java:313`; `SendFail`, `Anonymous`).
* A query keeps no key and prints a restarted result from where it stands, lines
  945-950 (`CmdLine.java:243`; `PrintRecord`).
* Imported files are topics named after the file, not after its content, lines
  187-192, so that sessions are shown each other's files, lines 70-74, and an import
  may end half way, lines 510-512, and is never repaired
  (`CmdLine.java:622`, `640`; `FileImport`, `spoiled`).
* A purge takes about 60 seconds and a worker waits two minutes for it, lines
  876-882. Iteration 10 waits five seconds (`CmdLineWorker.java:80`, `Restarted`),
  the ninth 30 seconds for a name and two minutes for a namespace. The models
  assume that the wait is long enough for the purge (`Purged`, `Restore`,
  `Waited`), which the configuration of the broker suggests and nothing
  guarantees: were it not, a restarted result would begin with the records of
  the dead run.
* A worker of the ninth iteration that has executed a namespace command passes over
  the calls it gets afterwards and reports them as done, lines 847-848
  (`src/antlr/java/09-max-retry-count/CmdLineWorker.java:380`; `LookUp`, `skipped`).

Bounds, all constants: in `workers_*` and `drift_*` `Items` per source (1 or 2;
2 separates first, middle and last record), `Copies` per call (1 unless
duplicates are the question; 4 in `drift_two` and 2 in `drift_fail`, as often as the
shells can ask for it), `MaxCommands` lines per shell, `MaxCrashes`, `MaxSendFailures`,
`MaxTimeouts`, and `Crashable`, the calls during which a worker may die. Two
workers are enough for every interference between two deliveries of one call;
one worker in `drift_two` makes the order of the queue matter. Workers are
interchangeable, so runs without liveness use symmetry. `CHECK_DEADLOCK FALSE`
because a system whose users type nothing more rightly stops.

`MaxLines` is 5: two results with a line read at the prompt before each, and one
more line for whoever may take it. `MaxFaults` is 2 in `namespaces` and `add`: a
fault, and one more while the first is repaired. `Copies` is 1 in `namespaces`;
a second message for the call would be executed as a restart is. `MaxExec` is 2,
the `MAX_EXEC_COUNT` of the code, and with `MaxCrashes` 2 a call reaches it and
is given up. `MaxSendFailures` is 1: what a send leaves half done can still be
acknowledged, or met by a crash. Two sessions in `file_import` make the race, the second file shows
that one does not depend on the other. In `namespaces`, `file_import` and `add`
no symmetry is used, because of liveness.

Premises: what `namespaces` claims of a file holds for those no exception and no
slow poll has hit (`harmed`), and its liveness if no send throws
(`NoSendThrows`). `AckedIsSettled`, `SettledStays` and `CallsSettle` except the calls a
worker without a session has passed over (`skipped`), and no others.
`BlockedIsReleased` holds while no report is lost (`stolen = 0`, `~ lost`): a worker
that dies behind the acknowledgement, or another session at the same queue,
takes the report with it, and a report that comes before `Block` is forgotten.
`SumsPairUp` and `LooksLikeOneRun` hold while no input is restarted, because Add has no
deleteListener; `AckedIsWhole` also needs that no poll expired and no send threw
(`Undisturbed`), but a crash is no excuse; it is about results that an eof ends
(`EofIsRead`), and both except `ErrThenEof`. `BoundIsWhole` and `QueriesEnd` of
`FileImport` except a `spoiled` file. `FailuresAreMarked` excepts a result whose call
was published without a target, and lost reports. `AckedIsClosed` excepts the
square of a result that ended with `err`.

`LooksExecutedOnce` is claimed for the crash of a call nobody reads, not for
every crash: `doc_reset` shows why. `PrintsOneExecution` and `QueriesEnd` assume
`PublishedOnce`: when the same call is published twice, a purge under a query may
make it print again or miss the token.

### Fairness

`Work(w)`: a worker thread blocks on nothing but its queue or its poll, and each
of its steps is the next statement of one thread. `Cancel`: RabbitMQ runs
callbacks on its own threads. `Purge(r)`: the log cleaner runs every second.
`Handle(s)` and `ListenForFails(s)`: the command loop and the fail listener of a
shell are threads that nothing else holds up. All of it is weak fairness: none
of these steps is disabled again and again by others for ever without having
been taken. In the same way `Loop` and `Listen(i)` in `ShellInput`, `Work` and
`Purge` in `Namespaces` and `RetryWorker`, `Import` and `Show` in `FileImport`,
and in `AddService` `Work` and `Produce(i)`. There `Work` includes
`PollExpires`: a poll without a record does time out. In `ShellInput` it does
not, because a result may go on for as long as it likes. `ReceiveDone` and
`ReceiveFail` run on the connection thread of a shell. Users and faults have no
fairness: nobody has to type, cancel or crash.

## 4. Proofs

All theorems hold for every set of workers and shells, every network of calls and
every number of items; they use the assumptions their modules name:
`CallAssumption`, `BoundAssumption` (`DriftWorkers`), `CommandAssumption`
(`Drift`), `InputAssumption`, `EntryAssumption`, `NamespaceBounds`,
`ImportAssumption`, `AddAssumption`, `RetryAssumption`, which say what kinds of
values the constants are. Fault budgets and copies are arbitrary, too. Where a
property fails under some fault (section 3), the theorem has the fault that did
not happen as a premise on the *state*, so that it speaks of every behaviour up to
the moment of the fault; the corollaries that follow such a theorem fix the
bounds instead and say so in an ASSUME of their own. Every inductive invariant was
checked by TLC before it was proved.

`DriftWorkersProofs`:

* `TypeCorrect`: `TypeOK`, including that exactly an idle worker has no task.
* `TasksAreNotLost`: `NoTaskLost`, inductive with `TypeOK`. Only `Publish`,
  `Deliver`, `Ack` and `Crash` move a message (`MessageSteps`).
* `MessagesAreUnique`, `OneProducer`: `SingleProducer` alone is not inductive,
  because a second copy in the queue would be delivered; `OnePlace` adds that
  the one message of a call is at one position of the queue or with one worker.
* `MessagesAreConserved`: for every call, what was published is what is queued, held
  and acknowledged, as numbers. It has no premise: a call may be published any number
  of times and any worker may die. The lemmas about `Places` say what appending,
  delivering and putting back do to the positions of a message.

`StreamProofs`, in three parts. The first is why a restart means a crash:

* `NodesTellCrashes`, with `StartsOnce` inductive next to `OnePlace`. The node of a call
  is created by the holder of its one message. The message returns to the queue
  only when its holder dies, so a message that is queued, or examined, while the
  node is there has a crash behind it. `RestartsFollowCrashes` has the premise that no
  call is published twice: the second copy finds the node of the first.
  `RestartsNeedCrashes` puts `Copies =< 1` for it.

The second is what topics hold. `Undisturbed` is the premise: no call published
twice, no send failed, and no crash during a call that somebody reads. Each part is
needed: two producers mix their records, a failed send leaves a result without a
token, and `doc_reset` shows what the restart of an input does to its readers.
Crashes of calls that nobody reads, and expired polls, are inside it.

* `TopicsInOrder`: `OneExecution` is inductive with `TypeOK`, `OnePlace` and
  `StartsOnce`. A topic holds items from the first on and then at most one token,
  an `eof` only behind all of them (`TopicInOrder`). A running worker has read as many
  records of its input as it has sent, or one more, which it is about to send
  (`WorkerInOrder`); that one record is the reason why the log alone is not enough.
  A topic begins behind 0, or has a short retention, only after a crash of its own
  producer, and a worker sends nothing before the retention is back. Listeners exist
  but nobody cancels them. One lemma per action of a worker shows that it leaves its own
  topic and place in order, and one that the other workers do not mind.
* `ReadersSeeOneExecution`, `EofIsNotEarly`, `AcknowledgedIsClosed`,
  `FailuresHaveErr` follow from it. An acknowledged result has no token where a
  poll expired, which is a premise, or where Square met an `err` (`Square.java:133`),
  which the property names itself; and a report of a failure may
  outlive the `err` it reports while the crashed worker's result is made anew;
  that nothing crashes is a further premise.
* `TopicsImplementStreams`: the refinement of `ResultStreams`, step by step. A send
  appends the next record of a source or of the input (`SendStreams`), a purge
  empties a resettable stream (`PurgeStreams`), and everything else stutters
  (`StreamStep`).
* `StreamsArePrefixes`: the stream of a reader is a prefix of its input's. With the
  token at its end it is all of it (`FinishedReadersAreWhole`), because a prefix that
  ends with a token cannot be shorter than a stream that has only one.
* `AcknowledgedIsFinal`, an action property: the topic of an acknowledged result
  does not change any more.
* `GentleRunsLookExecutedOnce`, `GentleTopicsImplementStreams`,
  `GentleRunsCloseResults`, `GentleRunsFailWithErr` assume `GentleBounds`, under which
  nothing can disturb the system. The bounds of `workers_clean` and `workers_leaf`
  are of that kind.

The third has no premise. `NothingIsMadeUp`: whatever crashes, is restarted, sent twice
or expires, every record that was ever put in a topic is one its service may
produce, and a reader's record stands in its input (`NothingMadeUp`). It is inductive
with `AllCarry`: what a worker holds between poll and send stands in its input, too,
also when the input is purged meanwhile, because a log is kept behind its `base`.

`DriftProofs`:

* `ShellsImplement`: `DriftSpec => Spec`. The invariant is `Whole`: the
  invariants above and `InOrder`. A shell may publish the head of its list only
  because the calls of a command form a chain (`Chained`) whose first input was
  published; a suffix of a chain is one only if the call in front of it was
  published, which the scan learns from a topic, so topics must stand for
  published calls (`TopicsArePublished`); polls of shells create topics, so what
  is queried must be published; and names are bound before their call is
  published, so the one exception is the last call of the command in progress.
  `ChainSuffix` and `ChainTail` are the facts about sequences; one lemma per
  action of the shell shows it `Advances`, and `StaysInOrder` that the other
  shells do not mind.
* `NamesCanBeQueried`, `TopicsCanBeTrusted`, `ShellTypeCorrect`,
  `CommandsAreInOrder` follow from `Whole`.
* `NoShellLosesTasks` carries `TasksAreNotLost` over to the whole system, and
  `SystemAccounts` conservation of messages and the origin of records.
  `SystemImplementsStreams` and `SystemLooksExecutedOnce` do so for the theorems
  about topics, under their premise.
* `QueriesPrintOneExecution`: the invariant is `PrintedInOrder`. A shell in its poll
  loop has read as many records as it has printed, so what it prints next is the next
  item. Any number of shells, any commands and expired polls are allowed. The
  premise is stronger than `Undisturbed` in that nothing crashes: a query reads a
  result without being told of its purge (`PrintsOneExecution` excepts calls
  published twice itself). `FaultlessQueriesPrintOneExecution` puts bounds for the
  premise, those of `drift_two`.
* `QueriesShowEverything`: a shell that is at an `eof` has printed all `Items`, which
  needs `PrintedInOrder` about the shell and `TopicInOrder` about the topic together.

`ShellInputProofs`: `InputIsInOrder`, with `InputInOrder` as the inductive
invariant. That the command loop joins the listener gives `ListenersAreOwned`;
for `PromptLinesReachTheLoop` a line typed at an empty prompt must be the first
in the buffer until it is read, and the command loop at its prompt meanwhile.

`NamespacesProofs`: `UploadsInOrder`. `UploadInOrder` has four parts: the control
state fits the call (`ControlInOrder`), a file is named before it is sent
(`NamedFirst`), retention is short only for what is unfinished, and nothing is
sent before it is back (`PurgedInOrder`), and what is out of `todo` is named
and whole (`SentInOrder`). `UploadedOnce`, `ClosedIndexIsComplete`,
`ListedIsComplete` and `FinishedStay` rest on it.

`FileImportProofs`: `ImportsInOrder` and `SendingInOrder`. What a query has shown is
the part of the log in front of its first eof, and logs only grow; whoever is about
to send a file has not sent it, and finds its topic empty unless the file is `raced`,
so that a log holds no session's content twice and one content only, hence
`ShownFilesAreOneImport`. A session between its two sends still closes its file or
spoils it, hence `BoundFilesAreWhole`.

`AddServiceProofs`: `ConsumersSideBySide`. Without a restart of an input its log
is that of one execution, and the position of each consumer is the key, plus one
for the inputs read already for the next pair. So no input was shorter than the
key, and wherever the loop is left the result is `Expected`: `SumsArePairs`,
`ResultsAreOneRun` and `AcknowledgedIsWhole` follow. The invariant itself (`OneRun`) has no
exception for `err`: it says what the code makes there.

`RetryWorkerProofs`: `CountingInOrder`. The one message of a call is at one place
(`OneTask`), and whoever has it knows the counter (`AtWork`): it is read before
the purge and written after it, which is sound because nobody else writes it. The
service has sent `Run(cnt)`, so that it leaves a whole execution, or a part of one
where a send threw.
`ExecutionsAreBounded`, `FailuresAreGivenUp`, `AcknowledgedIsSettled` and
`SettledResultsStay` follow.

Only model-checked:

* liveness (`EveryTaskAcked`, `TokenPropagates`, `EndsClosed`, `QueriesEnd`,
  `FailuresAreMarked`, `PromptReturns`, `BoundFilesArrive`, `NamespaceEnds`,
  `SumsEnd`, `BlockedIsReleased`, `CallsSettle`): it rests on fairness, and the
  provers handle neither fairness nor ENABLED;
* the violation in `doc_reset`, a single behaviour.

Every safety property of a run is stated by a theorem. No theorem is about data
defined by recursion, as induction over it is out of the provers' reach; that a
reader has *its source's* items, through any number of calls in between, is stated
by the shape of every record (`TopicInOrder`) and not by following the pipe.

## 5. Plan

1. `DriftWorkers`, `ResultStreams`, `Drift` and their proofs (done).
2. `ShellInput`, `Namespaces`, `FileImport`, `AddService`, `RetryWorker` and
   their proofs (done).
3. `StreamProofs`: why nodes tell crashes, the shape of topics, the refinement of
   `ResultStreams`, and what queries print (done).
4. Proofs under more faults: which of the theorems about topics survive an
   unread call being published twice, and the crash of an input whose readers have
   not started.
5. Two workers at one namespace call, a publish that throws in `Drift`, and a
   connection that is lost while its worker goes on.
6. The response queues of `05-cmdline-sync-async`, if an iteration brings them back.

## 6. Not modelled

* The command grammar, its generated parser and walker: pure functions of a line
  of text.
* `handleLs`, `handleCd`, `handleRm` of a directory: reads and writes of local
  paths and of the shell's own `nameTable`. (`cd` with several `..` goes up one
  level only, `CmdLine.java:875-880`.)
* The name log of `11-history`: an append-only list in a shell in which the
  dispatch of commands is switched off; sequential, with no partner.
* The earlier iterations, which 10-err_token supersedes, except for the retry
  counter of the ninth, which has no successor.
* The tutorial programs under `src/zk`, `src/kafka/helper` and `src/utils`, the
  thesis and the presentation.
* The browser page under `src/gui`. By lines it is most of the JavaScript of the
  repository, but those are copies of dagre-d3, graphlib-dot, jquery.terminal
  and other libraries; the page itself draws a graph it gets over a websocket.
  Drift's own program is the Java under `src/antlr/java`. The models are mapped
  to that, so that a count of JavaScript lines shows nothing of what they cover.
