------------------------------ MODULE RetryWorker ------------------------------
(***************************************************************************)
(* The ninth iteration (09-max-retry-count): the ZooKeeper node of a call  *)
(* counts its executions.  A worker that finds it at less than MaxExec     *)
(* purges the result, counts and runs the service again; at MaxExec it     *)
(* purges the result and gives the call up.  Workers report their tasks on *)
(* the queues "done" and "fail", behind the acknowledgement.  A shell      *)
(* blocks a name while its task is under way, and every session takes its  *)
(* messages from the same two queues.                                      *)
(*                                                                         *)
(* Commands are single services with a target, like n = Emitter or         *)
(* d/ = Untar my.tar; a namespace is one result, its files are left out.   *)
(* Two workers may be at one call, when it was published twice.            *)
(***************************************************************************)
EXTENDS Integers, Sequences, FiniteSetsExt

CONSTANTS
    Workers,
    Calls,         \* calls whose result is a name
    Tree,          \* the call whose result is a namespace
    Names,         \* names such a call may be given
    Dir,           \* the name of the namespace
    Items,         \* records of a result (30)
    MaxExec,       \* MAX_EXEC_COUNT
    MaxTasks,      \* bound on tasks that are published
    MaxCrashes,    \* bound on workers that die
    MaxStolen,     \* bound on reports another session takes
    MaxSendFailures \* bound on sends to Kafka that throw

ASSUME RetryAssumption ==
    /\ Tree \notin Calls /\ Dir \notin Names
    /\ Items \in Nat /\ MaxExec \in Nat \ {0}
    /\ MaxTasks \in Nat /\ MaxCrashes \in Nat /\ MaxStolen \in Nat
    /\ MaxSendFailures \in Nat

Results == Calls \cup {Tree}
Targets == Names \cup {Dir}
Commands == (Calls \X Names) \cup {<<Tree, Dir>>}
None == <<>>

VARIABLES
    queue,       \* the task queue
    done, fail,  \* the report queues: of names, and of calls
    node,        \* the counter of a call, 0 when there is no node
    result,      \* the records of a result that retention has left
    short,       \* results whose retention is short
    topics,      \* results that have a topic
    bad,         \* tar rejects the archive
    wpc, task,   \* a worker's control state and task
    cnt,         \* the counter it has read, then what its service has sent
    success,     \* what handleCmd returned
    open,        \* it has a ZooKeeper session
    spc, cmd,    \* the shell's control state and command
    nameTable, blocked, failed,
    published,   \* messages of a call
    runs,        \* starts of its service
    crashes, stolen, sendFailures,
    threw,       \* history: calls whose last execution a send has cut off
    skipped,     \* history: calls passed over for want of a session
    lost         \* history: a worker has died between acknowledgement and report

broker == <<queue, done, fail, node>>
kafka  == <<result, short, topics, bad>>
worker == <<wpc, task, cnt, success, open>>
shell  == <<spc, cmd, nameTable, blocked, failed>>
count  == <<published, runs, crashes, stolen>>
harm   == <<sendFailures, threw, skipped, lost>>
vars   == <<broker, kafka, worker, shell, count, harm>>

Init ==
    /\ queue = <<>> /\ done = <<>> /\ fail = <<>>
    /\ node = [c \in Results |-> 0]
    /\ result = [c \in Results |-> <<>>]
    /\ short = {} /\ topics = {} /\ bad \in BOOLEAN
    /\ wpc = [w \in Workers |-> "idle"] /\ task = [w \in Workers |-> None]
    /\ cnt = [w \in Workers |-> 0] /\ success = [w \in Workers |-> FALSE]
    /\ open = [w \in Workers |-> TRUE]
    /\ spc = "prompt" /\ cmd = None
    /\ nameTable = [n \in Targets |-> None] /\ blocked = {} /\ failed = {}
    /\ published = [c \in Results |-> 0] /\ runs = [c \in Results |-> 0]
    /\ crashes = 0 /\ stolen = 0
    /\ sendFailures = 0 /\ threw = {} /\ skipped = {} /\ lost = FALSE

-----------------------------------------------------------------------------
(* The shell: handleNameCmd and handleNamespaceCmd. *)

\* A blocked name is refused, unless it is known to have failed.
Command(c, n) ==
    /\ spc = "prompt" /\ <<c, n>> \in Commands
    /\ MapThenSumSet(LAMBDA r : published[r], Results) < MaxTasks
    /\ n \notin blocked \/ (c # Tree /\ n \in failed)
    /\ cmd' = <<c, n>> /\ spc' = "exists"
    /\ failed' = IF c = Tree THEN failed ELSE failed \ {n}
    /\ UNCHANGED <<broker, kafka, worker, nameTable, blocked, count, harm>>

Bind == nameTable' = [nameTable EXCEPT ![cmd[2]] = <<cmd[1]>>]

\* resultExists asks for the node.  A name whose result exists is bound and not
\* blocked, a namespace is blocked either way.
ResultExists ==
    /\ spc = "exists"
    /\ \/ node[cmd[1]] = 0 /\ spc' = "send"
       \/ node[cmd[1]] # 0 /\ spc' = IF cmd[1] = Tree THEN "block" ELSE "prompt"
    /\ IF cmd[1] = Tree THEN UNCHANGED nameTable ELSE Bind
    /\ UNCHANGED <<broker, kafka, worker, cmd, blocked, failed, count, harm>>

\* sendTask asks for the topic, which a namespace never has: its name is
\* looked up without the "-".
SendTask ==
    /\ spc = "send"
    /\ \/ /\ cmd[1] \in topics \ {Tree}
          /\ UNCHANGED <<queue, published>>
       \/ /\ cmd[1] \notin topics \ {Tree}
          /\ queue' = Append(queue, cmd)
          /\ published' = [published EXCEPT ![cmd[1]] = @ + 1]
    /\ spc' = "block"
    /\ UNCHANGED <<done, fail, node, kafka, worker, cmd, nameTable, blocked, failed,
                   runs, crashes, stolen, harm>>

\* The name is blocked behind the publish: its report may have come already.
Block ==
    /\ spc = "block"
    /\ blocked' = blocked \cup {cmd[2]}
    /\ IF cmd[1] = Tree THEN Bind ELSE UNCHANGED nameTable
    /\ spc' = "prompt"
    /\ UNCHANGED <<broker, kafka, worker, cmd, failed, count, harm>>

\* doneListener and failListener, on their own thread.
ReceiveDone ==
    /\ done # <<>>
    /\ done' = Tail(done)
    /\ blocked' = blocked \ {Head(done)}
    /\ UNCHANGED <<queue, fail, node, kafka, worker, spc, cmd, nameTable, failed, count, harm>>

ReceiveFail ==
    /\ fail # <<>>
    /\ fail' = Tail(fail)
    /\ failed' = failed \cup {n \in Targets : nameTable[n] = <<Head(fail)>>}
    /\ UNCHANGED <<queue, done, node, kafka, worker, spc, cmd, nameTable, blocked, count, harm>>

\* Another session consumes the same queues.
Stolen ==
    /\ stolen < MaxStolen /\ stolen' = stolen + 1
    /\ \/ done # <<>> /\ done' = Tail(done) /\ UNCHANGED fail
       \/ fail # <<>> /\ fail' = Tail(fail) /\ UNCHANGED done
    /\ UNCHANGED <<queue, node, kafka, worker, shell, published, runs, crashes, harm>>

-----------------------------------------------------------------------------
(* The worker. *)

Call(w) == task[w][1]
Goto(w, label) == wpc' = [wpc EXCEPT ![w] = label]
Return(w, value) ==
    Goto(w, "ack") /\ success' = [success EXCEPT ![w] = value]

Deliver(w) ==
    /\ wpc[w] = "idle" /\ queue # <<>>
    /\ task' = [task EXCEPT ![w] = Head(queue)]
    /\ queue' = Tail(queue)
    /\ Goto(w, "exists")
    /\ UNCHANGED <<done, fail, node, kafka, cnt, success, open, shell, count, harm>>

\* execNameCmd up to its decision.  A session that a namespace command has
\* closed throws, and the call counts as done.
LookUp(w) ==
    /\ wpc[w] = "exists" /\ Call(w) # Tree
    /\ skipped' = IF open[w] THEN skipped \ {Call(w)} ELSE skipped \cup {Call(w)}
    /\ cnt' = [cnt EXCEPT ![w] = node[Call(w)]]
    /\ \/ /\ open[w] /\ cnt'[w] = 0
          /\ Goto(w, "create") /\ UNCHANGED success
       \/ /\ open[w] /\ cnt'[w] \in 1 .. MaxExec
          /\ Goto(w, "lower") /\ UNCHANGED success
       \/ /\ ~ open[w] \/ cnt'[w] > MaxExec
          /\ Return(w, TRUE)
    /\ UNCHANGED <<broker, kafka, task, open, shell, count, sendFailures, threw, lost>>

\* execNamespaceCmd: purge or create, without a limit.
LookUpTree(w) ==
    /\ wpc[w] = "exists" /\ Call(w) = Tree
    /\ \/ /\ open[w]
          /\ Goto(w, IF node[Tree] = 0 THEN "create" ELSE "lower")
          /\ UNCHANGED success
       \/ /\ ~ open[w]
          /\ Return(w, FALSE)
    /\ UNCHANGED <<broker, kafka, task, cnt, open, shell, count, harm>>

\* zk.create throws when another worker has created the node in between; both
\* handlers catch that, and end with a value of their own.
Create(w) ==
    /\ wpc[w] = "create"
    /\ \/ /\ node[Call(w)] = 0
          /\ node' = [node EXCEPT ![Call(w)] = 1]
          /\ Goto(w, "run") /\ UNCHANGED success
       \/ /\ node[Call(w)] # 0
          /\ Return(w, Call(w) # Tree) /\ UNCHANGED node
    /\ UNCHANGED <<queue, done, fail, kafka, task, cnt, open, shell, count, harm>>

\* deleteTopic; kafka-configs fails for a topic that does not exist.
Lower(w) ==
    /\ wpc[w] = "lower"
    /\ short' = short \cup ({Call(w)} \cap topics)
    /\ Goto(w, "wait")
    /\ UNCHANGED <<broker, result, topics, bad, task, cnt, success, open, shell, count, harm>>

\* Variant: no time for the purge.
RestoreAtOnce(w) ==
    /\ wpc[w] = "wait"
    /\ short' = short \ {Call(w)}
    /\ Goto(w, IF Call(w) = Tree THEN "run" ELSE "count")
    /\ UNCHANGED <<broker, result, topics, bad, task, cnt, success, open, shell, count, harm>>

\* Variant: the retention stays short.
RestoreNot(w) ==
    /\ wpc[w] = "wait"
    /\ Call(w) \in short => result[Call(w)] = <<>>
    /\ Goto(w, IF Call(w) = Tree THEN "run" ELSE "count")
    /\ UNCHANGED <<broker, kafka, task, cnt, success, open, shell, count, harm>>

\* 30 s of sleep are enough for a topic whose retention is short.
Restore(w) ==
    /\ wpc[w] = "wait"
    /\ Call(w) \in short => result[Call(w)] = <<>>
    /\ short' = short \ {Call(w)}
    /\ Goto(w, IF Call(w) = Tree THEN "run" ELSE "count")
    /\ UNCHANGED <<broker, result, topics, bad, task, cnt, success, open, shell, count, harm>>

Purge(c) ==
    /\ c \in short /\ result[c] # <<>>
    /\ result' = [result EXCEPT ![c] = <<>>]
    /\ UNCHANGED <<broker, short, topics, bad, worker, shell, count, harm>>

\* Variant: the counter is left alone when the call is given up.
SetDataOnce(w) ==
    /\ wpc[w] = "count"
    /\ \/ /\ cnt[w] < MaxExec
          /\ node' = [node EXCEPT ![Call(w)] = cnt[w] + 1]
          /\ Goto(w, "run") /\ UNCHANGED success
       \/ /\ cnt[w] = MaxExec
          /\ Return(w, FALSE) /\ UNCHANGED node
    /\ UNCHANGED <<queue, done, fail, kafka, task, cnt, open, shell, count, harm>>

\* Variant: one execution too many.
SetDataLate(w) ==
    /\ wpc[w] = "count"
    /\ node' = [node EXCEPT ![Call(w)] = cnt[w] + 1]
    /\ \/ cnt[w] =< MaxExec /\ Goto(w, "run") /\ UNCHANGED success
       \/ cnt[w] > MaxExec /\ Return(w, FALSE)
    /\ UNCHANGED <<queue, done, fail, kafka, task, cnt, open, shell, count, harm>>

\* zk.setData, of what was read before the purge.
SetData(w) ==
    /\ wpc[w] = "count"
    /\ node' = [node EXCEPT ![Call(w)] = cnt[w] + 1]
    /\ \/ cnt[w] < MaxExec /\ Goto(w, "run") /\ UNCHANGED success
       \/ cnt[w] = MaxExec /\ Return(w, FALSE)
    /\ UNCHANGED <<queue, done, fail, kafka, task, cnt, open, shell, count, harm>>

\* normalProcessing; a namespace command has closed the session by now.
Start(w) ==
    /\ wpc[w] = "run"
    /\ open' = [open EXCEPT ![w] = @ /\ Call(w) # Tree]
    /\ cnt' = [cnt EXCEPT ![w] = 0]
    /\ threw' = threw \ {Call(w)}
    /\ runs' = [runs EXCEPT ![Call(w)] = @ + 1]
    /\ Goto(w, "send")
    /\ UNCHANGED <<broker, kafka, task, success, shell, published, crashes, stolen,
                   sendFailures, skipped, lost>>

\* The service: items and eof, or the err of a rejected archive.
NextRecord(w) ==
    IF Call(w) = Tree /\ bad THEN "err"
    ELSE IF cnt[w] < Items THEN "item" ELSE "eof"

Send(w) ==
    /\ wpc[w] = "send"
    /\ LET c == Call(w)
           rec == NextRecord(w) IN
       /\ result' = [result EXCEPT ![c] = Append(@, rec)]
       /\ topics' = topics \cup {c}
       /\ cnt' = [cnt EXCEPT ![w] = @ + 1]
       /\ \/ rec = "item" /\ UNCHANGED <<wpc, success>>
          \/ rec # "item" /\ Return(w, rec = "eof")
    /\ UNCHANGED <<broker, short, bad, task, open, shell, count, harm>>

\* A send that throws, with or without its record appended, ends the service,
\* whose catch returns true.
SendThrows(w) ==
    /\ wpc[w] = "send" /\ sendFailures < MaxSendFailures
    /\ LET c == Call(w) IN
       /\ \/ UNCHANGED <<result, topics>>
          \/ /\ result' = [result EXCEPT ![c] = Append(@, NextRecord(w))]
             /\ topics' = topics \cup {c}
       /\ threw' = threw \cup {c}
    /\ sendFailures' = sendFailures + 1
    /\ Return(w, TRUE)
    /\ UNCHANGED <<broker, short, bad, task, cnt, open, shell, count, skipped, lost>>

\* Variant: only a task that succeeded is acknowledged.
AckSuccess(w) ==
    /\ wpc[w] = "ack" /\ success[w]
    /\ Goto(w, "report")
    /\ UNCHANGED <<broker, kafka, task, cnt, success, open, shell, count, harm>>

Ack(w) ==
    /\ wpc[w] = "ack"
    /\ Goto(w, "report")
    /\ UNCHANGED <<broker, kafka, task, cnt, success, open, shell, count, harm>>

\* Variant: failures are not reported, successes go to no one.
ReportFailOnly(w) ==
    /\ wpc[w] = "report"
    /\ \/ success[w] /\ UNCHANGED <<done, fail>>
       \/ ~ success[w] /\ fail' = Append(fail, Call(w)) /\ UNCHANGED done
    /\ task' = [task EXCEPT ![w] = None] /\ Goto(w, "idle")
    /\ cnt' = [cnt EXCEPT ![w] = 0] /\ success' = [success EXCEPT ![w] = FALSE]
    /\ UNCHANGED <<queue, node, kafka, open, shell, count, harm>>

\* sendDone and sendFail, behind the acknowledgement.
Report(w) ==
    /\ wpc[w] = "report"
    /\ \/ success[w] /\ done' = Append(done, task[w][2]) /\ UNCHANGED fail
       \/ ~ success[w] /\ fail' = Append(fail, Call(w)) /\ UNCHANGED done
    /\ task' = [task EXCEPT ![w] = None] /\ Goto(w, "idle")
    /\ cnt' = [cnt EXCEPT ![w] = 0] /\ success' = [success EXCEPT ![w] = FALSE]
    /\ UNCHANGED <<queue, node, kafka, open, shell, count, harm>>

\* A worker dies; what it has not acknowledged is delivered again.  Another
\* one, with a session of its own, takes its place.
Crash(w) ==
    /\ wpc[w] # "idle" /\ crashes < MaxCrashes
    /\ crashes' = crashes + 1
    /\ lost' = (lost \/ wpc[w] = "report")
    /\ queue' = IF wpc[w] = "report" THEN queue ELSE <<task[w]>> \o queue
    /\ task' = [task EXCEPT ![w] = None] /\ Goto(w, "idle")
    /\ cnt' = [cnt EXCEPT ![w] = 0] /\ success' = [success EXCEPT ![w] = FALSE]
    /\ open' = [open EXCEPT ![w] = TRUE]
    /\ UNCHANGED <<done, fail, node, kafka, shell, published, runs, stolen,
                   sendFailures, threw, skipped>>
-----------------------------------------------------------------------------
Work(w) ==
    \/ Deliver(w) \/ LookUp(w) \/ LookUpTree(w) \/ Create(w) \/ Lower(w) \/ Restore(w)
    \/ SetData(w) \/ Start(w) \/ Send(w) \/ Ack(w) \/ Report(w)

Next ==
    \/ \E c \in Results, n \in Targets : Command(c, n)
    \/ ResultExists \/ SendTask \/ Block \/ ReceiveDone \/ ReceiveFail \/ Stolen
    \/ \E w \in Workers : Work(w) \/ SendThrows(w) \/ Crash(w)
    \/ \E c \in Results : Purge(c)

Spec == Init /\ [][Next]_vars

\* The threads of the workers and of the shell's connection run, and so does
\* the log cleaner.
FairSpec ==
    /\ Spec
    /\ \A w \in Workers : WF_vars(Work(w))
    /\ \A c \in Results : WF_vars(Purge(c))
    /\ WF_vars(ReceiveDone) /\ WF_vars(ReceiveFail)

-----------------------------------------------------------------------------
(* Properties. *)

Labels == {"idle", "exists", "create", "lower", "wait", "count", "run", "send", "ack",
           "report"}

\* Every variable has its type.
TypeOK ==
    /\ queue \in Seq(Commands) /\ done \in Seq(Targets) /\ fail \in Seq(Results)
    /\ node \in [Results -> 0 .. MaxExec + 1]
    /\ result \in [Results -> Seq({"item", "eof", "err"})]
    /\ short \subseteq topics /\ topics \subseteq Results /\ bad \in BOOLEAN
    /\ wpc \in [Workers -> Labels] /\ task \in [Workers -> Commands \cup {None}]
    /\ \A w \in Workers : wpc[w] = "idle" <=> task[w] = None
    /\ cnt \in [Workers -> Nat]
    /\ success \in [Workers -> BOOLEAN] /\ open \in [Workers -> BOOLEAN]
    /\ spc \in {"prompt", "exists", "send", "block"} /\ cmd \in Commands \cup {None}
    /\ spc # "prompt" => cmd # None
    /\ nameTable \in [Targets -> {<<c>> : c \in Results} \cup {None}]
    /\ blocked \subseteq Targets /\ failed \subseteq Targets
    /\ published \in [Results -> Nat] /\ runs \in [Results -> Nat]
    /\ crashes \in 0 .. MaxCrashes /\ stolen \in 0 .. MaxStolen
    /\ sendFailures \in 0 .. MaxSendFailures
    /\ threw \subseteq Results /\ skipped \subseteq Calls /\ lost \in BOOLEAN

Run(n) == [k \in 1 .. n |-> IF k =< Items THEN "item" ELSE "eof"]
Complete == Run(Items + 1)
Queued(c) == \E k \in 1 .. Len(queue) : queue[k][1] = c
Taken(c, w) == task[w] # None /\ Call(w) = c
Busy(c, w) == Taken(c, w) /\ wpc[w] # "report"
Pending(c) == Queued(c) \/ \E w \in Workers : Busy(c, w)
Waiting(c, n) ==
    \/ \E k \in 1 .. Len(queue) : queue[k] = <<c, n>>
    \/ \E w \in Workers : task[w] = <<c, n>>

\* What the code leaves of a call it is through with: a whole execution, as
\* much of one as came before a send that threw, or nothing of one given up.
Settled(c) ==
    \/ result[c] = Complete
    \/ c \in threw /\ \E n \in 0 .. Items + 1 : result[c] = Run(n)
    \/ result[c] = <<>> /\ node[c] = MaxExec + 1

\* A call published once is executed MaxExec times at most, however its workers
\* die: it is counted before it runs.
RunsBounded ==
    \A c \in Calls : published[c] =< 1 => runs[c] =< node[c] /\ runs[c] =< MaxExec

\* A call whose one message is acknowledged is settled, whatever died on the
\* way, unless its worker had closed its ZooKeeper session for a namespace and
\* passed it over, contrary to 04-3_driftimpl.tex:847-848.
AckedIsSettled ==
    \A c \in Calls :
        published[c] = 1 /\ ~ Pending(c) => Settled(c) \/ c \in skipped

\* A failure is reported of a call that has been given up, and of no other.
FailIsGivenUp ==
    \A k \in 1 .. Len(fail) :
        LET c == fail[k] IN
        c \in Calls /\ published[c] =< 1 => node[c] = MaxExec + 1 /\ result[c] = <<>>

\* A settled result is not touched again while nobody publishes its call anew.
SettledStays ==
    [][\A c \in Calls :
         published[c] = 1 /\ ~ Pending(c) /\ c \notin skipped =>
             result'[c] = result[c]]_vars

(***************************************************************************)
(* Why these hold.  The one message of a call is in the queue, with one    *)
(* worker or gone; whoever has it knows the counter, purges before it      *)
(* counts and counts before it runs.                                       *)
(***************************************************************************)
QueuedOnce(c) ==
    \A j, k \in 1 .. Len(queue) : queue[j][1] = c /\ queue[k][1] = c => j = k

OneTask(c) ==
    /\ QueuedOnce(c)
    /\ \A w \in Workers : Busy(c, w) =>
         ~ Queued(c) /\ \A v \in Workers : Busy(c, v) => v = w
    /\ \A w \in Workers : Taken(c, w) /\ wpc[w] = "report" => ~ Pending(c)

Counted(c) ==
    /\ node[c] = 0 => runs[c] = 0 /\ result[c] = <<>> /\ c \notin short
    /\ node[c] = MaxExec + 1 => result[c] = <<>> /\ c \notin short
    /\ runs[c] =< node[c] /\ runs[c] =< MaxExec
    /\ c \in short => Pending(c) \/ c \in skipped

AtWork(c, w) ==
    /\ wpc[w] = "create" => node[c] = 0
    /\ wpc[w] \in {"lower", "wait", "count"} =>
         cnt[w] = node[c] /\ node[c] \in 1 .. MaxExec
    /\ wpc[w] = "wait" => result[c] = <<>> \/ c \in short
    /\ wpc[w] \in {"count", "run"} => result[c] = <<>>
    /\ wpc[w] \in {"count", "run", "send"} => c \notin short
    /\ wpc[w] = "run" => runs[c] < node[c]
    /\ wpc[w] \in {"run", "send"} => node[c] \in 1 .. MaxExec
    /\ wpc[w] = "send" =>
         cnt[w] =< Items /\ result[c] = Run(cnt[w])
    /\ wpc[w] = "ack" /\ c \notin skipped => Settled(c) /\ c \notin short
    /\ wpc[w] \in {"ack", "report"} /\ ~ success[w] => node[c] = MaxExec + 1

CountedInOrder ==
    /\ \A c \in Calls : published[c] =< 1 =>
         /\ OneTask(c) /\ Counted(c)
         /\ \A w \in Workers : Taken(c, w) => AtWork(c, w)
    /\ \A c \in Results :
         /\ Queued(c) \/ (\E w \in Workers : Taken(c, w)) \/ node[c] # 0 =>
              published[c] > 0
         /\ result[c] # <<>> => c \in topics
    /\ published[Tree] = 0 => skipped = {} /\ \A w \in Workers : open[w]

\* Unless its report goes to another session or dies with its worker, a name
\* that is blocked while its task is under way is released or known to have
\* failed in the end, however often its call is executed.
BlockedIsReleased ==
    [](stolen = 0 /\ ~ lost) =>
        \A c \in Calls, n \in Names :
            n \in blocked /\ Waiting(c, n) ~> n \notin blocked \/ n \in failed

\* A call published once is settled in the end, whatever crashes, or passed
\* over by a worker without a session.
CallsSettle ==
    \A c \in Calls :
        published[c] = 1 ~> \/ ~ Pending(c) /\ (Settled(c) \/ c \in skipped)
                           \/ published[c] > 1
=============================================================================
