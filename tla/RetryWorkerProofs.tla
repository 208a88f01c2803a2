-------------------------- MODULE RetryWorkerProofs --------------------------
(***************************************************************************)
(* Theorems about RetryWorker, for any number of workers, crashes and      *)
(* stolen reports and any limit: a call published once is executed MaxExec *)
(* times at most, and what is left of it when its task is acknowledged is  *)
(* one whole execution or nothing.                                         *)
(***************************************************************************)
EXTENDS RetryWorker, TLAPS

Inv == TypeOK /\ CountedInOrder /\ FailIsGivenUp /\ AckedIsSettled

\* The part of it that is about one call.
Lone(c) ==
    /\ OneTask(c) /\ Counted(c)
    /\ \A w \in Workers : Taken(c, w) => AtWork(c, w)
    /\ published[c] = 1 /\ ~ Pending(c) => Settled(c) \/ c \in skipped

-----------------------------------------------------------------------------
(* Types. *)

LEMMA CommandType ==
    /\ None \notin Commands
    /\ \A t \in Commands : t = <<t[1], t[2]>> /\ t[1] \in Results /\ t[2] \in Targets
    /\ \A t \in Commands : t[1] # Tree => t[1] \in Calls
BY DEF Commands, Results, Targets, None

LEMMA BusyHasTask ==
    ASSUME TypeOK, NEW w \in Workers, wpc[w] # "idle"
    PROVE  task[w] \in Commands /\ Call(w) \in Results
BY CommandType DEF TypeOK, Call

LEMMA QueueTypes ==
    ASSUME TypeOK
    PROVE  /\ queue \in Seq(Commands) /\ done \in Seq(Targets) /\ fail \in Seq(Results)
           /\ node \in [Results -> 0 .. MaxExec + 1] /\ published \in [Results -> Nat]
BY DEF TypeOK

\* What can happen to a queue keeps its type.
LEMMA QueueStep ==
    ASSUME NEW S, NEW q \in Seq(S), NEW r,
           \/ r = q
           \/ q # <<>> /\ r = Tail(q)
           \/ \E x \in S : r = Append(q, x)
    PROVE  r \in Seq(S)
OBVIOUS

LEMMA WorkType == ASSUME TypeOK, NEW w \in Workers, Work(w) PROVE TypeOK'
<1> USE RetryAssumption DEF TypeOK, Goto, Return, Labels, harm
<1>1. CASE Deliver(w)
  <2>1. Head(queue) \in Commands /\ Tail(queue) \in Seq(Commands)
    BY <1>1 DEF Deliver
  <2>2. Head(queue) # None BY <2>1, CommandType
  <2> QED BY <1>1, <2>1, <2>2 DEF Deliver, kafka, shell, count
<1>2. CASE LookUp(w)
  <2>1. node[Call(w)] \in Nat /\ Call(w) \in Calls
    BY <1>2, BusyHasTask DEF LookUp, Results
  <2> QED BY <1>2, <2>1 DEF LookUp, broker, kafka, shell, count
<1>3. CASE LookUpTree(w)
  BY <1>3 DEF LookUpTree, broker, kafka, shell, count
<1>4. CASE Create(w)
  <2> DEFINE value == Call(w) # Tree
  <2>1. value \in BOOLEAN OBVIOUS
  <2>2. /\ \/ success' = success /\ wpc' = [wpc EXCEPT ![w] = "run"]
           \/ success' = [success EXCEPT ![w] = value]
              /\ wpc' = [wpc EXCEPT ![w] = "ack"]
        /\ node' = node \/ node' = [node EXCEPT ![Call(w)] = 1]
        /\ wpc[w] = "create"
        /\ UNCHANGED <<queue, done, fail, kafka, task, cnt, open, shell, count, harm>>
    BY <1>4 DEF Create
  <2> HIDE DEF value
  <2>3. success' \in [Workers -> BOOLEAN]
    <3>1. success \in [Workers -> BOOLEAN] OBVIOUS
    <3> HIDE DEF TypeOK
    <3> QED BY <2>1, <2>2, <3>1
  <2>4. node' \in [Results -> 0 .. MaxExec + 1]
    <3>1. node \in [Results -> 0 .. MaxExec + 1] /\ 1 \in 0 .. MaxExec + 1 OBVIOUS
    <3> HIDE DEF TypeOK
    <3> QED BY <2>2, <3>1
  <2>5. wpc' \in [Workers -> Labels]
        /\ \A v \in Workers : wpc'[v] = "idle" <=> wpc[v] = "idle"
    BY <2>2
  <2> QED BY <2>2, <2>3, <2>4, <2>5 DEF kafka, shell, count
<1>5. CASE Lower(w)
  BY <1>5 DEF Lower, broker, shell, count
<1>6. CASE Restore(w)
  BY <1>6 DEF Restore, broker, shell, count
<1>7. CASE SetData(w)
  <2>1. cnt[w] + 1 \in 0 .. MaxExec + 1
    BY <1>7 DEF SetData
  <2> QED BY <1>7, <2>1 DEF SetData, kafka, shell, count
<1>8. CASE Start(w)
  <2>1. Call(w) \in Results BY <1>8, BusyHasTask DEF Start
  <2>2. (open[w] /\ Call(w) # Tree) \in BOOLEAN OBVIOUS
  <2>3. open' \in [Workers -> BOOLEAN] BY <1>8, <2>2 DEF Start
  <2>4. runs' \in [Results -> Nat] BY <1>8, <2>1 DEF Start
  <2> QED BY <1>8, <2>3, <2>4 DEF Start, broker, kafka, shell
<1>9. CASE Send(w)
  <2> DEFINE rec == IF Call(w) = Tree /\ bad THEN "err"
                    ELSE IF cnt[w] < Items THEN "item" ELSE "eof"
  <2>1. rec \in {"item", "eof", "err"} /\ (rec = "eof") \in BOOLEAN OBVIOUS
  <2>2. Call(w) \in Results BY <1>9, BusyHasTask DEF Send
  <2>3. /\ result' = [result EXCEPT ![Call(w)] = Append(@, rec)]
        /\ topics' = topics \cup {Call(w)}
        /\ \/ UNCHANGED <<wpc, success>>
           \/ /\ wpc' = [wpc EXCEPT ![w] = "ack"]
              /\ success' = [success EXCEPT ![w] = (rec = "eof")]
    BY <1>9 DEF Send, NextRecord
  <2> HIDE DEF rec
  <2>4. result' \in [Results -> Seq({"item", "eof", "err"})]
    BY <2>1, <2>2, <2>3
  <2>5. /\ success' \in [Workers -> BOOLEAN] /\ wpc' \in [Workers -> Labels]
        /\ \A v \in Workers : wpc'[v] = "idle" <=> wpc[v] = "idle"
    BY <1>9, <2>1, <2>3 DEF Send
  <2>6. /\ cnt' \in [Workers -> Nat]
        /\ UNCHANGED <<broker, short, bad, task, open, shell, count, harm>>
    BY <1>9 DEF Send
  <2> QED BY <2>2, <2>3, <2>4, <2>5, <2>6 DEF broker, shell, count
<1>10. CASE Ack(w)
  BY <1>10 DEF Ack, broker, kafka, shell, count
<1>11. CASE Report(w)
  <2>1. task[w][2] \in Targets /\ Call(w) \in Results
    BY <1>11, BusyHasTask, CommandType DEF Report
  <2>2. done' \in Seq(Targets) /\ fail' \in Seq(Results)
    BY <1>11, <2>1, QueueTypes, QueueStep DEF Report
  <2>3. UNCHANGED <<queue, node, kafka, open, shell, count, harm>>
    BY <1>11 DEF Report
  <2>4. /\ wpc' = [wpc EXCEPT ![w] = "idle"] /\ task' = [task EXCEPT ![w] = None]
        /\ cnt' = [cnt EXCEPT ![w] = 0] /\ success' = [success EXCEPT ![w] = FALSE]
    BY <1>11 DEF Report
  <2> QED BY <2>2, <2>3, <2>4 DEF kafka, shell, count
<1> QED
  BY <1>1, <1>2, <1>3, <1>4, <1>5, <1>6, <1>7, <1>8, <1>9, <1>10, <1>11 DEF Work

LEMMA ThrowType == ASSUME TypeOK, NEW w \in Workers, SendThrows(w) PROVE TypeOK'
<1>1. Call(w) \in Results BY BusyHasTask DEF SendThrows
<1> DEFINE rec == NextRecord(w)
<1>2. rec \in {"item", "eof", "err"} BY DEF NextRecord
<1>3. /\ \/ UNCHANGED <<result, topics>>
         \/ /\ result' = [result EXCEPT ![Call(w)] = Append(@, rec)]
            /\ topics' = topics \cup {Call(w)}
      /\ threw' = threw \cup {Call(w)}
      /\ sendFailures' = sendFailures + 1 /\ sendFailures < MaxSendFailures
      /\ wpc[w] = "send" /\ wpc' = [wpc EXCEPT ![w] = "ack"]
      /\ success' = [success EXCEPT ![w] = TRUE]
      /\ UNCHANGED <<broker, short, bad, task, cnt, open, shell, count, skipped, lost>>
  BY DEF SendThrows, Return, Goto
<1> HIDE DEF rec
<1>4. /\ result' \in [Results -> Seq({"item", "eof", "err"})]
      /\ short' \subseteq topics' /\ topics' \subseteq Results
  <2>1. /\ result \in [Results -> Seq({"item", "eof", "err"})]
        /\ short \subseteq topics /\ topics \subseteq Results
    BY DEF TypeOK
  <2>2. CASE UNCHANGED <<result, topics>>
    BY <1>3, <2>1, <2>2
  <2>3. CASE /\ result' = [result EXCEPT ![Call(w)] = Append(@, rec)]
             /\ topics' = topics \cup {Call(w)}
    BY <1>1, <1>2, <1>3, <2>1, <2>3
  <2> QED BY <1>3, <2>2, <2>3
<1>5. /\ wpc' \in [Workers -> Labels] /\ success' \in [Workers -> BOOLEAN]
      /\ \A v \in Workers : wpc'[v] = "idle" <=> wpc[v] = "idle"
  BY <1>3 DEF TypeOK, Labels
<1>6. sendFailures' \in 0 .. MaxSendFailures /\ threw' \subseteq Results
  BY <1>1, <1>3, RetryAssumption DEF TypeOK
<1> QED BY <1>1, <1>3, <1>4, <1>5, <1>6 DEF TypeOK, broker, shell, count

LEMMA ShellType ==
    ASSUME TypeOK,
           \/ \E c \in Results, n \in Targets : Command(c, n)
           \/ ResultExists \/ SendTask \/ Block \/ ReceiveDone \/ ReceiveFail \/ Stolen
    PROVE  TypeOK'
<1>1. ASSUME NEW c \in Results, NEW n \in Targets, Command(c, n) PROVE TypeOK'
  <2>1. cmd' \in Commands /\ cmd' # None BY <1>1, CommandType DEF Command
  <2>2. failed' \subseteq Targets BY <1>1 DEF Command, TypeOK
  <2> QED BY <1>1, <2>1, <2>2 DEF Command, TypeOK, broker, kafka, worker, count, harm
<1> USE DEF TypeOK, harm
<1>2. CASE ResultExists \/ SendTask \/ Block
  <2>1. cmd \in Commands /\ cmd[1] \in Results /\ cmd[2] \in Targets
    BY <1>2, CommandType DEF ResultExists, SendTask, Block
  <2>2. Bind => nameTable' \in [Targets -> {<<c>> : c \in Results} \cup {None}]
    BY <2>1 DEF Bind
  <2>3. CASE ResultExists
    BY <2>1, <2>2, <2>3 DEF ResultExists, broker, kafka, worker, count
  <2>4. CASE SendTask
    <3>1. queue' \in Seq(Commands) /\ published' \in [Results -> Nat]
      <4>1. queue' = queue \/ queue' = Append(queue, cmd)
        BY <2>4 DEF SendTask
      <4>2. published' = published \/ published' = [published EXCEPT ![cmd[1]] = @ + 1]
        BY <2>4 DEF SendTask
      <4>3. published' \in [Results -> Nat]
        <5>1. published \in [Results -> Nat] OBVIOUS
        <5> HIDE DEF TypeOK
        <5> QED BY <2>1, <4>2, <5>1
      <4> QED BY <2>1, <4>1, <4>3, QueueStep
    <3> QED BY <2>1, <2>4, <3>1 DEF SendTask, kafka, worker
  <2>5. CASE Block
    BY <2>1, <2>2, <2>5 DEF Block, broker, kafka, worker, count
  <2> QED BY <1>2, <2>3, <2>4, <2>5
<1>3. CASE ReceiveDone \/ ReceiveFail
  <2>1. done' \in Seq(Targets) /\ fail' \in Seq(Results)
    BY <1>3, QueueStep DEF ReceiveDone, ReceiveFail
  <2> QED BY <1>3, <2>1 DEF ReceiveDone, ReceiveFail, kafka, worker, count
<1>4. CASE Stolen
  <2>1. done' \in Seq(Targets) /\ fail' \in Seq(Results)
    BY <1>4, QueueStep DEF Stolen
  <2>2. /\ stolen' \in 0 .. MaxStolen
        /\ UNCHANGED <<queue, node, kafka, worker, shell, published, runs, crashes, harm>>
    BY <1>4, RetryAssumption DEF Stolen
  <2> QED BY <2>1, <2>2 DEF kafka, worker, shell
<1> QED BY <1>1, <1>2, <1>3, <1>4

LEMMA NextType == TypeOK /\ [Next]_vars => TypeOK'
<1> SUFFICES ASSUME TypeOK, [Next]_vars PROVE TypeOK'
  OBVIOUS
<1>1. ASSUME NEW w \in Workers, Crash(w) PROVE TypeOK'
  <2>1. task[w] \in Commands BY <1>1, BusyHasTask DEF Crash
  <2>2. <<task[w]>> \o queue \in Seq(Commands) BY <2>1 DEF TypeOK
  <2> QED
    BY <1>1, <2>2, RetryAssumption DEF Crash, TypeOK, Goto, Labels, kafka, shell, harm
<1>2. ASSUME NEW c \in Results, Purge(c) PROVE TypeOK'
  <2>1. result' \in [Results -> Seq({"item", "eof", "err"})]
    BY <1>2 DEF Purge, TypeOK
  <2> QED BY <1>2, <2>1 DEF Purge, TypeOK, broker, worker, shell, count, harm
<1>3. CASE UNCHANGED vars
  BY <1>3 DEF TypeOK, vars, broker, kafka, worker, shell, count, harm
<1> QED BY <1>1, <1>2, <1>3, WorkType, ThrowType, ShellType DEF Next
-----------------------------------------------------------------------------
(* Where the messages of a call are. *)

LEMMA QueuedAppend ==
    ASSUME TypeOK, NEW t \in Commands, queue' = Append(queue, t), NEW c
    PROVE  /\ Queued(c)' <=> Queued(c) \/ t[1] = c
           /\ ~ (Queued(c) /\ t[1] = c) /\ QueuedOnce(c) => QueuedOnce(c)'
<1>1. /\ queue \in Seq(Commands) /\ Len(queue) \in Nat
      /\ Len(queue') = Len(queue) + 1
      /\ \A k \in 1 .. Len(queue) : queue'[k] = queue[k]
      /\ queue'[Len(queue) + 1] = t
  BY QueueTypes
<1> QED BY <1>1 DEF Queued, QueuedOnce

LEMMA QueuedTail ==
    ASSUME TypeOK, queue # <<>>, queue' = Tail(queue), NEW c
    PROVE  /\ Queued(c) <=> Queued(c)' \/ Head(queue)[1] = c
           /\ QueuedOnce(c) => QueuedOnce(c)' /\ ~ (Queued(c)' /\ Head(queue)[1] = c)
<1>1. /\ queue \in Seq(Commands) /\ Len(queue) \in Nat \ {0}
      /\ Len(queue') = Len(queue) - 1
      /\ \A k \in 1 .. Len(queue') : queue'[k] = queue[k + 1]
      /\ Head(queue) = queue[1]
  BY QueueTypes
<1>2. Queued(c) => Queued(c)' \/ Head(queue)[1] = c
  <2>1. ASSUME NEW k \in 1 .. Len(queue), queue[k][1] = c, k # 1
        PROVE  k - 1 \in 1 .. Len(queue') /\ queue'[k - 1][1] = c
    BY <1>1, <2>1
  <2> QED BY <1>1, <2>1 DEF Queued
<1>3. Queued(c)' \/ Head(queue)[1] = c => Queued(c)
  BY <1>1 DEF Queued
<1>4. QueuedOnce(c) => QueuedOnce(c)'
  BY <1>1 DEF QueuedOnce
<1>5. ASSUME QueuedOnce(c), NEW k \in 1 .. Len(queue'), queue'[k][1] = c,
             Head(queue)[1] = c
      PROVE  FALSE
  BY <1>1, <1>5 DEF QueuedOnce
<1> QED BY <1>2, <1>3, <1>4, <1>5 DEF Queued

LEMMA QueuedBack ==
    ASSUME TypeOK, NEW t \in Commands, queue' = <<t>> \o queue, NEW c
    PROVE  /\ Queued(c)' <=> Queued(c) \/ t[1] = c
           /\ ~ (Queued(c) /\ t[1] = c) /\ QueuedOnce(c) => QueuedOnce(c)'
<1>1. /\ queue \in Seq(Commands) /\ Len(queue) \in Nat
      /\ Len(queue') = Len(queue) + 1
      /\ queue'[1] = t
      /\ \A k \in 1 .. Len(queue) : queue'[k + 1] = queue[k]
      /\ \A k \in 2 .. Len(queue) + 1 : queue'[k] = queue[k - 1]
  BY QueueTypes
<1>2. Queued(c)' => Queued(c) \/ t[1] = c
  BY <1>1 DEF Queued
<1>3. Queued(c) \/ t[1] = c => Queued(c)'
  <2>1. ASSUME NEW k \in 1 .. Len(queue), queue[k][1] = c
        PROVE  k + 1 \in 1 .. Len(queue') /\ queue'[k + 1][1] = c
    BY <1>1, <2>1
  <2>2. 1 \in 1 .. Len(queue') BY <1>1
  <2> QED BY <1>1, <2>1, <2>2 DEF Queued
<1>4. ~ (Queued(c) /\ t[1] = c) /\ QueuedOnce(c) => QueuedOnce(c)'
  <2> SUFFICES ASSUME ~ (Queued(c) /\ t[1] = c), QueuedOnce(c),
                      NEW j \in 1 .. Len(queue'), NEW k \in 1 .. Len(queue'),
                      queue'[j][1] = c, queue'[k][1] = c
               PROVE  j = k
    BY DEF QueuedOnce
  <2>1. CASE j = 1 \/ k = 1
    BY <1>1, <2>1 DEF Queued
  <2>2. CASE j # 1 /\ k # 1
    <3>1. /\ j - 1 \in 1 .. Len(queue) /\ k - 1 \in 1 .. Len(queue)
          /\ queue[j - 1][1] = c /\ queue[k - 1][1] = c
      BY <1>1, <2>2
    <3>2. j - 1 = k - 1 BY <3>1 DEF QueuedOnce
    <3> QED BY <1>1, <3>2
  <2> QED BY <2>1, <2>2
<1> QED BY <1>2, <1>3, <1>4
-----------------------------------------------------------------------------
(* One call that is published once. *)

LEMMA LoneHolds ==
    ASSUME Inv, NEW c \in Calls, published[c] =< 1
    PROVE  Lone(c)
BY DEF Inv, CountedInOrder, AckedIsSettled, Lone

\* Only one worker knows of it.
LEMMA Alone ==
    ASSUME TypeOK, NEW c \in Calls, NEW w \in Workers, OneTask(c), Busy(c, w)
    PROVE  /\ \A v \in Workers : Taken(c, v) => v = w
           /\ ~ Queued(c) /\ Pending(c)
BY DEF OneTask, Busy, Pending

\* A step that is about something else.
LEMMA ElsewhereKeeps ==
    ASSUME TypeOK, NEW c \in Calls, Lone(c), published'[c] = published[c],
           node'[c] = node[c], result'[c] = result[c], runs'[c] = runs[c],
           c \in short' <=> c \in short, c \in threw' <=> c \in threw,
           c \in skipped' <=> c \in skipped, Queued(c)' <=> Queued(c),
           QueuedOnce(c) => QueuedOnce(c)',
           \A v \in Workers : Taken(c, v)' =>
               Taken(c, v) /\ wpc'[v] = wpc[v] /\ cnt'[v] = cnt[v] /\ success'[v] = success[v],
           \A v \in Workers : Busy(c, v) => Busy(c, v)'
    PROVE  Lone(c)'
<1>1. \A v \in Workers : Busy(c, v)' <=> Busy(c, v)
  BY DEF Busy
<1>2. Pending(c)' <=> Pending(c)
  BY <1>1 DEF Pending
<1>3. OneTask(c)'
  BY <1>1, <1>2 DEF Lone, OneTask
<1>4. Settled(c)' <=> Settled(c)
  BY DEF Settled
<1>5. Counted(c)'
  BY <1>2 DEF Lone, Counted
<1>6. \A v \in Workers : Taken(c, v)' => AtWork(c, v)'
  BY <1>4 DEF Lone, AtWork
<1> QED BY <1>2, <1>3, <1>4, <1>5, <1>6 DEF Lone

\* A turn of the worker that has it.
LEMMA TurnKeeps ==
    ASSUME TypeOK, NEW c \in Calls, Lone(c), NEW w \in Workers, Busy(c, w),
           queue' = queue, task' = task,
           \A v \in Workers \ {w} : wpc'[v] = wpc[v],
           wpc'[w] # "report", Counted(c)', AtWork(c, w)'
    PROVE  Lone(c)'
<1>1. /\ \A v \in Workers : Taken(c, v)' <=> Taken(c, v)
      /\ Queued(c)' <=> Queued(c)
      /\ QueuedOnce(c)'
  BY DEF Taken, Call, Queued, QueuedOnce, Lone, OneTask
<1>2. /\ \A v \in Workers : Taken(c, v) => v = w
      /\ ~ Queued(c)
  BY Alone DEF Lone
<1>3. \A v \in Workers : Busy(c, v)' => v = w
  BY <1>1, <1>2 DEF Busy
<1>4. OneTask(c)'
  BY <1>1, <1>2, <1>3 DEF OneTask
<1>5. Pending(c)'
  BY DEF Pending, Busy, Taken, Call
<1> QED BY <1>1, <1>2, <1>4, <1>5 DEF Lone

LEMMA ShellKeeps ==
    ASSUME Inv, NEW c \in Calls, published'[c] =< 1,
           \/ \E k \in Results, n \in Targets : Command(k, n)
           \/ ResultExists \/ SendTask \/ Block \/ ReceiveDone \/ ReceiveFail \/ Stolen
    PROVE  Lone(c)'
<1>1. TypeOK /\ published \in [Results -> Nat] /\ Tree \in Results /\ c \in Results
      /\ Tree # c
  BY RetryAssumption, QueueTypes DEF Inv, Results
<1>2. CASE UNCHANGED <<queue, node, kafka, worker, count, harm>>
  <2>1. Lone(c) BY <1>2, LoneHolds DEF count
  <2>2. /\ Queued(c)' <=> Queued(c)
        /\ QueuedOnce(c) => QueuedOnce(c)'
        /\ \A v \in Workers : Taken(c, v)' <=> Taken(c, v)
    BY <1>2 DEF Queued, QueuedOnce, Taken, Call, worker
  <2>3. \A v \in Workers : Busy(c, v) => Busy(c, v)'
    BY <1>2, <2>2 DEF Busy, worker
  <2> QED
    BY <1>1, <1>2, <2>1, <2>2, <2>3, ElsewhereKeeps DEF kafka, worker, count, harm
<1>3. ASSUME Stolen PROVE Lone(c)'
  <2>1. UNCHANGED <<queue, node, kafka, worker, published, runs, harm>>
    BY <1>3 DEF Stolen
  <2>2. Lone(c) BY <2>1, LoneHolds
  <2>3. /\ Queued(c)' <=> Queued(c)
        /\ QueuedOnce(c) => QueuedOnce(c)'
        /\ \A v \in Workers : Taken(c, v)' <=> Taken(c, v)
    BY <2>1 DEF Queued, QueuedOnce, Taken, Call, worker
  <2>4. \A v \in Workers : Busy(c, v) => Busy(c, v)'
    BY <2>1, <2>3 DEF Busy, worker
  <2> QED
    BY <1>1, <2>1, <2>2, <2>3, <2>4, ElsewhereKeeps DEF kafka, worker, harm
<1>4. ASSUME SendTask, UNCHANGED <<queue, published>> PROVE Lone(c)'
  BY <1>2, <1>4 DEF SendTask, kafka, worker, count, harm
<1>5. ASSUME SendTask, queue' = Append(queue, cmd),
             published' = [published EXCEPT ![cmd[1]] = @ + 1]
      PROVE  Lone(c)'
  <2>1. cmd \in Commands /\ cmd[1] \in Results
    BY <1>1, <1>5, CommandType DEF SendTask, TypeOK
  <2>2. UNCHANGED <<node, kafka, worker, runs, harm>>
    BY <1>5 DEF SendTask
  <2>3. \A v \in Workers : Taken(c, v)' <=> Taken(c, v)
    BY <2>2 DEF Taken, Call, worker
  <2>4. \A v \in Workers : Busy(c, v)' <=> Busy(c, v)
    BY <2>2, <2>3 DEF Busy, worker
  <2>5. published[c] =< 1
    BY <1>1, <1>5, <2>1
  <2>6. Lone(c) BY <2>5, LoneHolds
  <2>7. CASE cmd[1] # c
    <3>1. /\ Queued(c)' <=> Queued(c)
          /\ QueuedOnce(c) => QueuedOnce(c)'
      BY <1>1, <1>5, <2>1, <2>7, QueuedAppend
    <3>2. published'[c] = published[c] BY <1>1, <1>5, <2>7
    <3> QED
      BY <1>1, <2>2, <2>3, <2>4, <2>6, <3>1, <3>2, ElsewhereKeeps
         DEF kafka, worker, harm
  <2>8. CASE cmd[1] = c
    <3>1. published[c] = 0 BY <1>1, <1>5, <2>8
    <3>2. ~ Queued(c) /\ node[c] = 0 /\ \A v \in Workers : ~ Taken(c, v)
      BY <1>1, <3>1 DEF Inv, CountedInOrder
    <3>3. Queued(c)' /\ QueuedOnce(c)'
      BY <1>1, <1>5, <2>1, <2>6, <2>8, <3>2, QueuedAppend DEF Lone, OneTask
    <3>4. OneTask(c)' /\ Pending(c)'
      BY <2>3, <3>2, <3>3 DEF OneTask, Busy, Pending
    <3>5. Counted(c)'
      BY <2>2, <2>6, <3>2, <3>4, RetryAssumption DEF Lone, Counted, kafka
    <3> QED BY <2>3, <3>2, <3>4, <3>5 DEF Lone
  <2> QED BY <2>7, <2>8
<1>6. SendTask => Lone(c)'
  BY <1>4, <1>5 DEF SendTask
<1>7. ResultExists \/ Block \/ ReceiveDone \/ ReceiveFail => Lone(c)'
  BY <1>2 DEF ResultExists, Block, ReceiveDone, ReceiveFail, broker, count, harm
<1>8. (\E k \in Results, n \in Targets : Command(k, n)) => Lone(c)'
  BY <1>2 DEF Command, broker, count, harm
<1> QED BY <1>3, <1>6, <1>7, <1>8

\* A worker changes no variable of another one, and its task at the two ends only.
LEMMA WorkOfOne ==
    ASSUME TypeOK, NEW w \in Workers, Work(w)
    PROVE  /\ \A v \in Workers \ {w} : wpc'[v] = wpc[v] /\ task'[v] = task[v]
                                     /\ cnt'[v] = cnt[v] /\ success'[v] = success[v]
           /\ task'[w] = task[w] \/ (Deliver(w) /\ task'[w] = Head(queue)) \/ task'[w] = None
<1>1. /\ task \in [Workers -> Commands \cup {None}] /\ wpc \in [Workers -> Labels]
      /\ cnt \in [Workers -> Nat] /\ success \in [Workers -> BOOLEAN]
  BY DEF TypeOK
<1>2. CASE Deliver(w)
  BY <1>1, <1>2 DEF Deliver, Goto
<1>3. CASE LookUp(w) \/ LookUpTree(w)
  BY <1>1, <1>3 DEF LookUp, LookUpTree, Goto, Return
<1>4. CASE Create(w)
  <2>1. /\ UNCHANGED <<task, cnt>>
        /\ \E x : wpc' = [wpc EXCEPT ![w] = x]
        /\ success' = success \/ \E x : success' = [success EXCEPT ![w] = x]
    BY <1>4 DEF Create, Goto, Return
  <2> QED BY <1>1, <2>1
<1>5. CASE Lower(w) \/ Restore(w)
  <2>1. /\ UNCHANGED <<task, cnt, success>>
        /\ \E x : wpc' = [wpc EXCEPT ![w] = x]
    BY <1>5 DEF Lower, Restore, Goto
  <2> QED BY <1>1, <2>1
<1>6. CASE SetData(w)
  BY <1>1, <1>6 DEF SetData, Goto, Return
<1>7. CASE Start(w)
  BY <1>1, <1>7 DEF Start, Goto
<1>8. CASE Send(w)
  <2>1. /\ task' = task
        /\ \E x : cnt' = [cnt EXCEPT ![w] = x]
        /\ wpc' = wpc \/ \E x : wpc' = [wpc EXCEPT ![w] = x]
        /\ success' = success \/ \E x : success' = [success EXCEPT ![w] = x]
    BY <1>8 DEF Send, Goto, Return
  <2> QED BY <1>1, <2>1
<1>9. CASE Ack(w) \/ Report(w)
  BY <1>1, <1>9 DEF Ack, Report, Goto
<1> QED
  BY <1>2, <1>3, <1>4, <1>5, <1>6, <1>7, <1>8, <1>9 DEF Work

\* A step of a worker that has another task, or of the log cleaner.
LEMMA OthersKeep ==
    ASSUME Inv, NEW c \in Calls, NEW w \in Workers, published[c] =< 1, ~ Taken(c, w),
           Work(w), Deliver(w) => Head(queue)[1] # c
    PROVE  Lone(c)'
<1>1. TypeOK /\ published \in [Results -> Nat] /\ Tree \in Results /\ c \in Results
      /\ Lone(c)
  BY LoneHolds, QueueTypes DEF Inv, Results
<1>2. wpc[w] # "idle" => task[w] \in Commands /\ Call(w) # c
  BY <1>1, BusyHasTask, CommandType DEF Taken
<1>3. published' = published
  BY DEF Work, Deliver, LookUp, LookUpTree, Create, Lower, Restore, SetData, Start, Send,
         Ack, Report, count
<1>4. /\ node'[c] = node[c] /\ result'[c] = result[c] /\ runs'[c] = runs[c]
      /\ c \in short' <=> c \in short
      /\ c \in threw' <=> c \in threw
      /\ c \in skipped' <=> c \in skipped
  <2>1. CASE Deliver(w) \/ LookUpTree(w) \/ Ack(w) \/ Report(w)
    BY <2>1 DEF Deliver, LookUpTree, Ack, Report, broker, kafka, count, harm
  <2>6. CASE LookUp(w)
    <3>1. Call(w) # c BY <1>2, <2>6 DEF LookUp
    <3> QED BY <2>6, <3>1 DEF LookUp, broker, kafka, count
  <2>2. CASE Create(w) \/ SetData(w)
    <3>1. Call(w) # c BY <1>2, <2>2 DEF Create, SetData
    <3>2. /\ \/ node' = node \/ \E x : node' = [node EXCEPT ![Call(w)] = x]
          /\ UNCHANGED <<kafka, count, harm>>
      BY <2>2 DEF Create, SetData
    <3>3. node \in [Results -> 0 .. MaxExec + 1] BY <1>1, QueueTypes
    <3> QED BY <1>1, <3>1, <3>2, <3>3 DEF kafka, count, harm
  <2>3. CASE Lower(w) \/ Restore(w)
    <3>1. Call(w) # c BY <1>2, <2>3 DEF Lower, Restore
    <3> QED BY <2>3, <3>1 DEF Lower, Restore, broker, count, harm
  <2>4. CASE Start(w)
    <3>1. Call(w) # c BY <1>2, <2>4 DEF Start
    <3> QED BY <1>1, <2>4, <3>1 DEF Start, broker, kafka, TypeOK
  <2>5. CASE Send(w)
    <3>1. Call(w) # c BY <1>2, <2>5 DEF Send
    <3>2. \E x : result' = [result EXCEPT ![Call(w)] = x]
      BY <2>5 DEF Send
    <3> QED BY <1>1, <2>5, <3>1, <3>2 DEF Send, broker, count, harm, TypeOK
  <2> QED BY <2>1, <2>2, <2>3, <2>4, <2>5, <2>6 DEF Work
<1>5. /\ Queued(c)' <=> Queued(c)
      /\ QueuedOnce(c) => QueuedOnce(c)'
  <2>1. CASE Deliver(w)
    BY <1>1, <2>1, QueuedTail DEF Deliver
  <2>2. CASE ~ Deliver(w)
    <3>1. queue' = queue
      BY <2>2 DEF Work, LookUp, LookUpTree, Create, Lower, Restore, SetData, Start, Send,
         Ack, Report, broker
    <3> QED BY <3>1 DEF Queued, QueuedOnce
  <2> QED BY <2>1, <2>2
<1>6. /\ \A v \in Workers \ {w} : wpc'[v] = wpc[v] /\ task'[v] = task[v]
                                 /\ cnt'[v] = cnt[v] /\ success'[v] = success[v]
      /\ task'[w] = task[w] \/ (Deliver(w) /\ task'[w] = Head(queue)) \/ task'[w] = None
  BY <1>1, WorkOfOne
<1>7. \A v \in Workers : Taken(c, v)' <=> v # w /\ Taken(c, v)
  <2>1. ~ Taken(c, w)'
    BY <1>6 DEF Taken, Call
  <2> QED BY <1>6, <2>1 DEF Taken, Call
<1>8. \A v \in Workers : Busy(c, v) => Busy(c, v)'
  BY <1>6, <1>7 DEF Busy
<1> QED BY <1>1, <1>3, <1>4, <1>5, <1>6, <1>7, <1>8, ElsewhereKeeps

\* A turn of the worker that has the task, up to its acknowledgement.
LEMMA OwnTurn ==
    ASSUME Inv, NEW c \in Calls, NEW w \in Workers, published[c] =< 1, Taken(c, w),
           \/ LookUp(w) \/ Create(w) \/ Lower(w) \/ Restore(w)
           \/ SetData(w) \/ Start(w) \/ Send(w) \/ SendThrows(w)
    PROVE  Lone(c)'
<1>1. /\ Lone(c) /\ AtWork(c, w) /\ Counted(c) /\ Call(w) = c /\ c # Tree
      /\ c \in Results /\ Busy(c, w) /\ Pending(c)
  BY LoneHolds, RetryAssumption
     DEF Lone, Taken, Busy, Pending, LookUp, Create, Lower, Restore, SetData, Start, Send,
         SendThrows, Results
<1>2. /\ node \in [Results -> 0 .. MaxExec + 1] /\ runs \in [Results -> Nat]
      /\ result \in [Results -> Seq({"item", "eof", "err"})]
      /\ wpc \in [Workers -> Labels] /\ cnt \in [Workers -> Nat]
      /\ success \in [Workers -> BOOLEAN] /\ short \subseteq topics
      /\ MaxExec \in Nat \ {0} /\ Items \in Nat
      /\ result[c] # <<>> => c \in topics
      /\ open[w] \in BOOLEAN
  BY <1>1, RetryAssumption DEF Inv, TypeOK, CountedInOrder
<1>3. /\ queue' = queue /\ task' = task /\ published' = published
      /\ \A v \in Workers \ {w} : wpc'[v] = wpc[v]
  <2>1. TypeOK BY DEF Inv
  <2>2. CASE SendThrows(w)
    BY <1>2, <2>2 DEF SendThrows, Return, Goto, broker, count
  <2>3. CASE ~ SendThrows(w)
    <3>1. Work(w) BY <2>3 DEF Work
    <3> QED
      BY <2>1, <2>3, <3>1, WorkOfOne DEF LookUp, Create, Lower, Restore, SetData, Start, Send,
         broker, count
  <2> QED BY <2>2, <2>3
<1>4. Call(w)' = c /\ Pending(c)'
  <2>1. Call(w)' = c BY <1>1, <1>3 DEF Call
  <2>2. wpc'[w] # "report"
    BY <1>2
       DEF LookUp, Create, Lower, Restore, SetData, Start, Send, SendThrows, Goto, Return
  <2> QED BY <1>1, <1>3, <2>1, <2>2 DEF Pending, Busy, Taken
<1> DEFINE Turned == Counted(c)' /\ AtWork(c, w)' /\ wpc'[w] # "report"
<1>5. ASSUME LookUp(w) PROVE Turned
  <2>1. UNCHANGED <<node, result, short, runs>>
    BY <1>5 DEF LookUp, broker, kafka, count
  <2>2. Counted(c)'
    BY <1>1, <1>3, <1>4, <2>1 DEF Counted
  <2>3. AtWork(c, w)' /\ wpc'[w] # "report"
    <3>1. cnt'[w] = node[c] BY <1>1, <1>2, <1>5 DEF LookUp
    <3>2. \/ wpc'[w] = "create" /\ node[c] = 0
          \/ wpc'[w] = "lower" /\ node[c] \in 1 .. MaxExec
          \/ /\ wpc'[w] = "ack" /\ success'[w] = TRUE
             /\ c \notin skipped' => node[c] = MaxExec + 1
      BY <1>1, <1>2, <1>5, <3>1 DEF LookUp, Goto, Return
    <3>3. node[c] = MaxExec + 1 => Settled(c)' /\ c \notin short
      BY <1>1, <2>1 DEF Counted, Settled
    <3> QED BY <1>3, <2>1, <3>1, <3>2, <3>3 DEF AtWork
  <2> QED BY <2>2, <2>3
<1>6. ASSUME Create(w) PROVE Turned
  <2>1. node[c] = 0 /\ wpc[w] = "create"
    BY <1>1, <1>6 DEF Create, AtWork
  <2>2. /\ node' = [node EXCEPT ![c] = 1] /\ wpc' = [wpc EXCEPT ![w] = "run"]
        /\ UNCHANGED <<result, short, runs, cnt>>
    BY <1>1, <1>6, <2>1 DEF Create, Goto, kafka, count
  <2>3. result[c] = <<>> /\ runs[c] = 0 /\ c \notin short
    BY <1>1, <2>1 DEF Counted
  <2>4. node'[c] = 1 /\ wpc'[w] = "run"
    BY <1>1, <1>2, <2>2
  <2> QED BY <1>2, <1>4, <2>2, <2>3, <2>4 DEF Counted, AtWork
<1>7. ASSUME Lower(w) PROVE Turned
  <2>1. /\ wpc[w] = "lower" /\ wpc'[w] = "wait"
        /\ short' = short \cup ({c} \cap topics)
        /\ UNCHANGED <<node, result, runs, cnt>>
    BY <1>1, <1>2, <1>7 DEF Lower, Goto, broker, count
  <2>2. node[c] \in 1 .. MaxExec /\ cnt[w] = node[c]
    BY <1>1, <2>1 DEF AtWork
  <2>3. Counted(c)'
    BY <1>1, <1>2, <1>4, <2>1, <2>2 DEF Counted
  <2> QED BY <1>2, <2>1, <2>2, <2>3 DEF AtWork
<1>8. ASSUME Restore(w) PROVE Turned
  <2>1. /\ wpc[w] = "wait" /\ wpc'[w] = "count"
        /\ c \in short => result[c] = <<>>
        /\ short' = short \ {c}
        /\ UNCHANGED <<node, result, runs, cnt>>
    BY <1>1, <1>2, <1>8 DEF Restore, Goto, broker, count
  <2>2. node[c] \in 1 .. MaxExec /\ cnt[w] = node[c] /\ result[c] = <<>>
    BY <1>1, <2>1 DEF AtWork
  <2>3. Counted(c)'
    BY <1>1, <1>4, <2>1, <2>2 DEF Counted
  <2> QED BY <2>1, <2>2, <2>3 DEF AtWork
<1>9. ASSUME SetData(w) PROVE Turned
  <2>1. /\ wpc[w] = "count" /\ node' = [node EXCEPT ![c] = cnt[w] + 1]
        /\ \/ cnt[w] < MaxExec /\ wpc'[w] = "run"
           \/ cnt[w] = MaxExec /\ wpc'[w] = "ack"
        /\ UNCHANGED <<result, short, runs, cnt>>
    BY <1>1, <1>2, <1>9 DEF SetData, Goto, Return, kafka, count
  <2>2. /\ node[c] \in 1 .. MaxExec /\ cnt[w] = node[c] /\ result[c] = <<>>
        /\ c \notin short
    BY <1>1, <2>1 DEF AtWork
  <2>3. node'[c] = node[c] + 1
    BY <1>1, <1>2, <2>1, <2>2
  <2>4. runs[c] =< node[c] /\ runs[c] =< MaxExec /\ runs[c] \in Nat
    BY <1>1, <1>2 DEF Counted
  <2>5. Counted(c)'
    BY <1>2, <1>4, <2>1, <2>2, <2>3, <2>4 DEF Counted
  <2>6. wpc'[w] = "ack" => node'[c] = MaxExec + 1 /\ Settled(c)'
    BY <2>1, <2>2, <2>3, <1>2 DEF Settled
  <2>7. wpc'[w] = "run" => node'[c] \in 1 .. MaxExec /\ runs'[c] < node'[c]
    BY <1>2, <2>1, <2>2, <2>3, <2>4
  <2> QED BY <2>1, <2>2, <2>5, <2>6, <2>7 DEF AtWork
<1>10. ASSUME Start(w) PROVE Turned
  <2>1. /\ wpc[w] = "run" /\ wpc'[w] = "send" /\ cnt'[w] = 0
        /\ runs'[c] = runs[c] + 1
        /\ UNCHANGED <<node, result, short>>
    BY <1>1, <1>2, <1>10 DEF Start, Goto, broker, kafka
  <2>2. /\ node[c] \in 1 .. MaxExec /\ runs[c] < node[c] /\ result[c] = <<>>
        /\ c \notin short
    BY <1>1, <2>1 DEF AtWork
  <2>3. Counted(c)'
    BY <1>1, <1>2, <1>4, <2>1, <2>2 DEF Counted
  <2>4. <<>> = Run(0) BY DEF Run
  <2> QED BY <1>2, <2>1, <2>2, <2>3, <2>4 DEF AtWork
<1>11. ASSUME Send(w) PROVE Turned
  <2> DEFINE rec == IF cnt[w] < Items THEN "item" ELSE "eof"
  <2>1. /\ wpc[w] = "send" /\ cnt'[w] = cnt[w] + 1
        /\ result'[c] = Append(result[c], rec)
        /\ \/ rec = "item" /\ wpc'[w] = "send"
           \/ rec = "eof" /\ wpc'[w] = "ack" /\ success'[w] = TRUE
        /\ UNCHANGED <<node, short, runs>>
    BY <1>1, <1>2, <1>11 DEF Send, NextRecord, Return, Goto, broker, count
  <2>2. /\ node[c] \in 1 .. MaxExec /\ c \notin short /\ cnt[w] =< Items
        /\ result[c] = Run(cnt[w])
    BY <1>1, <2>1 DEF AtWork
  <2>3. Counted(c)'
    BY <1>1, <1>2, <1>4, <2>1, <2>2 DEF Counted
  <2>4. rec = "item" => cnt[w] + 1 =< Items
                       /\ result'[c] = Run(cnt[w] + 1)
    BY <1>2, <2>1, <2>2 DEF Run
  <2>5. rec = "eof" => result'[c] = Complete
    BY <1>2, <2>1, <2>2 DEF Complete, Run
  <2> HIDE DEF rec
  <2> QED BY <2>1, <2>2, <2>3, <2>4, <2>5 DEF AtWork, Settled
<1>13. ASSUME SendThrows(w) PROVE Turned
  <2> DEFINE rec == IF cnt[w] < Items THEN "item" ELSE "eof"
  <2>1. /\ wpc[w] = "send" /\ wpc'[w] = "ack" /\ success'[w] = TRUE
        /\ result'[c] = result[c] \/ result'[c] = Append(result[c], rec)
        /\ c \in threw'
        /\ UNCHANGED <<node, short, runs, cnt, skipped>>
    BY <1>1, <1>2, <1>13 DEF SendThrows, NextRecord, Return, Goto, broker, count
  <2>2. /\ node[c] \in 1 .. MaxExec /\ c \notin short /\ cnt[w] =< Items
        /\ result[c] = Run(cnt[w])
    BY <1>1, <2>1 DEF AtWork
  <2>3. Counted(c)'
    BY <1>1, <1>2, <1>4, <2>1, <2>2 DEF Counted
  <2>4. Append(Run(cnt[w]), rec) = Run(cnt[w] + 1)
    BY <1>2, <2>2 DEF Run
  <2> HIDE DEF rec
  <2>5. \E n \in 0 .. Items + 1 : result'[c] = Run(n)
    <3>1. cnt[w] \in 0 .. Items + 1 /\ cnt[w] + 1 \in 0 .. Items + 1 BY <1>2, <2>2
    <3> QED BY <2>1, <2>2, <2>4, <3>1
  <2>6. Settled(c)'
    <3> DEFINE whole(n) == Run(n)
    <3>1. \A n : whole(n)' = Run(n) BY DEF Run
    <3> QED BY <2>1, <2>5, <3>1 DEF Settled, Run
  <2> QED BY <2>1, <2>2, <2>3, <2>6 DEF AtWork
<1>12. Turned
  BY <1>5, <1>6, <1>7, <1>8, <1>9, <1>10, <1>11, <1>13
<1> QED
  <2>1. TypeOK BY DEF Inv
  <2> QED BY <1>1, <1>3, <1>12, <2>1, TurnKeeps

\* The two ends of a task.
LEMMA OwnEnds ==
    ASSUME Inv, NEW c \in Calls, NEW w \in Workers, published[c] =< 1,
           \/ Deliver(w) /\ Head(queue)[1] = c
           \/ Taken(c, w) /\ (Ack(w) \/ Report(w))
    PROVE  Lone(c)'
<1>1. /\ Lone(c) /\ OneTask(c) /\ Counted(c) /\ c \in Results /\ TypeOK
      /\ published \in [Results -> Nat] /\ Tree \in Results
      /\ wpc \in [Workers -> Labels] /\ task \in [Workers -> Commands \cup {None}]
      /\ queue \in Seq(Commands)
  BY LoneHolds, QueueTypes DEF Inv, Lone, Results, TypeOK
<1>2. CASE Deliver(w) /\ Head(queue)[1] = c
  <2>1. /\ wpc[w] = "idle" /\ queue # <<>> /\ queue' = Tail(queue)
        /\ task' = [task EXCEPT ![w] = Head(queue)]
        /\ wpc' = [wpc EXCEPT ![w] = "exists"]
        /\ UNCHANGED <<node, kafka, count, harm>>
    BY <1>2 DEF Deliver, Goto
  <2>2. Queued(c) /\ ~ Queued(c)' /\ QueuedOnce(c)'
    BY <1>1, <1>2, <2>1, QueuedTail DEF OneTask
  <2>3. \A v \in Workers : ~ Taken(c, v)
    BY <1>1, <2>2 DEF OneTask, Busy, Pending
  <2>4. Head(queue) \in Commands /\ Head(queue) # None
    BY <1>1, <2>1, CommandType
  <2>5. \A v \in Workers : Taken(c, v)' <=> v = w
    BY <1>1, <1>2, <2>1, <2>3, <2>4 DEF Taken, Call
  <2>6. wpc'[w] = "exists" BY <1>1, <2>1
  <2>7. Pending(c)' BY <2>5, <2>6 DEF Pending, Busy
  <2>8. OneTask(c)' BY <2>2, <2>5, <2>6 DEF OneTask, Busy
  <2>9. Counted(c)' BY <1>1, <2>1, <2>7 DEF Counted, kafka, count, harm
  <2>10. AtWork(c, w)' BY <2>6 DEF AtWork
  <2> QED BY <2>5, <2>7, <2>8, <2>9, <2>10 DEF Lone
<1>3. CASE Taken(c, w) /\ Ack(w)
  <2>1. /\ wpc[w] = "ack" /\ wpc' = [wpc EXCEPT ![w] = "report"]
        /\ UNCHANGED <<broker, kafka, task, cnt, success, count, harm>>
    BY <1>3 DEF Ack, Goto
  <2>2. Busy(c, w) /\ AtWork(c, w) BY <1>1, <1>3, <2>1 DEF Busy, Lone
  <2>3. ~ Queued(c) /\ \A v \in Workers : Taken(c, v) <=> v = w
    BY <1>1, <1>3, <2>2, Alone
  <2>4. /\ Queued(c)' <=> Queued(c)
        /\ QueuedOnce(c)' <=> QueuedOnce(c)
        /\ \A v \in Workers : Taken(c, v)' <=> Taken(c, v)
    BY <2>1 DEF Queued, QueuedOnce, Taken, Call, broker
  <2>5. wpc'[w] = "report" BY <1>1, <2>1
  <2>6. ~ Pending(c)' BY <2>3, <2>4, <2>5 DEF Pending, Busy
  <2>7. OneTask(c)' BY <1>1, <2>3, <2>4, <2>5, <2>6 DEF OneTask, Busy
  <2>8. /\ c \notin skipped => Settled(c) /\ c \notin short
        /\ ~ success[w] => node[c] = MaxExec + 1
    BY <2>1, <2>2 DEF AtWork
  <2>9. Counted(c)' BY <1>1, <2>1, <2>8 DEF Counted, broker, kafka, count, harm
  <2>10. AtWork(c, w)' BY <2>1, <2>5, <2>8 DEF AtWork, broker
  <2>11. Settled(c) => Settled(c)' BY <2>1 DEF Settled, broker, kafka, harm
  <2> QED
    BY <2>1, <2>3, <2>4, <2>7, <2>8, <2>9, <2>10, <2>11 DEF Lone, count, harm
<1>4. CASE Taken(c, w) /\ Report(w)
  <2>1. /\ wpc[w] = "report" /\ task' = [task EXCEPT ![w] = None]
        /\ UNCHANGED <<queue, node, kafka, count, harm>>
    BY <1>4 DEF Report
  <2>2. Work(w) BY <1>4 DEF Work
  <2>3. ~ Taken(c, w)' /\ ~ Busy(c, w)
    BY <1>1, <2>1 DEF Taken, Busy
  <2>4. \A v \in Workers \ {w} : /\ Taken(c, v)' <=> Taken(c, v)
                                 /\ Busy(c, v)' <=> Busy(c, v)
    BY <1>1, <2>2, WorkOfOne DEF Taken, Busy, Call
  <2>5. /\ Queued(c)' <=> Queued(c)
        /\ QueuedOnce(c)' <=> QueuedOnce(c)
    BY <2>1 DEF Queued, QueuedOnce
  <2> QED
    BY <1>1, <2>1, <2>2, <2>3, <2>4, <2>5, WorkOfOne, ElsewhereKeeps
       DEF kafka, count, harm
<1> QED BY <1>2, <1>3, <1>4

LEMMA CrashKeeps ==
    ASSUME Inv, NEW c \in Calls, NEW w \in Workers, published[c] =< 1, Crash(w)
    PROVE  Lone(c)'
<1>1. /\ Lone(c) /\ OneTask(c) /\ Counted(c) /\ c \in Results /\ TypeOK
      /\ published \in [Results -> Nat] /\ Tree \in Results
      /\ wpc \in [Workers -> Labels] /\ task \in [Workers -> Commands \cup {None}]
      /\ cnt \in [Workers -> Nat] /\ success \in [Workers -> BOOLEAN]
  BY LoneHolds DEF Inv, Lone, Results, TypeOK
<1>2. /\ task[w] \in Commands /\ task' = [task EXCEPT ![w] = None]
      /\ wpc' = [wpc EXCEPT ![w] = "idle"] /\ cnt' = [cnt EXCEPT ![w] = 0]
      /\ success' = [success EXCEPT ![w] = FALSE]
      /\ \/ wpc[w] = "report" /\ queue' = queue
         \/ wpc[w] # "report" /\ queue' = <<task[w]>> \o queue
      /\ UNCHANGED <<node, kafka, published, runs, threw, skipped>>
  BY <1>1, BusyHasTask DEF Crash, Goto
<1>3. /\ \A v \in Workers \ {w} : wpc'[v] = wpc[v] /\ task'[v] = task[v]
                                /\ cnt'[v] = cnt[v] /\ success'[v] = success[v]
      /\ task'[w] = None
  BY <1>1, <1>2
<1>4. \A v \in Workers : /\ Taken(c, v)' <=> v # w /\ Taken(c, v)
                         /\ v # w => (Busy(c, v)' <=> Busy(c, v))
  BY <1>3 DEF Taken, Busy, Call
<1>5. CASE wpc[w] = "report" \/ ~ Taken(c, w)
  <2>1. /\ Queued(c)' <=> Queued(c)
        /\ QueuedOnce(c) => QueuedOnce(c)'
    <3>1. CASE queue' = queue BY <3>1 DEF Queued, QueuedOnce
    <3>2. CASE queue' = <<task[w]>> \o queue /\ task[w][1] # c
      BY <1>1, <1>2, <3>2, QueuedBack
    <3> QED BY <1>2, <1>5, <3>1, <3>2, CommandType DEF Taken, Call
  <2>2. ~ Busy(c, w) BY <1>5 DEF Busy
  <2>3. \A v \in Workers : Busy(c, v) => Busy(c, v)'
    BY <1>4, <2>2
  <2>4. \A v \in Workers : Taken(c, v)' =>
          Taken(c, v) /\ wpc'[v] = wpc[v] /\ cnt'[v] = cnt[v] /\ success'[v] = success[v]
    BY <1>3, <1>4
  <2>5. UNCHANGED <<node, result, short, published, runs, threw, skipped>>
    BY <1>1, <1>2 DEF kafka
  <2> QED
    BY <1>1, <2>1, <2>3, <2>4, <2>5, ElsewhereKeeps
<1>6. CASE wpc[w] # "report" /\ Taken(c, w)
  <2>1. ~ Queued(c) /\ \A v \in Workers : Taken(c, v) => v = w
    BY <1>1, <1>6, Alone DEF Busy
  <2>2. Queued(c)' /\ QueuedOnce(c)'
    <3>1. task[w][1] = c /\ queue' = <<task[w]>> \o queue /\ QueuedOnce(c)
      BY <1>1, <1>2, <1>6 DEF Taken, Call, OneTask
    <3> QED BY <1>1, <1>2, <2>1, <3>1, QueuedBack
  <2>3. \A v \in Workers : ~ Taken(c, v)' BY <1>4, <2>1
  <2>4. OneTask(c)' /\ Pending(c)' BY <2>2, <2>3 DEF OneTask, Pending, Busy
  <2>5. Counted(c)' BY <1>1, <1>2, <2>4 DEF Counted, kafka
  <2> QED BY <2>3, <2>4, <2>5 DEF Lone
<1> QED BY <1>5, <1>6

LEMMA PurgeKeeps ==
    ASSUME Inv, NEW c \in Calls, NEW k \in Results, published[c] =< 1, Purge(k)
    PROVE  Lone(c)'
<1>1. /\ Lone(c) /\ OneTask(c) /\ Counted(c) /\ c \in Results /\ TypeOK
      /\ published \in [Results -> Nat] /\ Tree \in Results
      /\ result \in [Results -> Seq({"item", "eof", "err"})]
  BY LoneHolds DEF Inv, Lone, Results, TypeOK
<1>2. /\ k \in short /\ result' = [result EXCEPT ![k] = <<>>]
      /\ UNCHANGED <<broker, short, worker, count, harm>>
  BY DEF Purge
<1>3. /\ Queued(c)' <=> Queued(c)
      /\ QueuedOnce(c)' <=> QueuedOnce(c)
      /\ \A v \in Workers : /\ Taken(c, v)' <=> Taken(c, v)
                            /\ Busy(c, v)' <=> Busy(c, v)
  BY <1>2 DEF Queued, QueuedOnce, Taken, Busy, Call, broker, worker
<1>4. CASE k # c
  <2>1. /\ UNCHANGED <<node, short, published, runs, wpc, cnt, success, threw, skipped>>
        /\ result'[c] = result[c]
    BY <1>1, <1>2, <1>4 DEF broker, worker, count, harm
  <2> QED BY <1>1, <1>3, <2>1, ElsewhereKeeps
<1>5. CASE k = c
  <2>1. result'[c] = <<>> BY <1>1, <1>2, <1>5
  <2>2. Pending(c)' <=> Pending(c) BY <1>3 DEF Pending
  <2>3. OneTask(c)' BY <1>1, <1>2, <1>3, <2>2 DEF OneTask, worker
  <2>4. Counted(c)'
    BY <1>1, <1>2, <2>1, <2>2 DEF Counted, broker, count, harm
  <2>5. \A v \in Workers : Taken(c, v)' => AtWork(c, v)'
    BY <1>1, <1>2, <1>3, <1>5, <2>1 DEF Lone, AtWork, broker, worker, count, harm
  <2>6. c \in skipped \/ Pending(c)
    BY <1>1, <1>2, <1>5 DEF Counted
  <2> QED BY <1>2, <2>2, <2>3, <2>4, <2>5, <2>6 DEF Lone, count, harm
<1> QED BY <1>4, <1>5

LEMMA ThrowKeeps ==
    ASSUME Inv, NEW c \in Calls, NEW w \in Workers, published[c] =< 1, SendThrows(w)
    PROVE  Lone(c)'
<1>1. CASE Taken(c, w) BY <1>1, OwnTurn
<1>2. CASE ~ Taken(c, w)
  <2>1. /\ TypeOK /\ Lone(c) /\ c \in Results /\ wpc[w] = "send"
        /\ result \in [Results -> Seq({"item", "eof", "err"})]
        /\ wpc \in [Workers -> Labels]
    BY LoneHolds DEF Inv, Results, TypeOK, SendThrows
  <2>2. Call(w) # c
    BY <1>2, <2>1, BusyHasTask, CommandType DEF Taken
  <2>3. /\ result'[c] = result[c]
        /\ c \in threw' <=> c \in threw
        /\ UNCHANGED <<queue, node, short, task, cnt, published, runs, skipped>>
        /\ wpc' = [wpc EXCEPT ![w] = "ack"] /\ success' = [success EXCEPT ![w] = TRUE]
    BY <2>1, <2>2 DEF SendThrows, Return, Goto, broker, count
  <2>4. /\ Queued(c)' <=> Queued(c)
        /\ QueuedOnce(c) => QueuedOnce(c)'
        /\ \A v \in Workers : Taken(c, v)' <=> Taken(c, v)
    BY <2>3 DEF Queued, QueuedOnce, Taken, Call
  <2>5. \A v \in Workers : Taken(c, v) => v # w
    BY <1>2
  <2>6. \A v \in Workers : v # w => wpc'[v] = wpc[v] /\ success'[v] = success[v]
    BY <2>1, <2>3 DEF TypeOK
  <2>7. \A v \in Workers : Busy(c, v) => Busy(c, v)'
    BY <2>4, <2>5, <2>6 DEF Busy
  <2> QED BY <2>1, <2>3, <2>4, <2>5, <2>6, <2>7, ElsewhereKeeps
<1> QED BY <1>1, <1>2

LEMMA LoneKept ==
    ASSUME Inv, [Next]_vars, NEW c \in Calls, published'[c] =< 1
    PROVE  Lone(c)'
<1>1. TypeOK /\ c \in Results /\ published \in [Results -> Nat]
  BY DEF Inv, Results, TypeOK
<1>2. CASE UNCHANGED vars
  <2>1. UNCHANGED <<queue, node, result, short, wpc, task, cnt, success, published, runs,
                    threw, skipped>>
    BY <1>2 DEF vars, broker, kafka, worker, count, harm
  <2>2. Lone(c) BY <2>1, LoneHolds
  <2>3. /\ Queued(c)' <=> Queued(c)
        /\ QueuedOnce(c) => QueuedOnce(c)'
        /\ \A v \in Workers : Taken(c, v)' <=> Taken(c, v)
    BY <2>1 DEF Queued, QueuedOnce, Taken, Call
  <2>4. \A v \in Workers : Busy(c, v) => Busy(c, v)'
    BY <2>1, <2>3 DEF Busy
  <2> QED BY <1>1, <2>1, <2>2, <2>3, <2>4, ElsewhereKeeps
<1>3. ASSUME NEW w \in Workers, Work(w) PROVE Lone(c)'
  <2>1. published' = published
    BY <1>3 DEF Work, Deliver, LookUp, LookUpTree, Create, Lower, Restore, SetData, Start,
       Send, Ack, Report, count
  <2>2. CASE Deliver(w) /\ Head(queue)[1] = c
    BY <2>1, <2>2, OwnEnds
  <2>3. CASE ~ Taken(c, w) /\ (Deliver(w) => Head(queue)[1] # c)
    BY <1>3, <2>1, <2>3, OthersKeep
  <2>4. CASE Taken(c, w)
    <3>1. ~ Deliver(w) BY <1>1, <2>4 DEF Deliver, Taken, TypeOK
    <3>2. ~ LookUpTree(w) BY <2>4, RetryAssumption DEF LookUpTree, Taken
    <3> QED BY <1>3, <2>1, <2>4, <3>1, <3>2, OwnTurn, OwnEnds DEF Work
  <2> QED BY <2>2, <2>3, <2>4
<1>4. ASSUME NEW w \in Workers, Crash(w) PROVE Lone(c)'
  BY <1>4, CrashKeeps DEF Crash
<1>5. ASSUME NEW k \in Results, Purge(k) PROVE Lone(c)'
  BY <1>5, PurgeKeeps DEF Purge, count
<1>6. ASSUME NEW w \in Workers, SendThrows(w) PROVE Lone(c)'
  BY <1>6, ThrowKeeps DEF SendThrows, count
<1> QED BY <1>2, <1>3, <1>4, <1>5, <1>6, ShellKeeps DEF Next
-----------------------------------------------------------------------------
(* What has been published, what has a topic, and who has a session. *)

Placed(c) ==
    /\ Queued(c) \/ (\E w \in Workers : Taken(c, w)) \/ node[c] # 0 => published[c] > 0
    /\ result[c] # <<>> => c \in topics

Opened == published[Tree] = 0 => skipped = {} /\ \A w \in Workers : open[w]

LEMMA PlacedKept ==
    ASSUME Inv, [Next]_vars, NEW c \in Results
    PROVE  Placed(c)'
<1>1. /\ TypeOK /\ Placed(c) /\ published \in [Results -> Nat]
      /\ node \in [Results -> 0 .. MaxExec + 1]
      /\ result \in [Results -> Seq({"item", "eof", "err"})]
      /\ task \in [Workers -> Commands \cup {None}] /\ wpc \in [Workers -> Labels]
      /\ queue \in Seq(Commands)
  BY DEF Inv, TypeOK, CountedInOrder, Placed
<1>2. ASSUME UNCHANGED <<queue, task, result, topics, published>>,
             node'[c] # 0 => node[c] # 0 \/ \E w \in Workers : Taken(c, w)
      PROVE  Placed(c)'
  BY <1>1, <1>2 DEF Placed, Queued, Taken, Call
<1>3. CASE UNCHANGED vars
  BY <1>2, <1>3 DEF vars, broker, kafka, worker, count
<1>4. ASSUME UNCHANGED <<queue, node, kafka, worker, published>> PROVE Placed(c)'
  BY <1>2, <1>4 DEF kafka, worker
<1>5. (\E k \in Results, n \in Targets : Command(k, n)) \/ ResultExists \/ Block
        \/ ReceiveDone \/ ReceiveFail \/ Stolen => Placed(c)'
  BY <1>4 DEF Command, ResultExists, Block, ReceiveDone, ReceiveFail, Stolen, broker, count
<1>6. ASSUME SendTask PROVE Placed(c)'
  <2>1. UNCHANGED <<node, kafka, worker>> BY <1>6 DEF SendTask
  <2>2. CASE UNCHANGED <<queue, published>> BY <1>4, <2>1, <2>2
  <2>3. CASE /\ queue' = Append(queue, cmd)
             /\ published' = [published EXCEPT ![cmd[1]] = @ + 1]
    <3>1. cmd \in Commands /\ cmd[1] \in Results
      BY <1>1, <1>6, CommandType DEF SendTask, TypeOK
    <3>2. Queued(c)' <=> Queued(c) \/ cmd[1] = c
      BY <1>1, <2>3, <3>1, QueuedAppend
    <3>3. published'[c] = IF cmd[1] = c THEN published[c] + 1 ELSE published[c]
      BY <1>1, <2>3, <3>1
    <3> QED
      BY <1>1, <2>1, <3>2, <3>3 DEF Placed, Taken, Call, kafka, worker
  <2> QED BY <1>6, <2>2, <2>3 DEF SendTask
<1>7. ASSUME NEW w \in Workers, Deliver(w) PROVE Placed(c)'
  <2>1. /\ queue # <<>> /\ queue' = Tail(queue) /\ task' = [task EXCEPT ![w] = Head(queue)]
        /\ UNCHANGED <<node, result, topics, published>>
    BY <1>7 DEF Deliver, kafka, count
  <2>2. Queued(c) <=> Queued(c)' \/ Head(queue)[1] = c
    BY <1>1, <2>1, QueuedTail
  <2>3. \A v \in Workers : Taken(c, v)' => Taken(c, v) \/ Head(queue)[1] = c
    BY <1>1, <2>1 DEF Taken, Call
  <2> QED BY <1>1, <2>1, <2>2, <2>3 DEF Placed
<1>8. ASSUME NEW w \in Workers, Report(w) PROVE Placed(c)'
  <2>1. /\ task' = [task EXCEPT ![w] = None]
        /\ UNCHANGED <<queue, node, result, topics, published>>
    BY <1>8 DEF Report, kafka, count
  <2>2. \A v \in Workers : Taken(c, v)' => Taken(c, v)
    BY <1>1, <2>1 DEF Taken, Call
  <2>3. Queued(c)' <=> Queued(c) BY <2>1 DEF Queued
  <2> QED BY <1>1, <2>1, <2>2, <2>3 DEF Placed
<1>9. ASSUME NEW w \in Workers, Crash(w) PROVE Placed(c)'
  <2>1. /\ task[w] \in Commands /\ task' = [task EXCEPT ![w] = None]
        /\ queue' = queue \/ queue' = <<task[w]>> \o queue
        /\ UNCHANGED <<node, result, topics, published>>
    BY <1>1, <1>9, BusyHasTask DEF Crash, kafka
  <2>2. \A v \in Workers : Taken(c, v)' => Taken(c, v)
    BY <1>1, <2>1 DEF Taken, Call
  <2>3. Queued(c)' => Queued(c) \/ Taken(c, w)
    <3>1. CASE queue' = queue BY <3>1 DEF Queued
    <3>2. CASE queue' = <<task[w]>> \o queue
      BY <1>1, <2>1, <3>2, QueuedBack, CommandType DEF Taken, Call
    <3> QED BY <2>1, <3>1, <3>2
  <2> QED BY <1>1, <2>1, <2>2, <2>3 DEF Placed
<1>10. ASSUME NEW w \in Workers, Create(w) \/ SetData(w) PROVE Placed(c)'
  <2>1. /\ UNCHANGED <<queue, task, result, topics, published>>
        /\ node' = node \/ \E x : node' = [node EXCEPT ![Call(w)] = x]
        /\ wpc[w] # "idle"
    BY <1>10 DEF Create, SetData, kafka, count
  <2>2. task[w] # None BY <1>1, <2>1, BusyHasTask, CommandType
  <2>3. node'[c] # node[c] => Taken(c, w)
    BY <1>1, <2>1, <2>2 DEF Taken
  <2> QED BY <1>2, <2>1, <2>3
<1>11. ASSUME NEW w \in Workers,
              \/ LookUp(w) \/ LookUpTree(w) \/ Lower(w) \/ Restore(w) \/ Start(w) \/ Ack(w)
       PROVE  Placed(c)'
  BY <1>2, <1>11
     DEF LookUp, LookUpTree, Lower, Restore, Start, Ack, broker, kafka, count
<1>12. ASSUME NEW w \in Workers, Send(w) PROVE Placed(c)'
  <2>1. /\ UNCHANGED <<queue, node, task, published>>
        /\ topics' = topics \cup {Call(w)}
        /\ \E x : result' = [result EXCEPT ![Call(w)] = x]
    BY <1>12 DEF Send, broker, count
  <2>2. /\ Queued(c)' <=> Queued(c)
        /\ \A v \in Workers : Taken(c, v)' <=> Taken(c, v)
    BY <2>1 DEF Queued, Taken, Call
  <2> QED BY <1>1, <2>1, <2>2 DEF Placed
<1>13. ASSUME NEW k \in Results, Purge(k) PROVE Placed(c)'
  <2>1. /\ UNCHANGED <<queue, node, task, published, topics>>
        /\ result' = [result EXCEPT ![k] = <<>>]
    BY <1>13 DEF Purge, broker, worker, count
  <2>2. /\ Queued(c)' <=> Queued(c)
        /\ \A v \in Workers : Taken(c, v)' <=> Taken(c, v)
    BY <2>1 DEF Queued, Taken, Call
  <2> QED BY <1>1, <2>1, <2>2 DEF Placed
<1>14. ASSUME NEW w \in Workers, SendThrows(w) PROVE Placed(c)'
  <2>1. /\ UNCHANGED <<queue, node, task, published>>
        /\ \/ UNCHANGED <<result, topics>>
           \/ /\ topics' = topics \cup {Call(w)}
              /\ \E x : result' = [result EXCEPT ![Call(w)] = x]
    BY <1>14 DEF SendThrows, broker, count
  <2>2. /\ Queued(c)' <=> Queued(c)
        /\ \A v \in Workers : Taken(c, v)' <=> Taken(c, v)
    BY <2>1 DEF Queued, Taken, Call
  <2> QED BY <1>1, <2>1, <2>2 DEF Placed
<1> QED
  BY <1>3, <1>5, <1>6, <1>7, <1>8, <1>9, <1>10, <1>11, <1>12, <1>13, <1>14 DEF Next, Work

LEMMA PublishedGrows ==
    ASSUME TypeOK, [Next]_vars, NEW c \in Results
    PROVE  published[c] \in Nat /\ published'[c] \in Nat /\ published[c] =< published'[c]
<1>1. published \in [Results -> Nat] BY DEF TypeOK
<1>2. published' = published \/ \E k : published' = [published EXCEPT ![k] = @ + 1]
  BY DEF Next, Work, vars, count, Command, ResultExists, SendTask, Block, ReceiveDone,
     ReceiveFail, Stolen, Deliver, LookUp, LookUpTree, Create, Lower, Restore, SetData,
     Start, Send, SendThrows, Ack, Report, Crash, Purge
<1> QED BY <1>1, <1>2

LEMMA OpenedKept ==
    ASSUME Inv, [Next]_vars
    PROVE  Opened'
<1>1. /\ TypeOK /\ Opened /\ Tree \in Results /\ open \in [Workers -> BOOLEAN]
      /\ task \in [Workers -> Commands \cup {None}]
  BY DEF Inv, TypeOK, CountedInOrder, Opened, Results
<1>2. published'[Tree] = 0 => published[Tree] = 0
  BY <1>1, PublishedGrows
<1>3. \/ open' = open
      \/ \E w \in Workers : Start(w) \/ (open' = [open EXCEPT ![w] = TRUE])
  BY DEF Next, Work, vars, worker, Command, ResultExists, SendTask, Block, ReceiveDone,
     ReceiveFail, Stolen, Deliver, LookUp, LookUpTree, Create, Lower, Restore, SetData,
     Start, Send, SendThrows, Ack, Report, Crash, Purge
<1>4. ASSUME NEW w \in Workers, Start(w), published[Tree] = 0
      PROVE  open' = [open EXCEPT ![w] = open[w]]
  <2>1. Call(w) # Tree
    <3>1. task[w] # None BY <1>1, <1>4, BusyHasTask, CommandType DEF Start
    <3> QED BY <1>1, <1>4, <3>1 DEF Inv, CountedInOrder, Taken
  <2>2. open[w] \in BOOLEAN /\ open' = [open EXCEPT ![w] = @ /\ Call(w) # Tree]
    BY <1>1, <1>4 DEF Start
  <2>3. (open[w] /\ Call(w) # Tree) = open[w] BY <2>1, <2>2
  <2> QED BY <2>2, <2>3
<1>5. skipped' = skipped \/ \E w \in Workers : LookUp(w)
  BY DEF Next, Work, vars, harm, Command, ResultExists, SendTask, Block, ReceiveDone,
     ReceiveFail, Stolen, Deliver, LookUpTree, Create, Lower, Restore, SetData,
     Start, Send, SendThrows, Ack, Report, Crash, Purge
<1>6. ASSUME NEW w \in Workers, LookUp(w), open[w], skipped = {} PROVE skipped' = {}
  BY <1>6 DEF LookUp
<1>7. published[Tree] = 0 => skipped' = {}
  BY <1>1, <1>5, <1>6 DEF Opened
<1> QED BY <1>1, <1>2, <1>3, <1>4, <1>7 DEF Opened

\* A call that was given up stays so.
LEMMA GivenUpStays ==
    ASSUME Inv, [Next]_vars, NEW c \in Calls, published[c] =< 1, node[c] = MaxExec + 1
    PROVE  node'[c] = MaxExec + 1
<1>1. /\ Lone(c) /\ TypeOK /\ c \in Results /\ MaxExec \in Nat
      /\ node \in [Results -> 0 .. MaxExec + 1]
  BY LoneHolds, RetryAssumption DEF Inv, Results, TypeOK
<1>2. node' = node \/ \E w \in Workers : Create(w) \/ SetData(w)
  BY DEF Next, Work, vars, broker, Command, ResultExists, SendTask, Block, ReceiveDone,
     ReceiveFail, Stolen, Deliver, LookUp, LookUpTree, Lower, Restore, Start, Send, SendThrows,
     Ack, Report, Crash, Purge
<1>3. ASSUME NEW w \in Workers, Create(w) PROVE node'[c] = MaxExec + 1
  <2>1. \/ node' = node
        \/ node[Call(w)] = 0 /\ node' = [node EXCEPT ![Call(w)] = 1]
    BY <1>3 DEF Create
  <2> QED BY <1>1, <2>1
<1>4. ASSUME NEW w \in Workers, SetData(w) PROVE node'[c] = MaxExec + 1
  <2>1. /\ wpc[w] = "count"
        /\ \E x : node' = [node EXCEPT ![Call(w)] = x]
    BY <1>4 DEF SetData
  <2>2. Call(w) # c
    <3>1. task[w] # None BY <1>1, <2>1, BusyHasTask, CommandType
    <3>2. ~ AtWork(c, w) BY <1>1, <2>1 DEF AtWork
    <3> QED BY <1>1, <3>1, <3>2 DEF Lone, Taken
  <2> QED BY <1>1, <2>1, <2>2
<1> QED BY <1>2, <1>3, <1>4

\* Nobody touches a result whose one message is gone.
LEMMA Untouched ==
    ASSUME Inv, [Next]_vars, NEW c \in Calls, published[c] = 1, ~ Pending(c),
           c \notin skipped
    PROVE  result'[c] = result[c]
<1>1. Lone(c) /\ TypeOK /\ result \in [Results -> Seq({"item", "eof", "err"})]
      /\ c \in Results
  BY LoneHolds DEF Inv, Results, TypeOK
<1>2. \/ result' = result \/ \E w \in Workers : Send(w) \/ SendThrows(w)
      \/ \E k \in Results : Purge(k)
  BY DEF Next, Work, vars, kafka, Command, ResultExists, SendTask, Block, ReceiveDone,
     ReceiveFail, Stolen, Deliver, LookUp, LookUpTree, Create, Lower, Restore, SetData,
     Start, Ack, Report, Crash
<1>3. ASSUME NEW w \in Workers, Send(w) \/ SendThrows(w) PROVE result'[c] = result[c]
  <2>1. /\ wpc[w] = "send"
        /\ result' = result \/ \E x : result' = [result EXCEPT ![Call(w)] = x]
    BY <1>3 DEF Send, SendThrows
  <2>2. task[w] # None BY <1>1, <2>1, BusyHasTask, CommandType
  <2>3. Call(w) # c BY <2>1, <2>2 DEF Pending, Busy, Taken
  <2> QED BY <1>1, <2>1, <2>3
<1>4. ASSUME NEW k \in Results, Purge(k) PROVE result'[c] = result[c]
  <2>1. c \notin short BY <1>1 DEF Lone, Counted
  <2> QED BY <1>1, <1>4, <2>1 DEF Purge
<1> QED BY <1>2, <1>3, <1>4

LEMMA FailedStay ==
    ASSUME Inv, [Next]_vars
    PROVE  FailIsGivenUp'
<1>1. TypeOK /\ FailIsGivenUp /\ fail \in Seq(Results) BY DEF Inv, TypeOK
<1> DEFINE GivenUp(c) == c \in Calls /\ published[c] =< 1 =>
                            node[c] = MaxExec + 1 /\ result[c] = <<>>
<1>2. ASSUME NEW c \in Results, GivenUp(c) PROVE GivenUp(c)'
  <2> SUFFICES ASSUME c \in Calls, published'[c] =< 1
               PROVE  node'[c] = MaxExec + 1 /\ result'[c] = <<>>
    OBVIOUS
  <2>1. published[c] =< 1 BY <1>1, PublishedGrows
  <2>2. node'[c] = MaxExec + 1 BY <1>2, <2>1, GivenUpStays
  <2>3. Lone(c)' BY LoneKept
  <2> QED BY <2>2, <2>3 DEF Lone, Counted
<1>3. \A k \in 1 .. Len(fail) : fail[k] \in Results /\ GivenUp(fail[k])
  BY <1>1 DEF FailIsGivenUp
<1>4. \/ fail' = fail
      \/ fail # <<>> /\ fail' = Tail(fail)
      \/ \E w \in Workers : Report(w) /\ ~ success[w] /\ fail' = Append(fail, Call(w))
  BY DEF Next, Work, vars, broker, Command, ResultExists, SendTask, Block, ReceiveDone,
     ReceiveFail, Stolen, Deliver, LookUp, LookUpTree, Create, Lower, Restore, SetData,
     Start, Send, SendThrows, Ack, Report, Crash, Purge
<1>5. \A k \in 1 .. Len(fail') : fail'[k] \in Results /\ GivenUp(fail'[k])
  <2>1. CASE fail' = fail BY <1>3, <2>1
  <2>2. CASE fail # <<>> /\ fail' = Tail(fail)
    <3>1. \A k \in 1 .. Len(fail') : k + 1 \in 1 .. Len(fail) /\ fail'[k] = fail[k + 1]
      BY <1>1, <2>2
    <3> QED BY <1>3, <3>1
  <2>3. ASSUME NEW w \in Workers, Report(w), ~ success[w], fail' = Append(fail, Call(w))
        PROVE  \A k \in 1 .. Len(fail') : fail'[k] \in Results /\ GivenUp(fail'[k])
    <3>1. wpc[w] = "report" BY <2>3 DEF Report
    <3>2. Call(w) \in Results /\ task[w] # None
      BY <1>1, <3>1, BusyHasTask, CommandType
    <3>3. GivenUp(Call(w))
      <4> SUFFICES ASSUME Call(w) \in Calls, published[Call(w)] =< 1
                   PROVE  node[Call(w)] = MaxExec + 1 /\ result[Call(w)] = <<>>
        OBVIOUS
      <4>1. Lone(Call(w)) BY LoneHolds
      <4>2. AtWork(Call(w), w) BY <3>2, <4>1 DEF Lone, Taken
      <4> QED BY <2>3, <3>1, <4>1, <4>2 DEF Lone, Counted, AtWork
    <3>4. \A k \in 1 .. Len(fail') :
            (k \in 1 .. Len(fail) /\ fail'[k] = fail[k]) \/ fail'[k] = Call(w)
      BY <1>1, <2>3
    <3> QED BY <1>3, <3>2, <3>3, <3>4
  <2> QED BY <1>4, <2>1, <2>2, <2>3
<1>6. \A k \in 1 .. Len(fail'), c \in Results : c = fail'[k] => GivenUp(c)'
  BY <1>2, <1>5
<1> QED BY <1>5, <1>6 DEF FailIsGivenUp
-----------------------------------------------------------------------------
(* The theorems. *)

LEMMA InitHolds == Init => Inv
<1> SUFFICES ASSUME Init PROVE Inv
  OBVIOUS
<1>1. TypeOK
  <2>1. sendFailures \in 0 .. MaxSendFailures
    BY RetryAssumption DEF Init
  <2>3. threw \subseteq Results /\ skipped \subseteq Calls
    BY DEF Init
  <2>4. lost \in BOOLEAN BY DEF Init
  <2>2. node \in [Results -> 0 .. MaxExec + 1] /\ crashes \in 0 .. MaxCrashes
        /\ stolen \in 0 .. MaxStolen
    BY RetryAssumption DEF Init
  <2> QED BY <2>1, <2>2, <2>3, <2>4 DEF Init, TypeOK, Labels
<1>2. /\ \A c \in Results : ~ Queued(c) /\ \A w \in Workers : ~ Taken(c, w)
      /\ \A c \in Results : node[c] = 0 /\ result[c] = <<>> /\ runs[c] = 0
                          /\ published[c] = 0 /\ c \notin short
      /\ skipped = {} /\ \A w \in Workers : open[w]
      /\ Calls \subseteq Results /\ fail = <<>> /\ queue = <<>> /\ MaxExec \in Nat \ {0}
  BY RetryAssumption DEF Init, Queued, Taken, Results
<1>3. \A c \in Calls : OneTask(c) /\ Counted(c)
  BY <1>2 DEF OneTask, QueuedOnce, Busy, Counted
<1>4. CountedInOrder
  BY <1>2, <1>3 DEF CountedInOrder
<1>5. FailIsGivenUp /\ AckedIsSettled
  BY <1>2 DEF FailIsGivenUp, AckedIsSettled
<1> QED BY <1>1, <1>4, <1>5 DEF Inv

LEMMA NextKeeps == Inv /\ [Next]_vars => Inv'
<1> SUFFICES ASSUME Inv, [Next]_vars PROVE Inv'
  OBVIOUS
<1>1. TypeOK' BY NextType DEF Inv
<1>2. CountedInOrder'
  BY LoneKept, PlacedKept, OpenedKept DEF CountedInOrder, Lone, Placed, Opened
<1>3. AckedIsSettled'
  <2> SUFFICES ASSUME NEW c \in Calls, published'[c] = 1, ~ Pending(c)'
               PROVE  Settled(c)' \/ c \in skipped'
    BY DEF AckedIsSettled
  <2> QED BY LoneKept DEF Lone
<1> QED BY <1>1, <1>2, <1>3, FailedStay DEF Inv

LEMMA SpecKeeps == Spec => []Inv
BY InitHolds, NextKeeps, PTL DEF Spec

\* Every variable of the worker with a retry count has its type.
THEOREM RetryTypeCorrect == Spec => []TypeOK
<1>1. Inv => TypeOK BY DEF Inv
<1> QED BY <1>1, SpecKeeps, PTL

\* The one message of a call is at one place, and its counter, its result and
\* its retention agree with what its worker is about.
THEOREM CountingInOrder == Spec => []CountedInOrder
<1>1. Inv => CountedInOrder BY DEF Inv
<1> QED BY <1>1, SpecKeeps, PTL

\* A call published once runs MaxExec times at most, however workers die.
THEOREM ExecutionsAreBounded == Spec => []RunsBounded
<1>1. Inv => RunsBounded BY DEF Inv, CountedInOrder, Counted, RunsBounded
<1> QED BY <1>1, SpecKeeps, PTL

\* The queue of failures names calls that were given up.
THEOREM FailuresAreGivenUp == Spec => []FailIsGivenUp
<1>1. Inv => FailIsGivenUp BY DEF Inv
<1> QED BY <1>1, SpecKeeps, PTL

\* The acknowledgement of a call's one message leaves one whole result, or none.
THEOREM AcknowledgedIsSettled == Spec => []AckedIsSettled
<1>1. Inv => AckedIsSettled BY DEF Inv
<1> QED BY <1>1, SpecKeeps, PTL

\* Nobody touches a result behind that acknowledgement.
THEOREM SettledResultsStay == Spec => SettledStays
<1>1. ASSUME Inv, [Next]_vars
      PROVE  \A c \in Calls : published[c] = 1 /\ ~ Pending(c) /\ c \notin skipped =>
                                result'[c] = result[c]
  BY <1>1, Untouched
<1> QED BY <1>1, SpecKeeps, PTL DEF Spec, SettledStays
=============================================================================
