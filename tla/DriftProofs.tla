------------------------------ MODULE DriftProofs ------------------------------
(***************************************************************************)
(* Theorems about Drift: the shells keep to what DriftWorkers expects of   *)
(* them, for any number of shells and any commands, so that the theorems   *)
(* of DriftWorkersProofs are theorems about the whole system.              *)
(***************************************************************************)
EXTENDS Drift, StreamProofs

-----------------------------------------------------------------------------
(* Sequences of calls. *)

\* The tail of a chain, once its head is published, and its suffixes.
LEMMA ChainTail ==
    ASSUME NEW cs \in Seq(Results), Chained(cs), Tail(cs) # <<>>
    PROVE  /\ Input[Tail(cs)[1]] = cs[1] /\ Last(Tail(cs)) = Last(cs)
           /\ \A i \in 2 .. Len(Tail(cs)) : Input[Tail(cs)[i]] = Tail(cs)[i - 1]
<1>1. /\ Len(cs) \in Nat /\ Len(cs) > 1 /\ Len(Tail(cs)) = Len(cs) - 1
      /\ \A i \in 1 .. Len(cs) - 1 : Tail(cs)[i] = cs[i + 1]
  OBVIOUS
<1>2. Input[Tail(cs)[1]] = cs[1]
  <2>1. Tail(cs)[1] = cs[2] /\ 2 \in 2 .. Len(cs) /\ 2 - 1 = 1
    BY <1>1
  <2>2. QED
    BY <2>1 DEF Chained
<1>3. ASSUME NEW i \in 2 .. Len(Tail(cs))
      PROVE  Input[Tail(cs)[i]] = Tail(cs)[i - 1]
  <2>1. Tail(cs)[i] = cs[i + 1] /\ Tail(cs)[i - 1] = cs[i] /\ i + 1 \in 2 .. Len(cs)
    BY <1>1
  <2>2. Input[cs[i + 1]] = cs[(i + 1) - 1]
    BY <2>1 DEF Chained
  <2>3. QED
    BY <2>1, <2>2
<1>4. Last(Tail(cs)) = Last(cs)
  BY <1>1 DEF Last
<1>5. QED
  BY <1>2, <1>3, <1>4

LEMMA ChainSuffix ==
    ASSUME NEW cs \in Seq(Results), Chained(cs), NEW k \in 0 .. Len(cs),
           k > 0 => published[cs[k]] > 0
    PROVE  /\ SendList(cs, k) \in Seq(Results)
           /\ SendList(cs, k) # <<>> =>
                Chained(SendList(cs, k)) /\ Last(SendList(cs, k)) = Last(cs)
           /\ SendList(cs, k) = <<>> => k > 0 /\ Last(cs) = cs[k]
<1> DEFINE l == SubSeq(cs, k + 1, Len(cs))
<1>1. Len(cs) \in Nat /\ Len(cs) > 0 /\ k \in Nat
  BY DEF Chained
<1>2. /\ l \in Seq(Results) /\ Len(l) = Len(cs) - k
      /\ \A i \in 1 .. Len(cs) - k : l[i] = cs[k + i]
  BY <1>1
<1> HIDE DEF l
<1>3. ASSUME l # <<>>
      PROVE  Chained(l) /\ Last(l) = Last(cs)
  <2>1. Len(cs) - k > 0
    BY <1>1, <1>2, <1>3
  <2>2. Ready(l[1])
    <3>1. l[1] = cs[k + 1]
      BY <1>1, <1>2, <2>1
    <3>2. CASE k = 0
      BY <3>1, <3>2 DEF Chained
    <3>3. CASE k > 0
      <4>1. Input[cs[k + 1]] = cs[(k + 1) - 1]
        BY <1>1, <2>1, <3>3 DEF Chained
      <4>2. QED
        BY <3>1, <3>3, <4>1 DEF Ready
    <3>4. QED
      BY <1>1, <3>2, <3>3
  <2>3. ASSUME NEW i \in 2 .. Len(l)
        PROVE  Input[l[i]] = l[i - 1]
    <3>1. /\ i \in 1 .. Len(cs) - k /\ i - 1 \in 1 .. Len(cs) - k
          /\ k + i \in 2 .. Len(cs) /\ k + (i - 1) = (k + i) - 1
      BY <1>1, <1>2
    <3>2. Input[cs[k + i]] = cs[(k + i) - 1]
      BY <3>1 DEF Chained
    <3>3. QED
      BY <1>2, <3>1, <3>2
  <2>4. Last(l) = Last(cs)
    BY <1>1, <1>2, <2>1 DEF Last
  <2>5. QED
    BY <1>3, <2>2, <2>3, <2>4 DEF Chained
<1>4. l = <<>> => k > 0 /\ Last(cs) = cs[k]
  BY <1>1, <1>2 DEF Last
<1>5. SendList(cs, k) = l
  BY DEF SendList, l
<1>6. QED
  BY <1>2, <1>3, <1>4, <1>5
-----------------------------------------------------------------------------
(* What the workers do to the topics. *)

\* A worker that is not idle has a call that was published.
LEMMA BusyIsPublished ==
    ASSUME TypeOK, OnePlace, NEW w \in Workers, pc[w] # "idle"
    PROVE  Res(w) \in Results /\ published[Res(w)] > 0
<1>1. task[w] \in Task /\ Res(w) \in Results
  BY BusyHasTask
<1>2. Held(Res(w))
  BY <1>1, CallAssumption DEF Held, HeldBy
<1>3. QED
  BY <1>1, <1>2 DEF OnePlace

\* The topics and the names on the fail topic only ever get more.
Grow(r) ==
    /\ topics \subseteq topics' /\ topics' \subseteq topics \cup {r}
    /\ failTopic \subseteq failTopic' /\ failTopic' \subseteq failTopic \cup {r, None}

LEMMA WorkGrows ==
    ASSUME TypeOK, OnePlace, BrokersInOrder, NEW w \in Workers, Work(w) \/ Fault(w)
    PROVE  /\ published' = published
           /\ \/ \E r \in Results : published[r] > 0 /\ Grow(r)
              \/ UNCHANGED <<topics, failTopic>>
<1> USE DEF brokers, signals, kafka, local, faults
<1>1. CASE Consume(w)
  <2>1. Res(w) \in Results /\ published[Res(w)] > 0
    BY <1>1, BusyIsPublished DEF Consume
  <2>2. CASE Does(w, Consumers)
    <3>1. In(w) \in Results /\ published[In(w)] > 0
      BY <2>1, <2>2, CallAssumption DEF Does, In, BrokersInOrder, Ready
    <3>2. Grow(In(w))
      BY <1>1 DEF Consume, Grow
    <3>3. QED
      BY <1>1, <3>1, <3>2 DEF Consume
  <2>3. CASE ~Does(w, Consumers)
    BY <1>1, <2>3 DEF Consume
  <2>4. QED
    BY <2>2, <2>3
<1>2. CASE SendData(w) \/ SendToken(w) \/ SendFails(w)
  <2>1. pc[w] # "idle"
    BY <1>2 DEF SendData, SendToken, SendFails, Sending, Emitting, SendingEof,
                SendingErr, Drained
  <2>2. Grow(Res(w)) /\ published' = published
    BY <1>2 DEF SendData, SendToken, SendFails, Send, Grow
  <2>3. QED
    BY <2>1, <2>2, BusyIsPublished
<1>3. CASE SendFail(w) \/ ReportFails(w)
  <2>1. pc[w] # "idle" /\ Grow(Res(w)) /\ published' = published
    BY <1>3 DEF SendFail, ReportFails, Grow
  <2>2. QED
    BY <2>1, BusyIsPublished
<1>4. CASE Deliver(w) \/ Exists(w) \/ Create(w) \/ Restart(w) \/ Restarted(w)
  BY <1>4 DEF Deliver, Exists, Create, Restart, Restarted
<1>5. CASE Declare(w) \/ Poll(w) \/ WakeUp(w) \/ Ack(w)
  BY <1>5 DEF Declare, Poll, WakeUp, Ack
<1>6. CASE PollTimeout(w) \/ Crash(w)
  BY <1>6 DEF PollTimeout, Crash
<1>7. QED
  BY <1>1, <1>2, <1>3, <1>4, <1>5, <1>6 DEF Work, Fault

LEMMA BackendKeepsOrder ==
    ASSUME TypeOK, OnePlace, BrokersInOrder, Backend, polled' = polled
    PROVE  BrokersInOrder' /\ published' = published /\ failTopic \subseteq failTopic'
<1> USE DEF brokers, signals, kafka, local, faults
<1>1. \/ \E r \in Results : published[r] > 0 /\ Grow(r)
      \/ UNCHANGED <<topics, failTopic>>
  BY WorkGrows DEF Backend, Cancel, CancelBegins, CancelEnds, Purge
<1>2. published' = published
  BY WorkGrows DEF Backend, Cancel, CancelBegins, CancelEnds, Purge
<1>3. (\A r \in Results : published[r] > 0 => Ready(r))'
  BY <1>2 DEF BrokersInOrder, Ready
<1>4. TopicsArePublished'
  BY <1>1, <1>2 DEF BrokersInOrder, TopicsArePublished, Queues, Grow
<1>5. \A r \in failTopic' \ {None} : published'[r] > 0
  BY <1>1, <1>2 DEF BrokersInOrder, Grow
<1>6. QED
  BY <1>1, <1>2, <1>3, <1>4, <1>5 DEF BrokersInOrder, Grow
-----------------------------------------------------------------------------
(* One step of a shell. *)

\* The other shells keep their state.
Alone(s) == \A t \in Sessions \ {s} :
    /\ shell'[t] = shell[t] /\ cmds'[t] = cmds[t] /\ sendList'[t] = sendList[t]
    /\ nameTable'[t] = nameTable[t] /\ query'[t] = query[t]
    /\ failedServices'[t] = failedServices[t]

Advances(s) == ShellTypeOK' /\ Alone(s) /\ SessionInOrder(s)'

\* What a shell that does not move relies on stays true.
LEMMA StaysInOrder ==
    ASSUME ShellTypeOK, NEW t \in Sessions, SessionInOrder(t),
           shell'[t] = shell[t], cmds'[t] = cmds[t], sendList'[t] = sendList[t],
           nameTable'[t] = nameTable[t], query'[t] = query[t],
           failedServices'[t] = failedServices[t], failTopic \subseteq failTopic',
           \A r \in Results : published[r] > 0 => published'[r] > 0
    PROVE  SessionInOrder(t)'
<1>1. cmds[t] \in Seq(Results) /\ sendList[t] \in Seq(Results)
  BY DEF ShellTypeOK
<1>2. ASSUME NEW cs \in Seq(Results), Chained(cs)
      PROVE  cs # <<>> /\ Ready(cs[1])' /\ \A i \in 2 .. Len(cs) : Input[cs[i]] = cs[i - 1]
  <2>1. cs # <<>> /\ cs[1] \in Results /\ Input[cs[1]] \in Results \cup {None}
    BY <1>2, CallAssumption DEF Chained
  <2>2. QED
    BY <1>2, <2>1 DEF Chained, Ready
<1>3. shell[t] \in {"check", "exists", "topics"} => Chained(cmds[t])'
  BY <1>1, <1>2 DEF SessionInOrder, Chained
<1>4. shell[t] = "publish" => Chained(sendList[t])'
  BY <1>1, <1>2 DEF SessionInOrder, Chained
<1>5. \A n \in Names \cup {None} : nameTable[t][n] # None => nameTable[t][n] \in Results
  BY DEF ShellTypeOK
<1>6. query[t] # None => query[t] \in Results
  BY DEF ShellTypeOK
<1>7. QED
  BY <1>3, <1>4, <1>5, <1>6 DEF SessionInOrder, Last, Chained

LEMMA ReadCommandAdvances ==
    ASSUME ShellTypeOK, NEW s \in Sessions, SessionInOrder(s), NEW c \in Commands,
           ReadCommand(s, c)
    PROVE  Advances(s)
<1> USE DEF command, tables, printing
<1> DEFINE input == IF c.arg = None THEN None ELSE nameTable[s][c.arg]
<1>1. c \in Command /\ Len(c.services) \in Nat \ {0}
  BY CommandAssumption DEF Command
<1>2. PICK cs \in [1 .. Len(c.services) -> Results] :
        Split(c.services, input, cs) /\ cmds' = [cmds EXCEPT ![s] = cs]
  BY DEF ReadCommand
<1>3. cs \in Seq(Results) /\ Len(cs) = Len(c.services)
  BY <1>1, <1>2
<1>4. shell[s] = "prompt" /\ shell' = [shell EXCEPT ![s] = "check"]
  BY DEF ReadCommand, Types, Goto
<1>5. input # None => published[input] > 0
  BY <1>1, <1>4 DEF ReadCommand, Valid, SessionInOrder, Command
<1>6. Chained(cs)
  <2>1. /\ \A i \in 1 .. Len(cs) : Input[cs[i]] = IF i = 1 THEN input ELSE cs[i - 1]
        /\ Len(cs) \in Nat \ {0}
    BY <1>1, <1>2, <1>3 DEF Split
  <2>2. cs # <<>>
    BY <1>3, <2>1
  <2>3. Input[cs[1]] = input
    BY <2>1
  <2>4. ASSUME NEW i \in 2 .. Len(cs)
        PROVE  Input[cs[i]] = cs[i - 1]
    BY <2>1
  <2>5. QED
    BY <1>5, <2>2, <2>3, <2>4 DEF Chained, Ready
<1>7. ShellTypeOK'
  <2>1. cmds' \in [Sessions -> Seq(Results)]
    BY <1>2, <1>3 DEF ShellTypeOK
  <2>2. target' \in [Sessions -> Names \cup {None}]
    BY <1>1 DEF ReadCommand, ShellTypeOK, Command
  <2>3. typed' \in [Sessions -> Nat]
    BY DEF ReadCommand, Types, ShellTypeOK
  <2>4. QED
    BY <1>4, <2>1, <2>2, <2>3 DEF ReadCommand, ShellTypeOK
<1>8. Alone(s)
  BY <1>2, <1>4 DEF ReadCommand, ShellTypeOK, Alone
<1>9. cmds'[s] = cs /\ shell'[s] = "check"
  BY <1>2, <1>4 DEF ShellTypeOK
<1>10. Chained(cs)'
  BY <1>6 DEF ReadCommand, vars, brokers, Chained, Ready
<1>11. SessionInOrder(s)'
  BY <1>4, <1>9, <1>10 DEF ReadCommand, vars, brokers, kafka, SessionInOrder, Chained, Ready
<1>12. QED
  BY <1>7, <1>8, <1>11 DEF Advances

\* Binding changes one name of one shell.
LEMMA BindOne ==
    ASSUME ShellTypeOK, NEW s \in Sessions, NEW r \in Results, Bind(s, r)
    PROVE  /\ nameTable' \in [Sessions -> [Names \cup {None} -> Results \cup {None}]]
           /\ \A t \in Sessions \ {s} : nameTable'[t] = nameTable[t]
           /\ \A n \in Names \cup {None} :
                nameTable'[s][n] = IF n = target[s] THEN r ELSE nameTable[s][n]
<1>1. target[s] \in Names \cup {None}
  BY DEF ShellTypeOK
<1>2. QED
  BY <1>1 DEF Bind, ShellTypeOK

\* The last call of a command is a call.
LEMMA LastType ==
    ASSUME NEW cs \in Seq(Results), cs # <<>>
    PROVE  Last(cs) \in Results /\ cs[1] \in Results /\ Len(cs) \in Nat \ {0}
BY DEF Last

LEMMA LastOfOne ==
    ASSUME NEW cs \in Seq(Results), cs # <<>>, Tail(cs) = <<>>
    PROVE  Last(cs) = cs[1]
<1>1. Len(cs) \in Nat /\ Len(cs) # 0 /\ Len(Tail(cs)) = Len(cs) - 1
  OBVIOUS
<1>2. Len(cs) = 1
  BY <1>1
<1>3. QED
  BY <1>2 DEF Last

LEMMA CheckFailedAdvances ==
    ASSUME ShellTypeOK, BrokersInOrder, NEW s \in Sessions, SessionInOrder(s),
           CheckFailed(s)
    PROVE  Advances(s)
<1> USE DEF command, printing
<1>1. /\ shell[s] = "check" /\ cmds[s] \in Seq(Results) /\ Chained(cmds[s])
      /\ published' = published /\ failTopic' = failTopic
      /\ cmds' = cmds /\ failedServices' = failedServices
  BY DEF CheckFailed, SessionInOrder, ShellTypeOK, vars, brokers, kafka
<1>2. CASE cmds[s][1] \in failedServices[s] /\ Bind(s, cmds[s][1]) /\ Goto(s, "prompt")
  <2>1. cmds[s][1] \in Results
    BY <1>1, LastType DEF Chained
  <2>2. published[cmds[s][1]] > 0
    BY <1>2, <2>1, CallAssumption DEF SessionInOrder, BrokersInOrder
  <2>3. ShellTypeOK' /\ Alone(s) /\ shell'[s] = "prompt"
    BY <1>2, <2>1, BindOne DEF CheckFailed, ShellTypeOK, Alone, Goto
  <2>4. \A n \in Names \cup {None} : nameTable'[s][n] # None => published'[nameTable'[s][n]] > 0
    BY <1>1, <1>2, <2>1, <2>2, BindOne DEF SessionInOrder
  <2>5. SessionInOrder(s)'
    BY <1>1, <2>3, <2>4 DEF SessionInOrder
  <2>6. QED
    BY <2>3, <2>5 DEF Advances
<1>3. CASE /\ Goto(s, IF target[s] = None THEN "topics" ELSE "exists")
           /\ UNCHANGED nameTable
  <2>1. ShellTypeOK' /\ Alone(s) /\ shell'[s] \in {"topics", "exists"}
    BY <1>3 DEF CheckFailed, ShellTypeOK, Alone, Goto
  <2>2. Chained(cmds[s])'
    BY <1>1 DEF Chained, Ready
  <2>3. SessionInOrder(s)'
    BY <1>1, <1>3, <2>1, <2>2 DEF SessionInOrder
  <2>4. QED
    BY <2>1, <2>3 DEF Advances
<1>4. QED
  BY <1>2, <1>3 DEF CheckFailed

LEMMA ResultExistsAdvances ==
    ASSUME ShellTypeOK, BrokersInOrder, NEW s \in Sessions, SessionInOrder(s),
           ResultExists(s)
    PROVE  Advances(s)
<1> USE DEF command, printing
<1>1. /\ shell[s] = "exists" /\ cmds[s] \in Seq(Results) /\ Chained(cmds[s])
      /\ published' = published /\ failTopic' = failTopic
      /\ cmds' = cmds /\ failedServices' = failedServices
      /\ Bind(s, Last(cmds[s]))
      /\ Goto(s, IF Last(cmds[s]) \in Queues THEN "prompt" ELSE "topics")
  BY DEF ResultExists, SessionInOrder, ShellTypeOK, vars, brokers, kafka
<1>2. Last(cmds[s]) \in Results
  BY <1>1, LastType DEF Chained
<1>3. ShellTypeOK' /\ Alone(s)
  BY <1>1, <1>2, BindOne DEF ResultExists, ShellTypeOK, Alone, Goto
<1>4. shell'[s] = IF Last(cmds[s]) \in Queues THEN "prompt" ELSE "topics"
  BY <1>1 DEF Goto, ShellTypeOK
<1>5. Last(cmds[s]) \in Queues => published[Last(cmds[s])] > 0
  BY DEF BrokersInOrder, TopicsArePublished
<1>6. \A n \in Names \cup {None} : nameTable'[s][n] # None =>
        published[nameTable'[s][n]] > 0 \/ nameTable'[s][n] = Last(cmds[s])
  BY <1>1, <1>2, BindOne DEF SessionInOrder
<1>7. Chained(cmds[s])'
  BY <1>1 DEF Chained, Ready
<1>8. SessionInOrder(s)'
  BY <1>1, <1>4, <1>5, <1>6, <1>7 DEF SessionInOrder, Last
<1>9. QED
  BY <1>3, <1>8 DEF Advances

\* When the last call of a command is published, the shell may go on.
LEMMA ProceedAdvances ==
    ASSUME ShellTypeOK, NEW s \in Sessions, SessionInOrder(s), Proceed(s),
           shell[s] \in {"topics", "publish"}, Last(cmds[s]) \in Results,
           published'[Last(cmds[s])] > 0,
           \A r \in Results : published[r] > 0 => published'[r] > 0,
           failTopic' = failTopic, sendList' \in [Sessions -> Seq(Results)],
           \A t \in Sessions \ {s} : sendList'[t] = sendList[t],
           UNCHANGED <<cmds, target, tables, offset, printed, typed, polled>>
    PROVE  Advances(s)
<1> USE DEF tables
<1>1. Last(cmds[s]) \in Results
  OBVIOUS
<1>2. \A n \in Names \cup {None} : nameTable[s][n] # None => nameTable[s][n] \in Results
  BY DEF ShellTypeOK
<1>3. \A n \in Names \cup {None} : nameTable'[s][n] # None => published'[nameTable'[s][n]] > 0
  BY <1>1, <1>2 DEF SessionInOrder
<1>4. failedServices'[s] \subseteq failTopic'
  BY DEF SessionInOrder
<1>5. CASE query' = [query EXCEPT ![s] = Last(cmds[s])] /\ Goto(s, "print")
  <2>1. ShellTypeOK' /\ Alone(s) /\ shell'[s] = "print" /\ query'[s] = Last(cmds[s])
    BY <1>1, <1>5 DEF ShellTypeOK, Alone, Goto
  <2>2. Last(cmds[s]) # None
    BY <1>1, CallAssumption
  <2>3. SessionInOrder(s)'
    BY <1>3, <1>4, <2>1, <2>2 DEF SessionInOrder
  <2>4. QED
    BY <2>1, <2>3 DEF Advances
<1>6. CASE Goto(s, "prompt") /\ UNCHANGED query
  <2>1. ShellTypeOK' /\ Alone(s) /\ shell'[s] = "prompt"
    BY <1>6 DEF ShellTypeOK, Alone, Goto
  <2>2. SessionInOrder(s)'
    BY <1>3, <1>4, <2>1 DEF SessionInOrder
  <2>3. QED
    BY <2>1, <2>2 DEF Advances
<1>7. QED
  BY <1>5, <1>6 DEF Proceed

LEMMA ListTopicsAdvances ==
    ASSUME ShellTypeOK, BrokersInOrder, NEW s \in Sessions, SessionInOrder(s),
           ListTopics(s)
    PROVE  Advances(s)
<1> DEFINE l == sendList'[s]
<1>1. /\ shell[s] = "topics" /\ cmds[s] \in Seq(Results) /\ Chained(cmds[s])
      /\ published' = published /\ failTopic' = failTopic
      /\ UNCHANGED <<cmds, target, tables, offset, printed, typed, polled>>
  BY DEF ListTopics, SessionInOrder, ShellTypeOK, vars, brokers, kafka
<1>2. PICK k \in 0 .. Len(cmds[s]) :
        /\ Existing(cmds[s], k)
        /\ sendList' = [sendList EXCEPT ![s] = SendList(cmds[s], k)]
  BY DEF ListTopics
<1>3. k > 0 => published[cmds[s][k]] > 0
  BY <1>2 DEF Existing, BrokersInOrder, TopicsArePublished
<1>4. /\ SendList(cmds[s], k) \in Seq(Results)
      /\ SendList(cmds[s], k) # <<>> =>
           Chained(SendList(cmds[s], k)) /\ Last(SendList(cmds[s], k)) = Last(cmds[s])
      /\ SendList(cmds[s], k) = <<>> => k > 0 /\ Last(cmds[s]) = cmds[s][k]
  BY <1>1, <1>3, ChainSuffix
<1>5. /\ sendList' \in [Sessions -> Seq(Results)]
      /\ \A t \in Sessions \ {s} : sendList'[t] = sendList[t]
      /\ l = SendList(cmds[s], k)
  BY <1>2, <1>4 DEF ShellTypeOK
<1>6. CASE l = <<>> /\ Proceed(s)
  <2>1. published'[Last(cmds[s])] > 0
    BY <1>1, <1>3, <1>4, <1>5, <1>6
  <2>2. Last(cmds[s]) \in Results
    BY <1>1, LastType DEF Chained
  <2>3. QED
    BY <1>1, <1>5, <1>6, <2>1, <2>2, ProceedAdvances
<1>7. CASE l # <<>> /\ Goto(s, "publish") /\ UNCHANGED query
  <2>1. ShellTypeOK' /\ Alone(s) /\ shell'[s] = "publish"
    BY <1>1, <1>5, <1>7 DEF ShellTypeOK, Alone, Goto, tables
  <2>2. Chained(l) /\ Last(l) = Last(cmds[s])
    BY <1>4, <1>5, <1>7
  <2>3. Chained(sendList[s])'
    BY <1>1, <2>2 DEF Chained, Ready
  <2>4. SessionInOrder(s)'
    BY <1>1, <2>1, <2>2, <2>3 DEF SessionInOrder, Last, tables
  <2>5. QED
    BY <2>1, <2>4 DEF Advances
<1>8. QED
  BY <1>6, <1>7 DEF ListTopics

\* The head of a send list is published, and only that.
LEMMA PublishIsReady ==
    ASSUME TypeOK, ShellTypeOK, NEW s \in Sessions, SessionInOrder(s), PublishNext(s)
    PROVE  /\ Head(sendList[s]) \in Results /\ Head(sendList[s]) = sendList[s][1]
           /\ \E anon \in BOOLEAN : Publish(Head(sendList[s]), anon)
           /\ published'[Head(sendList[s])] > 0
           /\ \A r \in Results : published[r] > 0 => published'[r] > 0
           /\ \A r \in Results : published'[r] > 0 =>
                published[r] > 0 \/ r = Head(sendList[s])
<1>1. sendList[s] \in Seq(Results) /\ Chained(sendList[s])
  BY DEF PublishNext, SessionInOrder, ShellTypeOK
<1>2. Head(sendList[s]) \in Results /\ Head(sendList[s]) = sendList[s][1]
  BY <1>1 DEF Chained
<1>3. published' = [published EXCEPT ![Head(sendList[s])] = @ + 1]
  BY DEF PublishNext, Enqueue
<1>4. published \in [Results -> Nat]
  BY DEF TypeOK
<1>5. \E anon \in BOOLEAN : Publish(Head(sendList[s]), anon)
  <2>1. Publish(Head(sendList[s]), target[s] = None)
    BY <1>1, <1>2 DEF PublishNext, Publish, Chained, Ready
  <2>2. (target[s] = None) \in BOOLEAN
    OBVIOUS
  <2>3. QED
    BY <2>1, <2>2
<1>6. QED
  BY <1>2, <1>3, <1>4, <1>5

LEMMA PublishNextAdvances ==
    ASSUME TypeOK, ShellTypeOK, NEW s \in Sessions, SessionInOrder(s), PublishNext(s)
    PROVE  Advances(s)
<1> DEFINE l == sendList[s]
<1>1. /\ shell[s] = "publish" /\ l \in Seq(Results) /\ Chained(l)
      /\ Last(l) = Last(cmds[s]) /\ cmds[s] \in Seq(Results)
      /\ failTopic' = failTopic
      /\ UNCHANGED <<cmds, target, tables, offset, printed, typed, polled>>
  BY DEF PublishNext, Enqueue, SessionInOrder, ShellTypeOK, kafka
<1>2. /\ Tail(l) \in Seq(Results)
      /\ sendList' \in [Sessions -> Seq(Results)] /\ sendList'[s] = Tail(l)
      /\ \A t \in Sessions \ {s} : sendList'[t] = sendList[t]
  BY <1>1 DEF PublishNext, ShellTypeOK, Chained
<1>3. \A r \in Results : published[r] > 0 => published'[r] > 0
  BY PublishIsReady
<1>4. published'[l[1]] > 0
  BY PublishIsReady
<1>5. CASE Tail(l) = <<>> /\ Proceed(s)
  <2>1. Last(cmds[s]) = l[1] /\ l[1] \in Results
    BY <1>1, <1>5, LastOfOne, LastType DEF Chained
  <2>2. published'[Last(cmds[s])] > 0
    BY <1>4, <2>1
  <2>3. QED
    BY <1>1, <1>2, <1>3, <1>5, <2>1, <2>2, ProceedAdvances
<1>6. CASE Tail(l) # <<>> /\ UNCHANGED <<shell, query>>
  <2>1. ShellTypeOK' /\ Alone(s)
    BY <1>1, <1>2, <1>6 DEF ShellTypeOK, Alone, tables
  <2>2. /\ Input[Tail(l)[1]] = l[1] /\ Last(Tail(l)) = Last(l)
        /\ \A i \in 2 .. Len(Tail(l)) : Input[Tail(l)[i]] = Tail(l)[i - 1]
    BY <1>1, <1>6, ChainTail
  <2>3. Chained(sendList[s])'
    BY <1>2, <1>4, <1>6, <2>2 DEF Chained, Ready
  <2>4. \A n \in Names \cup {None} : nameTable[s][n] # None => nameTable[s][n] \in Results
    BY DEF ShellTypeOK
  <2>5. SessionInOrder(s)'
    BY <1>1, <1>2, <1>3, <1>6, <2>2, <2>3, <2>4 DEF SessionInOrder, Last, tables
  <2>6. QED
    BY <2>1, <2>5 DEF Advances
<1>7. QED
  BY <1>5, <1>6 DEF PublishNext

LEMMA ReadNameAdvances ==
    ASSUME ShellTypeOK, NEW s \in Sessions, SessionInOrder(s), NEW n \in Names,
           ReadQuery(s, n) \/ ReadRm(s, n)
    PROVE  Advances(s)
<1> USE DEF command, tables, printing
<1>1. /\ shell[s] = "prompt" /\ typed' \in [Sessions -> Nat]
      /\ published' = published /\ failTopic' = failTopic
  <2>1. shell[s] = "prompt" /\ published' = published /\ failTopic' = failTopic
    BY DEF ReadQuery, ReadRm, Types, vars, brokers, kafka
  <2>2. Types(s)
    BY DEF ReadQuery, ReadRm
  <2>3. typed' \in [Sessions -> Nat]
    BY <2>2 DEF Types, ShellTypeOK
  <2>4. QED
    BY <2>1, <2>3
<1>2. \A m \in Names \cup {None} :
        nameTable[s][m] # None => published[nameTable[s][m]] > 0
  BY <1>1 DEF SessionInOrder
<1>3. CASE ReadQuery(s, n)
  <2>1. nameTable[s][n] \in Results /\ nameTable[s][n] # None
    BY <1>3 DEF ReadQuery, ShellTypeOK
  <2>2. /\ ShellTypeOK' /\ Alone(s) /\ shell'[s] = "print"
        /\ query'[s] = nameTable[s][n]
    BY <1>1, <1>3, <2>1 DEF ReadQuery, ShellTypeOK, Alone, Goto
  <2>3. SessionInOrder(s)'
    BY <1>1, <1>2, <1>3, <2>1, <2>2 DEF ReadQuery, SessionInOrder
  <2>4. QED
    BY <2>2, <2>3 DEF Advances
<1>4. CASE ReadRm(s, n)
  <2>1. /\ nameTable' \in [Sessions -> [Names \cup {None} -> Results \cup {None}]]
        /\ \A t \in Sessions \ {s} : nameTable'[t] = nameTable[t]
        /\ \A m \in Names \cup {None} :
             nameTable'[s][m] = IF m = n THEN None ELSE nameTable[s][m]
    BY <1>4 DEF ReadRm, ShellTypeOK
  <2>2. ShellTypeOK' /\ Alone(s)
    BY <1>1, <1>4, <2>1 DEF ReadRm, ShellTypeOK, Alone
  <2>3. SessionInOrder(s)'
    BY <1>1, <1>2, <1>4, <2>1 DEF ReadRm, SessionInOrder
  <2>4. QED
    BY <2>2, <2>3 DEF Advances
<1>5. QED
  BY <1>3, <1>4

LEMMA StartPrintingAdvances ==
    ASSUME ShellTypeOK, NEW s \in Sessions, SessionInOrder(s), StartPrinting(s)
    PROVE  /\ Advances(s)
           /\ \E r \in Results : published[r] > 0 /\ polled' = polled \cup {r}
<1> USE DEF command, tables
<1>1. /\ shell[s] = "print" /\ query[s] \in Results /\ published[query[s]] > 0
      /\ published' = published /\ failTopic' = failTopic
  BY DEF StartPrinting, SessionInOrder, ShellTypeOK, vars, brokers, kafka
<1>2. ShellTypeOK' /\ Alone(s) /\ shell'[s] = "loop"
  <2>1. offset' \in [Sessions -> Nat \cup {Begin}]
    BY DEF StartPrinting, ShellTypeOK
  <2>2. printed' \in [Sessions -> Seq(Record)]
    BY DEF StartPrinting, ShellTypeOK
  <2>3. polled' \subseteq Results
    BY <1>1 DEF StartPrinting, ShellTypeOK
  <2>4. QED
    BY <2>1, <2>2, <2>3 DEF StartPrinting, ShellTypeOK, Alone, Goto
<1>3. SessionInOrder(s)'
  BY <1>1, <1>2 DEF StartPrinting, SessionInOrder
<1>4. QED
  BY <1>1, <1>2, <1>3 DEF Advances, StartPrinting

LEMMA PrintAdvances ==
    ASSUME TypeOK, ShellTypeOK, NEW s \in Sessions, SessionInOrder(s),
           PrintRecord(s) \/ StopPrinting(s)
    PROVE  Advances(s)
<1> USE DEF command, tables, printing
<1> DEFINE q == query[s]
<1>1. /\ shell[s] = "loop" /\ q \in Results
      /\ published' = published /\ failTopic' = failTopic
      /\ UNCHANGED <<cmds, target, sendList, nameTable, failedServices, query,
                     typed, polled>>
  BY DEF PrintRecord, StopPrinting, SessionInOrder, ShellTypeOK, vars, brokers, kafka
<1>2. /\ log[q] \in Seq(Record) /\ Len(log[q]) \in Nat
      /\ base[q] \in Nat /\ Offset(s) \in Nat
  BY <1>1 DEF TypeOK, ShellTypeOK, Offset, Begin
<1>3. shell' = [shell EXCEPT ![s] = "prompt"] \/ shell' = shell
  BY DEF PrintRecord, StopPrinting, Goto
<1>4. offset' \in [Sessions -> Nat \cup {Begin}]
  BY <1>1, <1>2 DEF PrintRecord, StopPrinting, ShellTypeOK
<1>5. printed' \in [Sessions -> Seq(Record)]
  <2>1. CASE UNCHANGED printed
    BY <2>1 DEF ShellTypeOK
  <2>2. ASSUME Offset(s) < Len(log[q]),
               printed' = [printed EXCEPT ![s] = Append(@, log[q][Offset(s) + 1])]
        PROVE  printed' \in [Sessions -> Seq(Record)]
    <3>1. log[q][Offset(s) + 1] \in Record
      BY <1>2, <2>2
    <3>2. printed \in [Sessions -> Seq(Record)]
      BY DEF ShellTypeOK
    <3>3. QED
      BY <2>2, <3>1, <3>2
  <2>3. QED
    BY <2>1, <2>2 DEF PrintRecord, StopPrinting
<1>6. ShellTypeOK' /\ Alone(s)
  BY <1>1, <1>3, <1>4, <1>5 DEF ShellTypeOK, Alone
<1>7. SessionInOrder(s)'
  BY <1>1, <1>3 DEF ShellTypeOK, SessionInOrder
<1>8. QED
  BY <1>6, <1>7 DEF Advances

LEMMA ListenForFailsAdvances ==
    ASSUME TypeOK, ShellTypeOK, NEW s \in Sessions, SessionInOrder(s), ListenForFails(s)
    PROVE  Advances(s)
<1> USE DEF command, printing
<1>1. PICK f \in failTopic \ failedServices[s] :
        failedServices' = [failedServices EXCEPT ![s] = @ \cup {f}]
  BY DEF ListenForFails
<1>2. f \in Results \cup {None}
  BY DEF TypeOK
<1>3. /\ failTopic' = failTopic /\ published' = published
      /\ UNCHANGED <<shell, cmds, target, sendList, nameTable, query, offset, printed,
                     typed, polled>>
  BY DEF ListenForFails, vars, brokers, kafka
<1>4. /\ failedServices' \in [Sessions -> SUBSET (Results \cup {None})]
      /\ failedServices'[s] = failedServices[s] \cup {f}
      /\ \A t \in Sessions \ {s} : failedServices'[t] = failedServices[t]
  BY <1>1, <1>2 DEF ShellTypeOK
<1>5. ShellTypeOK' /\ Alone(s)
  BY <1>3, <1>4 DEF ShellTypeOK, Alone
<1>6. SessionInOrder(s)'
  BY <1>3, <1>4 DEF SessionInOrder, Chained, Ready, Last
<1>7. QED
  BY <1>5, <1>6 DEF Advances
-----------------------------------------------------------------------------
(* The inductive invariant. *)

Whole == TypeOK /\ OnePlace /\ ShellTypeOK /\ InOrder

\* A step of a shell is a step of DriftWorkers or leaves it alone.
LEMMA ShellStep ==
    ASSUME Whole, NEW s \in Sessions, Handle(s) \/ User(s) \/ ListenForFails(s)
    PROVE  /\ Advances(s)
           /\ \/ UNCHANGED vars /\ polled' = polled
              \/ /\ UNCHANGED vars
                 /\ \E r \in Results : published[r] > 0 /\ polled' = polled \cup {r}
              \/ /\ polled' = polled
                 /\ \E r \in Results : Ready(r) /\ \E anon \in BOOLEAN : Publish(r, anon)
<1>1. TypeOK /\ ShellTypeOK /\ BrokersInOrder /\ SessionInOrder(s)
  BY DEF Whole, InOrder
<1>2. CASE CheckFailed(s) \/ ResultExists(s) \/ ListTopics(s)
  <2>1. Advances(s)
    BY <1>1, <1>2, CheckFailedAdvances, ResultExistsAdvances, ListTopicsAdvances
  <2>2. UNCHANGED vars /\ polled' = polled
    BY <1>2 DEF CheckFailed, ResultExists, ListTopics
  <2>3. QED
    BY <2>1, <2>2
<1>3. CASE PublishNext(s)
  <2>1. Advances(s)
    BY <1>1, <1>3, PublishNextAdvances
  <2>2. polled' = polled
    BY <1>3 DEF PublishNext
  <2>3. /\ Head(sendList[s]) \in Results
        /\ \E anon \in BOOLEAN : Publish(Head(sendList[s]), anon)
    BY <1>1, <1>3, PublishIsReady
  <2>4. QED
    BY <2>1, <2>2, <2>3 DEF Publish, Ready
<1>4. CASE StartPrinting(s)
  <2>1. UNCHANGED vars
    BY <1>4 DEF StartPrinting
  <2>2. QED
    BY <1>1, <1>4, <2>1, StartPrintingAdvances
<1>5. CASE PrintRecord(s) \/ StopPrinting(s) \/ ListenForFails(s)
  <2>1. Advances(s)
    BY <1>1, <1>5, PrintAdvances, ListenForFailsAdvances
  <2>2. UNCHANGED vars /\ polled' = polled
    BY <1>5 DEF PrintRecord, StopPrinting, ListenForFails
  <2>3. QED
    BY <2>1, <2>2
<1>6. ASSUME NEW c \in Commands, ReadCommand(s, c)
      PROVE  Advances(s) /\ UNCHANGED vars /\ polled' = polled
  <2>1. Advances(s)
    BY <1>1, <1>6, ReadCommandAdvances
  <2>2. QED
    BY <1>6, <2>1 DEF ReadCommand
<1>7. ASSUME NEW n \in Names, ReadQuery(s, n) \/ ReadRm(s, n)
      PROVE  Advances(s) /\ UNCHANGED vars /\ polled' = polled
  <2>1. Advances(s)
    BY <1>1, <1>7, ReadNameAdvances
  <2>2. QED
    BY <1>7, <2>1 DEF ReadQuery, ReadRm
<1>8. QED
  BY <1>2, <1>3, <1>4, <1>5, <1>6, <1>7 DEF Handle, User

\* What a step of a shell leaves true at the brokers.
LEMMA ShellKeepsOrder ==
    ASSUME Whole, NEW s \in Sessions, Handle(s) \/ User(s) \/ ListenForFails(s)
    PROVE  /\ BrokersInOrder' /\ [Next]_vars /\ failTopic' = failTopic
           /\ \A r \in Results : published[r] > 0 => published'[r] > 0
<1>1. BrokersInOrder /\ published \in [Results -> Nat]
  BY DEF Whole, InOrder, TypeOK
<1>2. CASE UNCHANGED vars /\ polled' = polled
  BY <1>1, <1>2 DEF BrokersInOrder, TopicsArePublished, Queues, Ready, vars, brokers, kafka
<1>3. ASSUME UNCHANGED vars, NEW r \in Results, published[r] > 0,
             polled' = polled \cup {r}
      PROVE  BrokersInOrder' /\ published' = published /\ failTopic' = failTopic
  BY <1>1, <1>3 DEF BrokersInOrder, TopicsArePublished, Queues, Ready, vars, brokers, kafka
<1>4. ASSUME polled' = polled, NEW r \in Results, Ready(r), NEW anon \in BOOLEAN,
             Publish(r, anon)
      PROVE  /\ BrokersInOrder' /\ failTopic' = failTopic
             /\ \A q \in Results : published[q] > 0 => published'[q] > 0
  <2>1. /\ published' = [published EXCEPT ![r] = @ + 1]
        /\ topics' = topics /\ failTopic' = failTopic
    BY <1>4 DEF Publish, Enqueue, kafka
  <2>2. /\ published'[r] > 0
        /\ \A q \in Results : q # r => published'[q] = published[q]
        /\ \A q \in Results : published[q] > 0 => published'[q] > 0
    BY <1>1, <2>1
  <2>3. ASSUME NEW q \in Results, published'[q] > 0
        PROVE  Ready(q)'
    <3>1. Ready(q)
      BY <1>1, <1>4, <2>2, <2>3 DEF BrokersInOrder
    <3>2. QED
      BY <2>2, <3>1, CallAssumption DEF Ready
  <2>4. TopicsArePublished'
    BY <1>1, <1>4, <2>1, <2>2 DEF BrokersInOrder, TopicsArePublished, Queues, Whole,
                                  ShellTypeOK, TypeOK
  <2>5. (\A q \in failTopic \ {None} : published[q] > 0)'
    BY <1>1, <2>1, <2>2 DEF BrokersInOrder, Whole, TypeOK
  <2>6. QED
    BY <2>1, <2>2, <2>3, <2>4, <2>5 DEF BrokersInOrder
<1>5. UNCHANGED vars \/ \E r \in Results, anon \in BOOLEAN : Publish(r, anon)
  BY ShellStep
<1>6. QED
  BY <1>2, <1>3, <1>4, <1>5, ShellStep DEF Next, vars, brokers, kafka

LEMMA WholeStep == Whole /\ [DriftNext]_driftVars => Whole' /\ [Next]_vars
<1> SUFFICES ASSUME Whole, [DriftNext]_driftVars
             PROVE  Whole' /\ [Next]_vars
  OBVIOUS
<1>1. TypeOK /\ OnePlace /\ ShellTypeOK /\ BrokersInOrder
      /\ \A t \in Sessions : SessionInOrder(t)
  BY DEF Whole, InOrder
<1>2. ASSUME [Next]_vars
      PROVE  TypeOK' /\ OnePlace'
  BY <1>1, <1>2, NextType, OnePlaceStep
<1>3. ASSUME NEW s \in Sessions, Handle(s) \/ User(s) \/ ListenForFails(s)
      PROVE  Whole' /\ [Next]_vars
  <2>1. /\ BrokersInOrder' /\ [Next]_vars /\ failTopic' = failTopic
        /\ \A r \in Results : published[r] > 0 => published'[r] > 0
    BY <1>3, ShellKeepsOrder
  <2>2. ShellTypeOK' /\ Alone(s) /\ SessionInOrder(s)'
    BY <1>3, ShellStep DEF Advances
  <2>3. ASSUME NEW t \in Sessions \ {s}
        PROVE  SessionInOrder(t)'
    BY <1>1, <2>1, <2>2, StaysInOrder DEF Alone
  <2>4. QED
    BY <1>2, <2>1, <2>2, <2>3 DEF Whole, InOrder
<1>4. CASE Backend /\ UNCHANGED shells
  <2>1. [Next]_vars
    BY <1>4 DEF Backend, Next
  <2>2. BrokersInOrder' /\ published' = published /\ failTopic \subseteq failTopic'
    BY <1>1, <1>4, BackendKeepsOrder DEF shells
  <2>3. ShellTypeOK'
    BY <1>1, <1>4 DEF ShellTypeOK, shells, command, tables, printing
  <2>4. ASSUME NEW t \in Sessions
        PROVE  SessionInOrder(t)'
    BY <1>1, <1>4, <2>2, StaysInOrder DEF shells, command, tables, printing
  <2>5. QED
    BY <1>2, <2>1, <2>2, <2>3, <2>4 DEF Whole, InOrder
<1>5. CASE UNCHANGED driftVars
  <2>1. UNCHANGED vars
    BY <1>5 DEF driftVars
  <2>2. BrokersInOrder' /\ published' = published /\ failTopic' = failTopic
    BY <1>1, <1>5 DEF driftVars, vars, brokers, kafka, shells, BrokersInOrder,
                      TopicsArePublished, Queues, Ready
  <2>3. ShellTypeOK'
    BY <1>1, <1>5 DEF driftVars, ShellTypeOK, shells, command, tables, printing
  <2>4. ASSUME NEW t \in Sessions
        PROVE  SessionInOrder(t)'
    BY <1>1, <1>5, <2>2, StaysInOrder DEF driftVars, shells, command, tables, printing
  <2>5. QED
    BY <1>2, <2>1, <2>2, <2>3, <2>4 DEF Whole, InOrder
<1>6. QED
  BY <1>3, <1>4, <1>5 DEF DriftNext

LEMMA WholeInit == DriftInit => Whole
<1> SUFFICES ASSUME DriftInit PROVE Whole
  OBVIOUS
<1>1. TypeOK /\ OnePlace
  BY InitType, OnePlaceInit DEF DriftInit
<1>2. ShellTypeOK
  BY DEF DriftInit, ShellTypeOK
<1>3. BrokersInOrder
  BY DEF DriftInit, Init, BrokersInOrder, TopicsArePublished, Queues
<1>4. ASSUME NEW s \in Sessions
      PROVE  SessionInOrder(s)
  BY <1>4 DEF DriftInit, SessionInOrder
<1>5. QED
  BY <1>1, <1>2, <1>3, <1>4 DEF Whole, InOrder

LEMMA WholeHolds == DriftSpec => []Whole
<1>1. QED
  BY WholeInit, WholeStep, PTL DEF DriftSpec
-----------------------------------------------------------------------------
(* Theorems. *)

\* Every shell variable has its type.
THEOREM ShellTypeCorrect == DriftSpec => []ShellTypeOK
<1>1. Whole => ShellTypeOK
  BY DEF Whole
<1>2. QED
  BY <1>1, WholeHolds, PTL

\* Shells and workers together behave towards the brokers as DriftWorkers says:
\* however the commands of several shells overlap, a call is published only
\* after the call whose result it reads.
THEOREM ShellsImplement == DriftSpec => ImplementsWorkers
<1>1. DriftInit => Init
  BY DEF DriftInit
<1>2. Whole /\ [DriftNext]_driftVars => [Next]_vars
  BY WholeStep
<1>3. QED
  BY <1>1, <1>2, WholeHolds, PTL DEF DriftSpec, ImplementsWorkers, Spec

\* The calls of a command form a chain whose inputs are published.
THEOREM CommandsAreInOrder == DriftSpec => []InOrder
<1>1. Whole => InOrder
  BY DEF Whole
<1>2. QED
  BY <1>1, WholeHolds, PTL

\* A shell at its prompt has no name for a result nobody was asked for.
THEOREM NamesCanBeQueried == DriftSpec => []NamesArePublished
<1>1. Whole => NamesArePublished
  BY DEF Whole, InOrder, SessionInOrder, NamesArePublished
<1>2. QED
  BY <1>1, WholeHolds, PTL

\* A topic stands for a call that was published, polled topics included.
THEOREM TopicsCanBeTrusted == DriftSpec => []TopicsArePublished
<1>1. Whole => TopicsArePublished
  BY DEF Whole, InOrder, BrokersInOrder
<1>2. QED
  BY <1>1, WholeHolds, PTL

\* No shell loses a task: what DriftWorkers promises holds for the whole system.
COROLLARY NoShellLosesTasks == DriftSpec => []NoTaskLost
<1>1. QED
  BY ShellsImplement, TasksAreNotLost, PTL DEF ImplementsWorkers
-----------------------------------------------------------------------------
(* What the user sees. *)

\* So far no call was published twice, no send has thrown and no worker crashed.
Calm == PublishedOnce /\ sendFailures = 0 /\ crashes = 0

\* A shell has printed the items in order, and while it prints it has read as many
\* records as it has printed.
PrintsInOrder(s) ==
    /\ \A i \in 1 .. Len(printed[s]) : printed[s][i] = Data(i - 1, i - 1)
    /\ shell[s] = "loop" =>
         offset[s] = Len(printed[s]) \/ (offset[s] = Begin /\ printed[s] = <<>>)

PrintedInOrder == Calm => \A s \in Sessions : PrintsInOrder(s)

LEMMA CalmIsUndisturbed == Calm => Undisturbed
BY DEF Calm, PublishedOnce, Undisturbed

\* What is calm now was calm before.
LEMMA CalmBefore ==
    ASSUME TypeOK, [Next]_vars, Calm'
    PROVE  Calm
<1>1. Undisturbed'
  BY DEF Calm, PublishedOnce, Undisturbed
<1>2. Undisturbed /\ crashes =< crashes'
  BY <1>1, UndisturbedBefore
<1>3. QED
  BY <1>2 DEF Calm, PublishedOnce, Undisturbed, TypeOK

\* Only the poll loop of a shell prints, and only the head of it starts anew.
LEMMA PrintSteps ==
    ASSUME ShellTypeOK, NEW s \in Sessions, Handle(s) \/ User(s) \/ ListenForFails(s)
    PROVE  /\ \A t \in Sessions \ {s} : /\ shell'[t] = shell[t]
                                       /\ offset'[t] = offset[t] /\ printed'[t] = printed[t]
           /\ \/ StartPrinting(s) \/ PrintRecord(s)
              \/ /\ UNCHANGED <<offset, printed>>
                 /\ shell'[s] # "loop" \/ shell'[s] = shell[s]
<1> USE DEF ShellTypeOK, tables, printing, command
<1>1. CASE CheckFailed(s) \/ ResultExists(s)
  BY <1>1 DEF CheckFailed, ResultExists, Goto
<1>2. CASE ListTopics(s)
  BY <1>2 DEF ListTopics, Proceed, Goto
<1>3. CASE PublishNext(s)
  BY <1>3 DEF PublishNext, Proceed, Goto
<1>4. CASE StartPrinting(s)
  BY <1>4 DEF StartPrinting, Goto
<1>5. CASE PrintRecord(s)
  <2>1. \A t \in Sessions \ {s} : shell'[t] = shell[t]
    BY <1>5 DEF PrintRecord, Goto
  <2>2. \A t \in Sessions \ {s} : offset'[t] = offset[t] /\ printed'[t] = printed[t]
    BY <1>5 DEF PrintRecord
  <2>3. QED
    BY <1>5, <2>1, <2>2
<1>6. CASE StopPrinting(s)
  BY <1>6 DEF StopPrinting, Goto
<1>7. CASE ListenForFails(s)
  BY <1>7 DEF ListenForFails
<1>8. ASSUME NEW c \in Commands, ReadCommand(s, c)
      PROVE  /\ UNCHANGED <<offset, printed>> /\ shell'[s] # "loop"
             /\ \A t \in Sessions \ {s} : shell'[t] = shell[t]
  BY <1>8 DEF ReadCommand, Goto
<1>9. ASSUME NEW n \in Names, ReadQuery(s, n) \/ ReadRm(s, n)
      PROVE  /\ UNCHANGED <<offset, printed>> /\ (shell'[s] # "loop" \/ shell'[s] = shell[s])
             /\ \A t \in Sessions \ {s} : shell'[t] = shell[t]
  BY <1>9 DEF ReadQuery, ReadRm, Goto
<1>10. QED
  BY <1>1, <1>2, <1>3, <1>4, <1>5, <1>6, <1>7, <1>8, <1>9 DEF Handle, User

\* A record behind those that were printed is the next item or a token: without a
\* crash retention takes nothing away.
LEMMA PrintRecordInOrder ==
    ASSUME Orderly, ShellTypeOK, crashes = 0, NEW s \in Sessions, PrintsInOrder(s),
           query[s] \in Results, PrintRecord(s)
    PROVE  PrintsInOrder(s)'
<1> DEFINE q == query[s]
           n == Len(printed[s])
<1>1. /\ TopicInOrder(q) /\ base[q] = 0 /\ log[q] \in Seq(Record) /\ Len(log[q]) \in Nat
  BY DEF Orderly, Clean, TopicInOrder, Crashed, TypeOK
<1>2. printed[s] \in Seq(Record) /\ n \in Nat
  BY DEF ShellTypeOK
<1>3. shell[s] = "loop" /\ Offset(s) = n
  <2>1. shell[s] = "loop"
    BY DEF PrintRecord
  <2>2. n # Begin
    BY <1>2 DEF Begin
  <2>3. QED
    BY <1>1, <2>1, <2>2 DEF PrintsInOrder, Offset
<1>4. \A i \in 1 .. Len(log[q]) : log[q][i].tok = "data" => log[q][i] = Data(i - 1, i - 1)
  BY <1>1 DEF TopicInOrder, Count, At, Eof, Err
<1>5. /\ n < Len(log[q]) /\ offset'[s] = n + 1
      /\ \/ /\ log[q][n + 1].tok = "data"
            /\ printed' = [printed EXCEPT ![s] = Append(@, log[q][n + 1])]
         \/ Goto(s, "prompt") /\ printed' = printed
  BY <1>1, <1>2, <1>3 DEF PrintRecord, ShellTypeOK
<1>6. CASE /\ log[q][n + 1].tok = "data"
           /\ printed' = [printed EXCEPT ![s] = Append(@, log[q][n + 1])]
  <2>1. log[q][n + 1] = Data(n, n)
    <3>1. n + 1 \in 1 .. Len(log[q]) /\ (n + 1) - 1 = n
      BY <1>1, <1>2, <1>5
    <3>2. QED
      BY <1>4, <1>6, <3>1
  <2>2. printed'[s] = Append(printed[s], Data(n, n))
    BY <1>6, <2>1 DEF ShellTypeOK
  <2>3. /\ Len(printed'[s]) = n + 1 /\ printed'[s][n + 1] = Data(n, n)
        /\ \A i \in 1 .. n : printed'[s][i] = printed[s][i]
    BY <1>2, <2>2
  <2>4. \A i \in 1 .. Len(printed'[s]) : printed'[s][i] = Data(i - 1, i - 1)
    BY <1>2, <2>3 DEF PrintsInOrder
  <2>5. QED
    BY <1>5, <2>3, <2>4 DEF PrintsInOrder
<1>7. CASE Goto(s, "prompt") /\ printed' = printed
  BY <1>7 DEF PrintsInOrder, Goto, ShellTypeOK
<1>8. QED
  BY <1>5, <1>6, <1>7

LEMMA PrintedStep ==
    ASSUME Whole, Undisturbed => Orderly, PrintedInOrder, [DriftNext]_driftVars
    PROVE  PrintedInOrder'
<1> SUFFICES ASSUME Calm' PROVE \A t \in Sessions : PrintsInOrder(t)'
  BY DEF PrintedInOrder
<1>1. Calm /\ Orderly /\ ShellTypeOK /\ \A t \in Sessions : PrintsInOrder(t)
  <2>1. Calm
    BY WholeStep, CalmBefore DEF Whole
  <2>2. QED
    BY <2>1, CalmIsUndisturbed DEF PrintedInOrder, Whole
<1>2. ASSUME UNCHANGED shells
      PROVE  \A t \in Sessions : PrintsInOrder(t)'
  BY <1>1, <1>2 DEF PrintsInOrder, shells, printing
<1>3. ASSUME NEW s \in Sessions, Handle(s) \/ User(s) \/ ListenForFails(s)
      PROVE  \A t \in Sessions : PrintsInOrder(t)'
  <2>1. /\ \A t \in Sessions \ {s} : /\ shell'[t] = shell[t]
                                    /\ offset'[t] = offset[t] /\ printed'[t] = printed[t]
        /\ \/ StartPrinting(s) \/ PrintRecord(s)
           \/ /\ UNCHANGED <<offset, printed>>
              /\ shell'[s] # "loop" \/ shell'[s] = shell[s]
    BY <1>1, <1>3, PrintSteps
  <2>2. \A t \in Sessions \ {s} : PrintsInOrder(t)'
    BY <1>1, <2>1 DEF PrintsInOrder
  <2>3. CASE StartPrinting(s)
    <3>1. offset'[s] = Begin /\ printed'[s] = <<>>
      BY <1>1, <2>3 DEF StartPrinting, ShellTypeOK
    <3>2. QED
      BY <2>2, <3>1 DEF PrintsInOrder
  <2>4. CASE PrintRecord(s)
    <3>1. query[s] \in Results
      <4>1. SessionInOrder(s) /\ shell[s] = "loop"
        BY <2>4 DEF Whole, InOrder, PrintRecord
      <4>2. QED
        BY <1>1, <4>1 DEF SessionInOrder, ShellTypeOK
    <3>2. PrintsInOrder(s)'
      BY <1>1, <2>4, <3>1, PrintRecordInOrder DEF Calm
    <3>3. QED
      BY <2>2, <3>2
  <2>5. CASE /\ UNCHANGED <<offset, printed>>
             /\ shell'[s] # "loop" \/ shell'[s] = shell[s]
    BY <1>1, <2>2, <2>5 DEF PrintsInOrder
  <2>6. QED
    BY <2>1, <2>3, <2>4, <2>5
<1>4. QED
  BY <1>2, <1>3 DEF DriftNext, driftVars

\* The record that the poll loop of a shell reads next is an eof.
AtEof(s) ==
    /\ shell[s] = "loop"
    /\ base[query[s]] =< Offset(s) /\ Offset(s) < Len(log[query[s]])
    /\ log[query[s]][Offset(s) + 1].tok = "eof"

EofBehindAll == \A s \in Sessions : AtEof(s) => Len(printed[s]) = Items

LEMMA PrintedHolds == DriftSpec => []PrintedInOrder
<1>1. DriftInit => PrintedInOrder
  BY DEF DriftInit, PrintedInOrder, PrintsInOrder
<1>2. Whole /\ (Undisturbed => Orderly) /\ PrintedInOrder /\ [DriftNext]_driftVars
        => PrintedInOrder'
  BY PrintedStep
<1>3. DriftSpec => [](Undisturbed => Orderly)
  BY ShellsImplement, OrderlyHolds, PTL DEF ImplementsWorkers
<1>4. QED
  BY <1>1, <1>2, <1>3, WholeHolds, PTL DEF DriftSpec

\* As long as no send throws and no worker crashes, every shell prints the items of
\* one execution in order, from the first on, unless a call is published twice.
THEOREM QueriesPrintOneExecution ==
    DriftSpec => [](sendFailures = 0 /\ crashes = 0 => PrintsOneExecution)
<1>1. PrintedInOrder => (sendFailures = 0 /\ crashes = 0 => PrintsOneExecution)
  BY DEF PrintedInOrder, Calm, PrintsOneExecution, PrintsInOrder
<1>2. QED
  BY <1>1, PrintedHolds, PTL

\* Where nothing crashes or fails to be sent, PrintsOneExecution holds for any shells,
\* commands and timeouts.
COROLLARY FaultlessQueriesPrintOneExecution ==
    ASSUME MaxCrashes = 0, MaxSendFailures = 0
    PROVE  DriftSpec => []PrintsOneExecution
<1>1. Spec => [](sendFailures = 0)
  BY NoSendFails
<1>2. Spec => [](crashes = 0)
  BY NoCrashes
<1>3. QED
  BY <1>1, <1>2, ShellsImplement, QueriesPrintOneExecution, PTL DEF ImplementsWorkers

\* A shell that comes to an eof has printed all items of the source, through however
\* many calls they went.
THEOREM QueriesShowEverything == DriftSpec => [](Calm => EofBehindAll)
<1>1. ASSUME Whole, Orderly, crashes = 0, NEW s \in Sessions, PrintsInOrder(s), AtEof(s)
      PROVE  Len(printed[s]) = Items
  <2> DEFINE q == query[s]
             n == Len(printed[s])
  <2>1. q \in Results
    <3>1. SessionInOrder(s) /\ ShellTypeOK /\ shell[s] = "loop"
      BY <1>1 DEF Whole, InOrder, AtEof
    <3>2. QED
      BY <3>1 DEF SessionInOrder, ShellTypeOK
  <2>2. TopicInOrder(q) /\ base[q] = 0 /\ Len(log[q]) \in Nat
    BY <1>1, <2>1 DEF Orderly, Clean, TopicInOrder, Crashed, TypeOK
  <2>3. n \in Nat /\ Offset(s) = n
    <3>1. printed[s] \in Seq(Record)
      BY <1>1 DEF Whole, ShellTypeOK
    <3>2. n \in Nat /\ n # Begin
      BY <3>1 DEF Begin
    <3>3. QED
      BY <1>1, <2>2, <3>2 DEF AtEof, PrintsInOrder, Offset
  <2>4. n + 1 \in 1 .. Len(log[q]) /\ log[q][n + 1].tok = "eof"
    BY <1>1, <2>2, <2>3 DEF AtEof
  <2>5. n + 1 \in 1 .. Count(q) /\ At(q, n + 1).tok = "eof"
    BY <2>2, <2>3, <2>4 DEF Count, At
  <2>6. n + 1 = Items + 1
    <3>1. \/ At(q, n + 1) = Data((n + 1) - 1, (n + 1) - 1)
          \/ At(q, n + 1) = Err
          \/ n + 1 = Items + 1
      BY <2>2, <2>5 DEF TopicInOrder
    <3>2. Data((n + 1) - 1, (n + 1) - 1).tok # "eof" /\ Err.tok # "eof"
      BY DEF Data, Err
    <3>3. QED
      BY <2>5, <3>1, <3>2
  <2>7. QED
    BY <2>3, <2>6, BoundAssumption
<1>2. Whole /\ (Undisturbed => Orderly) /\ PrintedInOrder => (Calm => EofBehindAll)
  BY <1>1, CalmIsUndisturbed DEF PrintedInOrder, EofBehindAll, Calm
<1>3. DriftSpec => [](Undisturbed => Orderly)
  BY ShellsImplement, OrderlyHolds, PTL DEF ImplementsWorkers
<1>4. QED
  BY <1>2, <1>3, WholeHolds, PrintedHolds, PTL

\* The whole system: as long as nothing disturbs them, its results look executed once,
\* eof is not early, and a finished result of a pipe is all of its input.
COROLLARY SystemLooksExecutedOnce ==
    DriftSpec => [](Undisturbed => LooksExecutedOnce /\ EofMeansAll /\ FinishedIsWhole)
<1>1. QED
  BY ShellsImplement, ReadersSeeOneExecution, EofIsNotEarly, FinishedReadersAreWhole, PTL
     DEF ImplementsWorkers

\* The whole system implements ResultStreams as long as nothing disturbs it.
COROLLARY SystemImplementsStreams == DriftSpec /\ []Undisturbed => ImplementsStreams
<1>1. QED
  BY ShellsImplement, TopicsImplementStreams, PTL DEF ImplementsWorkers

\* The whole system, whatever crashes: every message is accounted for, and every
\* record of a topic comes, through the calls in between, from a source.
COROLLARY SystemAccounts == DriftSpec => [](MessagesConserved /\ NothingMadeUp)
<1>1. QED
  BY ShellsImplement, MessagesAreConserved, NothingIsMadeUp, PTL DEF ImplementsWorkers
=============================================================================
