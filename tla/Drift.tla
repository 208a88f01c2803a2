--------------------------------- MODULE Drift ---------------------------------
(***************************************************************************)
(* The whole system: shells (CmdLine.java) in front of the workers of      *)
(* DriftWorkers.  A shell checks a command against its name table and its  *)
(* set of failed services, splits it into calls, publishes the calls whose *)
(* results do not exist, binds the name and prints results; a thread of    *)
(* its own reads the fail topic meanwhile.                                 *)
(***************************************************************************)
EXTENDS DriftWorkers

CONSTANTS
    Sessions,      \* shells
    Names,         \* names a user may bind
    Commands,      \* commands a user may type
    Piped,         \* calls that were written behind a |
    MaxCommands    \* bound: lines a user types at one shell

(***************************************************************************)
(* A command "target = s1 arg | s2 | ..." as parseCmd leaves it: the name  *)
(* it binds (None: anonymous), its services, and the name that the first   *)
(* of them reads (None: no argument).                                      *)
(***************************************************************************)
Command == [target : Names \cup {None}, services : Seq(Sources \cup Consumers),
            arg : Names \cup {None}]

ASSUME CommandAssumption ==
    /\ None \notin Names
    /\ Commands \subseteq Command /\ \A c \in Commands : c.services # <<>>
    /\ Piped \subseteq Results
    /\ MaxCommands \in Nat

VARIABLES
    shell,            \* control state of each shell's command loop
    cmds,             \* the calls of the command in progress
    target,           \* the name it binds
    sendList,         \* the calls it still has to publish, in order
    nameTable,        \* nameTable[s][n]: the result bound to n, or None
    failedServices,   \* what each shell has read from the fail topic
    query,            \* the result the shell prints
    offset,           \* position of its consumer
    printed,          \* the records printed since the query began
    typed,            \* lines typed so far
    polled            \* topics created by the consumers of shells

command  == <<cmds, target, sendList>>
tables   == <<nameTable, failedServices>>
printing == <<query, offset, printed>>
shells   == <<shell, command, tables, printing, typed, polled>>

DriftInit ==
    /\ Init
    /\ shell = [s \in Sessions |-> "prompt"]
    /\ cmds = [s \in Sessions |-> <<>>] /\ sendList = [s \in Sessions |-> <<>>]
    /\ target = [s \in Sessions |-> None]
    /\ nameTable = [s \in Sessions |-> [n \in Names \cup {None} |-> None]]
    /\ failedServices = [s \in Sessions |-> {}]
    /\ query = [s \in Sessions |-> None]
    /\ offset = [s \in Sessions |-> Begin]
    /\ printed = [s \in Sessions |-> <<>>]
    /\ typed = [s \in Sessions |-> 0]
    /\ polled = {}

Goto(s, label) == shell' = [shell EXCEPT ![s] = label]
Last(cs) == cs[Len(cs)]

\* A line is typed at the prompt.
Types(s) ==
    /\ shell[s] = "prompt" /\ typed[s] < MaxCommands
    /\ typed' = [typed EXCEPT ![s] = @ + 1]

\* checkCmd: the argument is known to the shell and is not known to have failed.
Valid(s, c) ==
    c.arg # None => /\ nameTable[s][c.arg] # None
                    /\ nameTable[s][c.arg] \notin failedServices[s]

(***************************************************************************)
(* splitCmd: one call per stage, each reading the result of the one before *)
(* it.  The hash covers the text of the stage, in which checkCmd has put   *)
(* the result for the name, but splitCmd nothing: "cat A" and the cat of   *)
(* "... | cat" are different calls, whatever A stands for.                 *)
(***************************************************************************)
Split(services, input, cs) ==
    /\ Len(cs) = Len(services)
    /\ \A i \in 1 .. Len(cs) :
         /\ Kind[cs[i]] = services[i]
         /\ Input[cs[i]] = IF i = 1 THEN input ELSE cs[i - 1]
         /\ cs[i] \in Piped <=> i > 1

(***************************************************************************)
(* checkCmd and splitCmd.  A command that checkCmd rejects changes nothing *)
(* and is left out.                                                        *)
(***************************************************************************)
ReadCommand(s, c) ==
    /\ Types(s) /\ Valid(s, c)
    /\ \E cs \in [1 .. Len(c.services) -> Results] :
         /\ Split(c.services, IF c.arg = None THEN None ELSE nameTable[s][c.arg], cs)
         /\ cmds' = [cmds EXCEPT ![s] = cs]
    /\ target' = [target EXCEPT ![s] = c.target]
    /\ Goto(s, "check")
    /\ UNCHANGED <<vars, sendList, tables, printing, polled>>

Bind(s, r) == nameTable' = [nameTable EXCEPT ![s][target[s]] = r]

(***************************************************************************)
(* The head of handleNameCmd.  For every stage it looks up the hash of the *)
(* whole command, which is that of a call only if there is one stage.  A   *)
(* call that has failed is bound again and not sent.                       *)
(***************************************************************************)
CheckFailed(s) ==
    /\ shell[s] = "check"
    /\ \/ /\ Len(cmds[s]) = 1 /\ cmds[s][1] \in failedServices[s]
          /\ Bind(s, cmds[s][1])
          /\ Goto(s, "prompt")
       \/ /\ ~(Len(cmds[s]) = 1 /\ cmds[s][1] \in failedServices[s])
          /\ Goto(s, IF target[s] = None THEN "topics" ELSE "exists")
          /\ UNCHANGED nameTable
    /\ UNCHANGED <<vars, command, failedServices, printing, typed, polled>>

\* The topics listTopics returns.
Queues == topics \cup polled

\* resultExists: the name is bound in either case, before anything is sent.
ResultExists(s) ==
    /\ shell[s] = "exists"
    /\ Bind(s, Last(cmds[s]))
    /\ Goto(s, IF Last(cmds[s]) \in Queues THEN "prompt" ELSE "topics")
    /\ UNCHANGED <<vars, command, failedServices, printing, typed, polled>>

\* After a command without target its result is printed.
Proceed(s) ==
    \/ /\ target[s] = None
       /\ query' = [query EXCEPT ![s] = Last(cmds[s])]
       /\ Goto(s, "print")
    \/ /\ target[s] # None
       /\ Goto(s, "prompt")
       /\ UNCHANGED query

\* The backward scan of sendTask stops at the first call whose result exists:
\* k calls are in front of those to be published.
Existing(cs, k) ==
    /\ k > 0 => cs[k] \in Queues
    /\ \A i \in k + 1 .. Len(cs) : cs[i] \notin Queues

\* Variants: the order in which the scan collects the calls; one too few.
SendListBackwards(cs, k) == [i \in 1 .. Len(cs) - k |-> cs[Len(cs) + 1 - i]]
SendListShort(cs, k) == SubSeq(cs, k + 1, Len(cs) - 1)

SendList(cs, k) == SubSeq(cs, k + 1, Len(cs))

\* The head of sendTask: the topics are listed once, then it publishes.
ListTopics(s) ==
    /\ shell[s] = "topics"
    /\ \E k \in 0 .. Len(cmds[s]) :
         /\ Existing(cmds[s], k)
         /\ sendList' = [sendList EXCEPT ![s] = SendList(cmds[s], k)]
    /\ \/ /\ sendList'[s] = <<>>
          /\ Proceed(s)
       \/ /\ sendList'[s] # <<>>
          /\ Goto(s, "publish")
          /\ UNCHANGED query
    /\ UNCHANGED <<vars, cmds, target, tables, offset, printed, typed, polled>>

\* basicPublish and waitForConfirms, one call after the other.
PublishNext(s) ==
    /\ shell[s] = "publish"
    /\ Enqueue(Head(sendList[s]), target[s] = None)
    /\ sendList' = [sendList EXCEPT ![s] = Tail(@)]
    /\ \/ /\ Tail(sendList[s]) = <<>>
          /\ Proceed(s)
       \/ /\ Tail(sendList[s]) # <<>>
          /\ UNCHANGED <<shell, query>>
    /\ UNCHANGED <<cmds, target, tables, offset, printed, typed, polled>>

\* handleNameQuery.
ReadQuery(s, n) ==
    /\ Types(s)
    /\ nameTable[s][n] # None
    /\ query' = [query EXCEPT ![s] = nameTable[s][n]]
    /\ Goto(s, "print")
    /\ UNCHANGED <<vars, command, tables, offset, printed, polled>>

\* handleRm of a name.
ReadRm(s, n) ==
    /\ Types(s)
    /\ nameTable[s][n] # None
    /\ nameTable' = [nameTable EXCEPT ![s][n] = None]
    /\ UNCHANGED <<vars, shell, command, failedServices, printing, polled>>

\* printResult: a new consumer at the beginning of the topic, and its first
\* poll, which creates the topic.
StartPrinting(s) ==
    /\ shell[s] = "print"
    /\ offset' = [offset EXCEPT ![s] = Begin]
    /\ printed' = [printed EXCEPT ![s] = <<>>]
    /\ polled' = polled \cup {query[s]}
    /\ Goto(s, "loop")
    /\ UNCHANGED <<vars, command, tables, query, typed>>

\* Variants: the consumer seeks before every poll; it starts at the end.
OffsetFromBase(s) == base[query[s]]
OffsetLatest(s) == IF offset[s] = Begin THEN Len(log[query[s]]) ELSE offset[s]

Offset(s) == IF offset[s] = Begin THEN base[query[s]] ELSE offset[s]

\* The poll loop of printResult; it ends at a token.
PrintRecord(s) ==
    /\ shell[s] = "loop"
    /\ LET q == query[s] IN
       \/ /\ Offset(s) < base[q]
          /\ offset' = [offset EXCEPT ![s] = Len(log[q])]
          /\ UNCHANGED <<shell, printed>>
       \/ /\ Offset(s) >= base[q] /\ Offset(s) < Len(log[q])
          /\ offset' = [offset EXCEPT ![s] = Offset(s) + 1]
          /\ LET rec == log[q][Offset(s) + 1] IN
             \/ /\ rec.tok = "data"
                /\ printed' = [printed EXCEPT ![s] = Append(@, rec)]
                /\ UNCHANGED shell
             \/ /\ rec.tok # "data"
                /\ Goto(s, "prompt")
                /\ UNCHANGED printed
    /\ UNCHANGED <<vars, command, tables, query, typed, polled>>

\* The user cancels with q, or a poll finds nothing for MAX_POLL ms.
StopPrinting(s) ==
    /\ shell[s] = "loop"
    /\ Goto(s, "prompt")
    /\ UNCHANGED <<vars, command, tables, printing, typed, polled>>

\* failListener adds every name it reads, "anonym" included: the comparison
\* meant to skip that one compares it with the set itself.
ListenForFails(s) ==
    /\ \E f \in failTopic \ failedServices[s] :
         failedServices' = [failedServices EXCEPT ![s] = @ \cup {f}]
    /\ UNCHANGED <<vars, shell, command, nameTable, printing, typed, polled>>

Handle(s) ==
    \/ CheckFailed(s) \/ ResultExists(s) \/ ListTopics(s) \/ PublishNext(s)
    \/ StartPrinting(s) \/ PrintRecord(s)

User(s) ==
    \/ \E c \in Commands : ReadCommand(s, c)
    \/ \E n \in Names : ReadQuery(s, n) \/ ReadRm(s, n)
    \/ StopPrinting(s)

Backend ==
    \/ \E w \in Workers : Work(w) \/ Fault(w)
    \/ Cancel
    \/ \E r \in Results : Purge(r)

DriftNext ==
    \/ \E s \in Sessions : Handle(s) \/ User(s) \/ ListenForFails(s)
    \/ Backend /\ UNCHANGED shells

driftVars == <<vars, shells>>

DriftSpec == DriftInit /\ [][DriftNext]_driftVars

\* The threads of a shell run like those of the workers; the user types or
\* cancels as he likes.
DriftFairness ==
    /\ \A s \in Sessions : WF_driftVars(Handle(s)) /\ WF_driftVars(ListenForFails(s))
    /\ \A w \in Workers : WF_driftVars(Work(w) /\ UNCHANGED shells)
    /\ WF_driftVars(Cancel /\ UNCHANGED shells)
    /\ \A r \in Results : WF_driftVars(Purge(r) /\ UNCHANGED shells)

FairDriftSpec == DriftSpec /\ DriftFairness
-----------------------------------------------------------------------------
(* Properties. *)

\* Every shell variable has its type.
ShellTypeOK ==
    /\ shell \in [Sessions -> {"prompt", "check", "exists", "topics", "publish",
                               "print", "loop"}]
    /\ cmds \in [Sessions -> Seq(Results)] /\ sendList \in [Sessions -> Seq(Results)]
    /\ target \in [Sessions -> Names \cup {None}]
    /\ nameTable \in [Sessions -> [Names \cup {None} -> Results \cup {None}]]
    /\ failedServices \in [Sessions -> SUBSET (Results \cup {None})]
    /\ query \in [Sessions -> Results \cup {None}]
    /\ offset \in [Sessions -> Nat \cup {Begin}]
    /\ printed \in [Sessions -> Seq(Record)]
    /\ typed \in [Sessions -> Nat] /\ polled \subseteq Results

\* What the shells do to the task queue is what DriftWorkers expects: a call
\* is never published before the call whose result it reads, although each
\* shell skips the calls whose topics it sees.
ImplementsWorkers == Spec

\* At the prompt, a name that is bound stands for a call that was published:
\* a query waits for something that somebody has been asked to compute.
NamesArePublished ==
    \A s \in Sessions, n \in Names \cup {None} :
        shell[s] = "prompt" /\ nameTable[s][n] # None => published[nameTable[s][n]] > 0

\* A topic exists only for a call that was published, so that the shell does
\* not mistake a topic for a result that nobody computes.
TopicsArePublished == \A r \in Queues : published[r] > 0

\* Why ImplementsWorkers and NamesArePublished hold.  The calls of a command
\* form a chain, each reading the result of the one before, the first one a
\* result that was published; a shell still has to publish the end of that
\* chain; what it prints, has bound or knows as failed was published, unless
\* it is the last call of the command in progress.
Ready(r) == Input[r] # None => published[Input[r]] > 0

Chained(cs) ==
    /\ cs # <<>> /\ Ready(cs[1])
    /\ \A i \in 2 .. Len(cs) : Input[cs[i]] = cs[i - 1]

SessionInOrder(s) ==
    /\ shell[s] \in {"check", "exists", "topics"} => Chained(cmds[s])
    /\ shell[s] = "publish" =>
         Chained(sendList[s]) /\ Last(sendList[s]) = Last(cmds[s])
    /\ shell[s] \in {"print", "loop"} => query[s] # None /\ published[query[s]] > 0
    /\ \A n \in Names \cup {None} : nameTable[s][n] # None =>
         \/ published[nameTable[s][n]] > 0
         \/ shell[s] \in {"topics", "publish"} /\ nameTable[s][n] = Last(cmds[s])
    /\ failedServices[s] \subseteq failTopic

BrokersInOrder ==
    /\ \A r \in Results : published[r] > 0 => Ready(r)
    /\ TopicsArePublished
    /\ \A r \in failTopic \ {None} : published[r] > 0

InOrder == BrokersInOrder /\ \A s \in Sessions : SessionInOrder(s)

\* No call has been published twice.
PublishedOnce == \A r \in Results : published[r] =< 1

\* Unless a call is published twice, what the user sees looks like one
\* execution: item 0, 1, 2, ...
PrintsOneExecution ==
    PublishedOnce =>
        \A s \in Sessions : \A i \in 1 .. Len(printed[s]) :
            printed[s][i] = Data(i - 1, i - 1)

\* Unless a call is published twice, a query comes back to the prompt by itself.
QueriesEnd ==
    []PublishedOnce => \A s \in Sessions : shell[s] = "print" ~> shell[s] = "prompt"

\* A message of call r is under way that was published for a command without
\* target.
Anonymous(r) ==
    \/ \E i \in 1 .. Len(taskQueue) : taskQueue[i] = [res |-> r, anon |-> TRUE]
    \/ \E w \in Workers : task[w] = [res |-> r, anon |-> TRUE]

Failed(s, r) ==
    (\E n \in Names : nameTable[s][n] = r) /\ EndsWith(r, "err")

\* A name whose result ends with err is marked in the shell in the end, if its
\* call was only ever published for a command with a target and no report was lost.
\* (The failure of an anonymous command marks no name that is bound to its
\* result later, contrary to 04-3_driftimpl.tex:773-780.)
FailuresAreMarked ==
    \A s \in Sessions, r \in Results :
        [](~Anonymous(r) /\ sendFailures = 0)
            => (Failed(s, r) ~> r \in failedServices[s])
=============================================================================
