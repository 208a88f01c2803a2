------------------------------ MODULE FileImport ------------------------------
(***************************************************************************)
(* How files come into Drift.  A shell that starts imports the files of    *)
(* importSetup before its first prompt: a file is sent to a topic named    *)
(* after it, unless that topic exists, and its name is bound either way.   *)
(* Nothing locks the topic between the test and the send, and the content  *)
(* and its eof are two sends.  Readers take a file as it is: printResult   *)
(* here, in the same way the services of a worker.                         *)
(*                                                                         *)
(* A record of a topic is the session that sent its file's content, or the *)
(* eof.                                                                    *)
(***************************************************************************)
EXTENDS Integers, Sequences

CONSTANTS
    Sessions,     \* shells, each with its own files of these names
    FileCount,    \* how many files importSetup imports, in order
    Eof,
    MaxCrashes,   \* bound on shells that are killed
    MaxFailures   \* bound on calls of Kafka that throw

ASSUME ImportAssumption ==
    /\ FileCount \in Nat \ {0}
    /\ Eof \notin Sessions
    /\ MaxCrashes \in Nat /\ MaxFailures \in Nat

Files == 1 .. FileCount

VARIABLES
    log,        \* the records of a file's topic
    topics,     \* topics that exist
    spc,        \* control state of a session
    at,         \* the file it imports, or asks for
    bound,      \* the names in its nameTable
    pos,        \* position of its consumer
    shown,      \* the records it has shown of the current query
    given,      \* what the finished queries of a file have shown
    spoiled,    \* history: files of which an import has been cut off
    raced,      \* history: files two sessions were about to send at once
    crashes, failures

kafka == <<log, topics>>
query == <<pos, shown, given>>
fault == <<crashes, failures>>
vars == <<kafka, spc, at, bound, query, spoiled, raced, fault>>

Init ==
    /\ log = [f \in Files |-> <<>>] /\ topics = {}
    /\ spc = [s \in Sessions |-> "off"] /\ at = [s \in Sessions |-> 1]
    /\ bound = [s \in Sessions |-> {}]
    /\ pos = [s \in Sessions |-> 0] /\ shown = [s \in Sessions |-> <<>>]
    /\ given = [f \in Files |-> {}]
    /\ spoiled = {} /\ raced = {} /\ crashes = 0 /\ failures = 0

Goto(s, label) == spc' = [spc EXCEPT ![s] = label]
File(s) == at[s]

-----------------------------------------------------------------------------
(* importSetup. *)

Start(s) ==
    /\ spc[s] = "off"
    /\ Goto(s, "exists")
    /\ UNCHANGED <<kafka, at, bound, query, spoiled, raced, fault>>

\* Past both tests; another session may be there, too.
GoSend(s) ==
    /\ Goto(s, "send")
    /\ raced' = IF \E t \in Sessions : spc[t] = "send" /\ File(t) = File(s)
                THEN raced \cup {File(s)} ELSE raced

\* Variant: sendFileToQueue does not ask again.
HasQueueFirst(s) ==
    /\ spc[s] \in {"exists", "again"}
    /\ \/ /\ spc[s] = "exists" /\ File(s) \in topics
          /\ Goto(s, "bind") /\ UNCHANGED raced
       \/ /\ spc[s] = "exists" /\ File(s) \notin topics
          /\ Goto(s, "again") /\ UNCHANGED raced
       \/ spc[s] = "again" /\ GoSend(s)
    /\ UNCHANGED <<kafka, at, bound, query, spoiled, fault>>

\* hasQueue is asked by importFile and again by sendFileToQueue.
HasQueue(s) ==
    /\ spc[s] \in {"exists", "again"}
    /\ \/ File(s) \in topics /\ Goto(s, "bind") /\ UNCHANGED raced
       \/ /\ spc[s] = "exists" /\ File(s) \notin topics
          /\ Goto(s, "again") /\ UNCHANGED raced
       \/ spc[s] = "again" /\ File(s) \notin topics /\ GoSend(s)
    /\ UNCHANGED <<kafka, at, bound, query, spoiled, fault>>

Send(f, record) ==
    /\ log' = [log EXCEPT ![f] = Append(@, record)]
    /\ topics' = topics \cup {f}

\* Variant: the eof is forgotten.
SendContentOnly(s) ==
    /\ spc[s] = "send"
    /\ Send(File(s), s)
    /\ Goto(s, "bind")
    /\ UNCHANGED <<at, bound, query, spoiled, raced, fault>>

SendContent(s) ==
    /\ spc[s] = "send"
    /\ Send(File(s), s)
    /\ Goto(s, "eof")
    /\ UNCHANGED <<at, bound, query, spoiled, raced, fault>>

SendEof(s) ==
    /\ spc[s] = "eof"
    /\ Send(File(s), Eof)
    /\ Goto(s, "bind")
    /\ UNCHANGED <<at, bound, query, spoiled, raced, fault>>

\* listTopics or a send throws, the send with or without its record in the
\* topic.  Both handlers print the exception and go on.
Throws(s) ==
    /\ spc[s] \in {"exists", "again", "send", "eof"} /\ failures < MaxFailures
    /\ failures' = failures + 1
    /\ spoiled' = spoiled \cup {File(s)}
    /\ \/ UNCHANGED kafka
       \/ spc[s] = "send" /\ Send(File(s), s)
       \/ spc[s] = "eof" /\ Send(File(s), Eof)
    /\ Goto(s, "bind")
    /\ UNCHANGED <<at, bound, query, raced, crashes>>

\* nameTable.put, whatever happened before; then the next file, or the prompt.
Bind(s) ==
    /\ spc[s] = "bind"
    /\ bound' = [bound EXCEPT ![s] = @ \cup {File(s)}]
    /\ \/ /\ at[s] < FileCount
          /\ at' = [at EXCEPT ![s] = @ + 1] /\ Goto(s, "exists")
       \/ /\ at[s] = FileCount
          /\ Goto(s, "prompt") /\ UNCHANGED at
    /\ UNCHANGED <<kafka, query, spoiled, raced, fault>>

-----------------------------------------------------------------------------
(* Queries of a file. *)

\* Variant: no seekToBeginning.
QueryLatest(s, f) ==
    /\ spc[s] = "prompt" /\ f \in bound[s]
    /\ at' = [at EXCEPT ![s] = f]
    /\ topics' = topics \cup {f}
    /\ pos' = [pos EXCEPT ![s] = Len(log[f])] /\ shown' = [shown EXCEPT ![s] = <<>>]
    /\ Goto(s, "show")
    /\ UNCHANGED <<log, bound, given, spoiled, raced, fault>>

\* The first poll creates a topic that does not exist.
Query(s, f) ==
    /\ spc[s] = "prompt" /\ f \in bound[s]
    /\ at' = [at EXCEPT ![s] = f]
    /\ topics' = topics \cup {f}
    /\ pos' = [pos EXCEPT ![s] = 0] /\ shown' = [shown EXCEPT ![s] = <<>>]
    /\ Goto(s, "show")
    /\ UNCHANGED <<log, bound, given, spoiled, raced, fault>>

\* One record, or the eof that ends the query.
Show(s) ==
    /\ spc[s] = "show" /\ pos[s] < Len(log[File(s)])
    /\ pos' = [pos EXCEPT ![s] = @ + 1]
    /\ LET record == log[File(s)][pos[s] + 1] IN
       \/ /\ record # Eof
          /\ shown' = [shown EXCEPT ![s] = Append(@, record)]
          /\ UNCHANGED <<spc, given>>
       \/ /\ record = Eof
          /\ given' = [given EXCEPT ![File(s)] = @ \cup {shown[s]}]
          /\ Goto(s, "prompt") /\ UNCHANGED shown
    /\ UNCHANGED <<kafka, at, bound, spoiled, raced, fault>>

\* A "q", or a poll that finds nothing for 300 s.
StopShowing(s) ==
    /\ spc[s] = "show"
    /\ Goto(s, "prompt")
    /\ UNCHANGED <<kafka, at, bound, query, spoiled, raced, fault>>

\* A shell is killed; what it knew is gone, what it sent is not.
Crash(s) ==
    /\ spc[s] # "off" /\ crashes < MaxCrashes
    /\ crashes' = crashes + 1
    /\ spoiled' = IF spc[s] = "eof" THEN spoiled \cup {File(s)} ELSE spoiled
    /\ Goto(s, "off")
    /\ at' = [at EXCEPT ![s] = 1] /\ bound' = [bound EXCEPT ![s] = {}]
    /\ pos' = [pos EXCEPT ![s] = 0] /\ shown' = [shown EXCEPT ![s] = <<>>]
    /\ UNCHANGED <<kafka, given, raced, failures>>

Import(s) == HasQueue(s) \/ SendContent(s) \/ SendEof(s) \/ Bind(s)

Next ==
    \E s \in Sessions :
        \/ Start(s) \/ Import(s) \/ Throws(s)
        \/ (\E f \in Files : Query(s, f))
        \/ Show(s) \/ StopShowing(s) \/ Crash(s)

Spec == Init /\ [][Next]_vars

\* The main thread of a shell runs; nobody has to start one, or to ask.
FairSpec == Spec /\ \A s \in Sessions : WF_vars(Import(s)) /\ WF_vars(Show(s))

-----------------------------------------------------------------------------
(* Properties. *)

Labels == {"off", "exists", "again", "send", "eof", "bind", "prompt", "show"}

\* Every variable has its type.
TypeOK ==
    /\ log \in [Files -> Seq(Sessions \cup {Eof})]
    /\ topics \subseteq Files /\ spoiled \subseteq Files /\ raced \subseteq Files
    /\ spc \in [Sessions -> Labels] /\ at \in [Sessions -> Files]
    /\ bound \in [Sessions -> SUBSET Files]
    /\ pos \in [Sessions -> Nat] /\ shown \in [Sessions -> Seq(Sessions)]
    /\ given \in [Files -> SUBSET Seq(Sessions)]
    /\ crashes \in 0 .. MaxCrashes /\ failures \in 0 .. MaxFailures

Closed(f) == \E k \in 1 .. Len(log[f]) : log[f][k] = Eof
Importing(s, f) == spc[s] \in {"exists", "again", "send", "eof"} /\ File(s) = f

\* What a finished query of a file has shown is the content of one import, and
\* only where two sessions were past both tests at once does another session's
\* follow it; no session's is there twice, and no file ends before it has one.
\* The import need not be its own: a topic is named after the file alone, and
\* sessions are not isolated here as 04-3_driftimpl.tex:70-74 promises.
ShownIsOneImport ==
    \A f \in Files : \A x \in given[f] :
        /\ x # <<>>
        /\ \A j, k \in 1 .. Len(x) : x[j] = x[k] => j = k
        /\ f \notin raced => Len(x) = 1

\* A bound name stands for a whole file, unless a shell is still at it or an
\* import of it was cut off.
BoundIsWhole ==
    \A s \in Sessions : \A f \in bound[s] :
        Closed(f) \/ f \in spoiled \/ \E t \in Sessions : Importing(t, f)

(***************************************************************************)
(* Why these hold.  A query shows the topic from its start, what has been  *)
(* shown ends where the first eof is, a content is the first record, and   *)
(* whoever is between its two sends will still close the file, or spoil it.*)
(* Whoever is about to send a file has not sent it yet, and nobody else    *)
(* has unless two were there at once.                                      *)
(***************************************************************************)
Starts(x, f) == Len(x) =< Len(log[f]) /\ \A k \in 1 .. Len(x) : x[k] = log[f][k]
Whole(f) == Closed(f) \/ f \in spoiled \/ \E t \in Sessions : spc[t] = "eof" /\ File(t) = f

ImportedInOrder ==
    /\ \A s \in Sessions :
         /\ spc[s] = "show" => pos[s] = Len(shown[s]) /\ Starts(shown[s], File(s))
         /\ spc[s] = "eof" => log[File(s)] # <<>>
         /\ spc[s] = "bind" => Whole(File(s))
         /\ \A f \in bound[s] : Whole(f)
    /\ \A f \in Files :
         /\ \A x \in given[f] :
              Starts(x, f) /\ Len(x) < Len(log[f]) /\ log[f][Len(x) + 1] = Eof
         /\ log[f] # <<>> => log[f][1] # Eof
         /\ f \in topics => Whole(f)
         /\ log[f] # <<>> => f \in topics

AboutToSend(s, f) == spc[s] = "send" /\ File(s) = f

SentInOrder ==
    \A f \in Files :
        /\ \A s \in Sessions : AboutToSend(s, f) =>
             /\ \A k \in 1 .. Len(log[f]) : log[f][k] # s
             /\ f \notin raced =>
                  log[f] = <<>> /\ \A t \in Sessions : AboutToSend(t, f) => t = s
        /\ \A j, k \in 1 .. Len(log[f]) :
             log[f][j] = log[f][k] /\ log[f][j] # Eof => j = k
        /\ f \notin raced => \A k \in 2 .. Len(log[f]) : log[f][k] = Eof

\* A query of a file whose imports all went well ends by itself.
QueriesEnd ==
    \A s \in Sessions, f \in Files :
        [](f \notin spoiled) =>
            (spc[s] = "show" /\ File(s) = f ~> spc[s] # "show" \/ File(s) # f)
=============================================================================
