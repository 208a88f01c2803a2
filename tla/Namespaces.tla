------------------------------ MODULE Namespaces ------------------------------
(***************************************************************************)
(* A service call whose result is a directory.  Untar publishes the names  *)
(* of an archive's files on an index topic, "hash-", and each file on a    *)
(* topic of its own, "hash-file"; Dup writes two files, the second of      *)
(* which fails.  A worker that takes over from a crashed one               *)
(* (execNamespaceCmd of CmdLineWorker.java) looks for files that have no   *)
(* eof yet, purges those, and runs the service again, and the service      *)
(* leaves out the files that have one.  A shell reads the index and binds  *)
(* the names it finds (receiveNamespace of CmdLine.java).                  *)
(*                                                                         *)
(* There is one call, published at most Copies times, and one worker at a  *)
(* time: what two workers do to one result is the subject of DriftWorkers. *)
(***************************************************************************)
EXTENDS Integers, Sequences, FiniteSets

CONSTANTS
    Files,         \* plain files of the archive
    Dirs,          \* directories of the archive
    A, B,          \* the two names Dup writes
    ItemsA, ItemsB,   \* how many records it writes for them (5 and 3)
    Copies,        \* bound: how often the call is published
    MaxFaults      \* bound on faults of all kinds together

Entries == Files \cup Dirs

ASSUME EntryAssumption ==
    /\ IsFiniteSet(Entries) /\ Files \cap Dirs = {}
    /\ A \in Files /\ B \in Files /\ A # B
    /\ Entries \cap {"eof", "err", "index"} = {}

ASSUME NamespaceBounds ==
    /\ ItemsA \in Nat /\ ItemsB \in Nat
    /\ Copies \in Nat /\ MaxFaults \in Nat

(***************************************************************************)
(* The call: Untar of an archive that is well formed, of one that tar      *)
(* rejects, of a result that ended with err, or Dup.                       *)
(***************************************************************************)
Calls == {"good", "bad", "err", "dup"}

\* A record of the index is a name or a token, one of a file "data" or a token.
Tokens == {"eof", "err"}

VARIABLES
    call,        \* what the call is
    published,   \* messages sent for it
    acked,       \* messages acknowledged
    node,        \* the ZooKeeper node of the call exists
    index,       \* the index topic, never purged
    file,        \* file[e]: the records of topic e that retention has left
    short,       \* topics whose retention.ms is set to 1000
    topics,      \* file topics that exist
    failTopic,   \* the fail topic names this call
    pc,          \* control state of the worker
    todo,        \* topics to purge, or entries to send
    cur,         \* the entry being sent
    sent,        \* records Dup has sent in this run
    reader,      \* position of the shell's consumer, or -1 at the prompt
    nameTable,   \* files the shell has bound
    listed,      \* the shell has read the index to its eof
    polled,      \* the shell has polled the index, which creates its topic
    failedServices,   \* the shell has read from the fail topic that the call failed
    crashes,     \* workers that died
    slow,        \* polls of hasEof that found nothing in their second
    sendFails,   \* Kafka sends that threw
    harmed       \* files an exception or a slow poll has hit

broker == <<published, acked, node, failTopic>>
kafka  == <<index, file, short, topics>>
worker == <<pc, todo, cur, sent>>
shell  == <<reader, nameTable, listed, polled, failedServices>>
faults == <<crashes, slow, sendFails, harmed>>
vars == <<call, broker, kafka, worker, shell, faults>>

Spare == MaxFaults - crashes - slow - sendFails

-----------------------------------------------------------------------------
\* What hasEof asks for: the last record of the topic is eof.
Finished(e) == file[e] # <<>> /\ file[e][Len(file[e])] = "eof"
IndexTopic == index # <<>> \/ polled

\* What a run of Dup sends, in order, and where.
Times(n, x) == [i \in 1 .. n |-> x]
DupScript ==
    <<<<"index", A>>>> \o Times(ItemsA, <<A, "data">>) \o <<<<A, "eof">>>> \o
    <<<<"index", B>>>> \o Times(ItemsB, <<B, "data">>) \o
    <<<<B, "err">>, <<"index", "err">>>>

Init ==
    /\ call \in Calls
    /\ published = 0 /\ acked = 0 /\ node = FALSE /\ failTopic = FALSE
    /\ index = <<>>
    /\ file = [e \in Entries |-> <<>>]
    /\ short = {} /\ topics = {}
    /\ pc = "idle" /\ todo = {} /\ cur = A /\ sent = 0
    /\ reader = -1 /\ nameTable = {} /\ listed = FALSE
    /\ polled = FALSE /\ failedServices = FALSE
    /\ crashes = 0 /\ slow = 0 /\ sendFails = 0 /\ harmed = {}

(***************************************************************************)
(* handleNamespaceCmd.  The task is left out once the call is known to     *)
(* have failed, or the index exists.                                       *)
(* sendTask looks for a topic named "hash", which no namespace has, so it  *)
(* always sends.                                                           *)
(***************************************************************************)
Command ==
    /\ reader = -1 /\ published < Copies
    /\ ~ failedServices /\ ~ IndexTopic
    /\ published' = published + 1
    /\ UNCHANGED <<call, acked, node, failTopic, kafka, worker, shell, faults>>

-----------------------------------------------------------------------------
(* The worker. *)

Goto(label) == pc' = label

\* handleDelivery, and execNamespaceCmd up to its test of the node.
Deliver ==
    /\ pc = "idle" /\ acked < published
    /\ node' = TRUE
    /\ Goto(IF node THEN "list" ELSE "run")
    /\ UNCHANGED <<call, published, acked, failTopic, kafka, todo, cur, sent, shell,
                   faults>>

\* hasEof of e may miss the eof when its poll finds nothing in a second.
MaySee(e, late) == Finished(e) /\ e \notin late

\* Variant: every topic of the namespace is purged.
UnfinishedAll(late) == topics

\* getUnfinishedResultQueues; the index is taken out of it.
Unfinished(late) == {e \in topics : ~ MaySee(e, late)}

List ==
    /\ pc = "list"
    /\ \E late \in SUBSET {e \in topics : Finished(e)} :
         /\ Cardinality(late) =< Spare
         /\ slow' = slow + Cardinality(late)
         /\ harmed' = harmed \cup late
         /\ todo' = Unfinished(late)
    /\ Goto("lower")
    /\ UNCHANGED <<call, broker, kafka, cur, sent, shell, crashes, sendFails>>

\* deleteTopics: the retention of each topic to 1 s, ...
Lower(e) ==
    /\ pc = "lower" /\ e \in todo \ short
    /\ short' = short \cup {e}
    /\ UNCHANGED <<call, broker, index, file, topics, worker, shell, faults>>

\* Variant: deleteTopics does not wait for the purge.
WaitedNot ==
    /\ pc = "lower" /\ todo \subseteq short
    /\ Goto("restore")
    /\ UNCHANGED <<call, broker, kafka, todo, cur, sent, shell, faults>>

\* ... 5 s of sleep, in which the broker, which looks every second, deletes
\* what they hold, ...
Waited ==
    /\ pc = "lower" /\ todo \subseteq short
    /\ \A e \in todo : file[e] = <<>>
    /\ Goto("restore")
    /\ UNCHANGED <<call, broker, kafka, todo, cur, sent, shell, faults>>

\* ... and their retention back.
Restore(e) ==
    /\ pc = "restore" /\ e \in todo
    /\ short' = short \ {e}
    /\ todo' = todo \ {e}
    /\ UNCHANGED <<call, broker, index, file, topics, pc, cur, sent, shell,
                   faults>>

Restored ==
    /\ pc = "restore" /\ todo = {}
    /\ Goto("run")
    /\ UNCHANGED <<call, broker, kafka, todo, cur, sent, shell, faults>>

\* Kafka deletes the records of a topic whose retention is 1 s.
Purge(e) ==
    /\ e \in short /\ file[e] # <<>>
    /\ file' = [file EXCEPT ![e] = <<>>]
    /\ UNCHANGED <<call, broker, index, short, topics, worker, shell, faults>>

(***************************************************************************)
(* Untar.run as far as tar, and Dup.run as far as its first send.  Untar   *)
(* tests its input for eof only: one that ended with err leaves it polling *)
(* until the exception of the empty poll, without a token.                 *)
(***************************************************************************)
Run ==
    /\ pc = "run"
    /\ \/ call = "good" /\ Goto("import") /\ todo' = Entries /\ UNCHANGED sent
       \/ call = "bad" /\ Goto("reject") /\ UNCHANGED <<todo, sent>>
       \/ call = "err" /\ Goto("ack") /\ UNCHANGED <<todo, sent>>
       \/ call = "dup" /\ Goto("dup") /\ sent' = 0 /\ UNCHANGED todo
    /\ UNCHANGED <<call, broker, kafka, cur, shell, faults>>

\* The loop of importDir, in the order of the directory stream: hasEof, whose
\* poll creates the topic.
NextEntry(e) ==
    /\ pc = "import" /\ e \in todo
    /\ topics' = topics \cup {e}
    /\ \/ /\ Finished(e)
          /\ todo' = todo \ {e}
          /\ UNCHANGED <<pc, cur, slow, harmed>>
       \/ /\ ~ Finished(e)
          /\ cur' = e /\ Goto("name")
          /\ UNCHANGED <<todo, slow, harmed>>
       \/ /\ Finished(e) /\ Spare > 0     \* and seen as unfinished
          /\ slow' = slow + 1 /\ harmed' = harmed \cup {e}
          /\ cur' = e /\ Goto("name")
          /\ UNCHANGED todo
    /\ UNCHANGED <<call, broker, index, file, short, sent, shell, crashes,
                   sendFails>>

\* A record for the index.
ToIndex(rec) ==
    /\ index' = Append(index, rec)
    /\ UNCHANGED <<call, broker, file, short, topics, cur, shell, faults>>

\* A record for the topic of e.
ToFile(e, rec) ==
    /\ file' = [file EXCEPT ![e] = Append(@, rec)]
    /\ topics' = topics \cup {e}
    /\ UNCHANGED <<call, broker, index, short, cur, shell, faults>>

SendName ==
    /\ pc = "name"
    /\ ToIndex(cur)
    /\ Goto("data") /\ UNCHANGED <<todo, sent>>

\* sendFileToQueue: readAllBytes throws for a directory.
SendData ==
    /\ pc = "data"
    /\ \/ /\ cur \in Files
          /\ ToFile(cur, "data")
          /\ Goto("eof") /\ UNCHANGED <<todo, sent>>
       \/ /\ cur \in Dirs
          /\ Goto("import") /\ todo' = todo \ {cur}
          /\ UNCHANGED <<call, broker, kafka, cur, sent, shell, faults>>

SendEof ==
    /\ pc = "eof"
    /\ ToFile(cur, "eof")
    /\ Goto("import") /\ todo' = todo \ {cur} /\ UNCHANGED sent

\* Variant: the index is closed before the last file is sent.
SendIndexEofEarly ==
    /\ pc = "import" /\ Cardinality(todo) =< 1
    /\ ToIndex("eof")
    /\ Goto("ack") /\ UNCHANGED <<todo, sent>>

SendIndexEof ==
    /\ pc = "import" /\ todo = {}
    /\ ToIndex("eof")
    /\ Goto("ack") /\ UNCHANGED <<todo, sent>>

\* tar has failed.
SendIndexErr ==
    /\ pc = "reject"
    /\ ToIndex("err")
    /\ Goto("fail") /\ UNCHANGED <<todo, sent>>

DupSends ==
    /\ pc = "dup"
    /\ LET to == DupScript[sent + 1][1]
           rec == DupScript[sent + 1][2] IN
       \/ to = "index" /\ ToIndex(rec)
       \/ to # "index" /\ ToFile(to, rec)
    /\ sent' = sent + 1
    /\ Goto(IF sent' = Len(DupScript) THEN "fail" ELSE "dup")
    /\ UNCHANGED todo

\* A record that may have arrived although its send throws.
MaybeIndex(rec) ==
    /\ index' \in {index, Append(index, rec)}
    /\ UNCHANGED <<file, topics>>

MaybeFile(e, rec) ==
    /\ file' \in {file, [file EXCEPT ![e] = Append(@, rec)]}
    /\ topics' = IF file' = file THEN topics ELSE topics \cup {e}
    /\ UNCHANGED index

\* A send throws.  importDir and Dup leave without another record, sendFail
\* prints the exception; ...
LeaveThrown ==
    /\ Spare > 0
    /\ \/ pc = "name" /\ MaybeIndex(cur) /\ UNCHANGED failTopic
       \/ pc = "reject" /\ MaybeIndex("err") /\ UNCHANGED failTopic
       \/ pc = "import" /\ todo = {} /\ MaybeIndex("eof") /\ UNCHANGED failTopic
       \/ /\ pc = "dup"
          /\ LET to == DupScript[sent + 1][1]
                 rec == DupScript[sent + 1][2] IN
             \/ to = "index" /\ MaybeIndex(rec)
             \/ to # "index" /\ MaybeFile(to, rec)
          /\ UNCHANGED failTopic
       \/ pc = "fail" /\ failTopic' \in {failTopic, TRUE} /\ UNCHANGED <<index, file, topics>>
    /\ Goto("ack")
    /\ sendFails' = sendFails + 1
    /\ UNCHANGED <<call, published, acked, node, short, todo, cur, sent, shell, crashes,
                   slow, harmed>>

\* ... only sendFileToQueue goes on to the next entry.
SkipThrown ==
    /\ Spare > 0
    /\ pc \in {"data", "eof"} /\ cur \in Files
    /\ MaybeFile(cur, pc)
    /\ Goto("import") /\ todo' = todo \ {cur} /\ harmed' = harmed \cup {cur}
    /\ sendFails' = sendFails + 1
    /\ UNCHANGED <<call, broker, short, cur, sent, shell, crashes, slow>>

SendThrows == LeaveThrown \/ SkipThrown

\* Variant: only files are reported, not directories.
SendFailNot ==
    /\ pc = "fail"
    /\ Goto("ack")
    /\ UNCHANGED <<call, broker, kafka, todo, cur, sent, shell, faults>>

SendFail ==
    /\ pc = "fail"
    /\ failTopic' = TRUE
    /\ Goto("ack")
    /\ UNCHANGED <<call, published, acked, node, kafka, todo, cur, sent, shell, faults>>

Leave == Goto("idle") /\ todo' = {} /\ cur' = A /\ sent' = 0

Ack ==
    /\ pc = "ack"
    /\ acked' = acked + 1
    /\ Leave
    /\ UNCHANGED <<call, published, node, failTopic, kafka, shell, faults>>

\* Variant: the task of a dead worker is not delivered again.
CrashLosing ==
    /\ pc # "idle" /\ Spare > 0
    /\ crashes' = crashes + 1
    /\ acked' = acked + 1
    /\ Leave
    /\ UNCHANGED <<call, published, node, failTopic, kafka, shell, slow, sendFails,
                   harmed>>

\* The worker dies, and its task goes to the next one.
Crash ==
    /\ pc # "idle" /\ Spare > 0
    /\ crashes' = crashes + 1
    /\ Leave
    /\ UNCHANGED <<call, broker, kafka, shell, slow, sendFails, harmed>>
-----------------------------------------------------------------------------
(* The shell: receiveNamespace. *)

\* handleNamespaceQuery, with the seekToBeginning of receiveNamespace.
Query ==
    /\ reader = -1 /\ published > 0
    /\ reader' = 0 /\ polled' = TRUE
    /\ UNCHANGED <<call, broker, kafka, worker, nameTable, listed, failedServices, faults>>

\* A turn of its poll loop: a name is bound, a token ends the query.
Receive ==
    /\ reader \in 0 .. Len(index) - 1
    /\ LET rec == index[reader + 1] IN
       \/ /\ rec \in Entries
          /\ nameTable' = nameTable \cup {rec}
          /\ reader' = reader + 1
          /\ UNCHANGED listed
       \/ /\ rec \in Tokens
          /\ reader' = -1
          /\ listed' = (listed \/ rec = "eof")
          /\ UNCHANGED nameTable
    /\ UNCHANGED <<call, broker, kafka, worker, polled, failedServices, faults>>

\* The user cancels the query with q, or its poll expires.
StopReceiving ==
    /\ reader # -1
    /\ reader' = -1
    /\ UNCHANGED <<call, broker, kafka, worker, nameTable, listed, polled, failedServices,
                   faults>>

\* failListener reads the fail topic.
ListenForFails ==
    /\ failTopic /\ ~ failedServices
    /\ failedServices' = TRUE
    /\ UNCHANGED <<call, broker, kafka, worker, reader, nameTable, listed, polled, faults>>
-----------------------------------------------------------------------------
Work ==
    \/ Deliver \/ List \/ Waited \/ Restored \/ Run
    \/ \E e \in Entries : Lower(e) \/ Restore(e) \/ NextEntry(e)
    \/ SendName \/ SendData \/ SendEof \/ SendIndexEof \/ SendIndexErr \/ DupSends
    \/ SendFail \/ Ack

Next ==
    \/ Command \/ Work \/ Crash \/ SendThrows
    \/ \E e \in Entries : Purge(e)
    \/ Query \/ Receive \/ StopReceiving \/ ListenForFails

Spec == Init /\ [][Next]_vars

\* The worker's thread and the log cleaner run; nobody has to type or to query.
FairSpec == Spec /\ WF_vars(Work) /\ \A e \in Entries : WF_vars(Purge(e))
-----------------------------------------------------------------------------
(* Properties. *)

Labels == {"idle", "list", "lower", "restore", "run", "import", "name", "data", "eof",
           "reject", "dup", "fail", "ack"}

\* Every variable has its type.
TypeOK ==
    /\ call \in Calls /\ published \in 0 .. Copies /\ acked \in 0 .. published
    /\ node \in BOOLEAN /\ failTopic \in BOOLEAN
    /\ index \in Seq(Entries \cup Tokens)
    /\ file \in [Entries -> Seq({"data"} \cup Tokens)]
    /\ short \subseteq Entries /\ topics \subseteq Entries
    /\ pc \in Labels /\ todo \subseteq Entries /\ cur \in Entries
    /\ sent \in 0 .. Len(DupScript)
    /\ reader \in -1 .. Len(index) /\ nameTable \subseteq Entries /\ listed \in BOOLEAN
    /\ polled \in BOOLEAN /\ failedServices \in BOOLEAN
    /\ crashes \in Nat /\ slow \in Nat /\ sendFails \in Nat /\ Spare \in Nat
    /\ harmed \subseteq Entries

\* An index that carries eof was complete when it did: every entry of the
\* archive is named in front of the eof, and every plain file is there, once.
IndexEofMeansFiles ==
    \A k \in 1 .. Len(index) : index[k] = "eof" =>
        /\ \A e \in Entries : \E j \in 1 .. k - 1 : index[j] = e
        /\ \A f \in Files \ harmed : file[f] = <<"data", "eof">>

\* What can be read of a file of an archive is a part of one upload, however
\* many workers have died over it.
FilesUploadedOnce ==
    call # "dup" =>
        \A e \in Entries \ harmed : file[e] \in {<<>>, <<"data">>, <<"data", "eof">>}

\* A finished file is left as it is by every later worker.
FinishedFilesStay ==
    [][\A e \in Entries :
         Finished(e) /\ call # "dup" /\ e \notin harmed' =>
             file'[e] = file[e]]_vars

\* A shell that has read the index to its end has bound the whole directory.
ListedIsBound == listed => nameTable = Entries

NoSendThrows == [](sendFails = 0)

(***************************************************************************)
(* Why these hold.  A file is named before it is sent, and sent before the *)
(* next one; what a dead worker left half sent is unfinished, so that it   *)
(* is in the list of the next one and gone before that sends; retention is *)
(* lowered for what is unfinished only, and is back before anything is     *)
(* sent.                                                                   *)
(***************************************************************************)
Named(e) == \E j \in 1 .. Len(index) : index[j] = e
Whole(e) == file[e] = <<"data", "eof">>
Clean(e) == file[e] = <<>> \/ Whole(e)

\* The control state fits the call, and the shell has bound what it has read.
ControlInOrder ==
    /\ pc \in {"import", "name", "data", "eof"} => call = "good"
    /\ pc = "dup" => call = "dup" /\ sent < Len(DupScript)
    /\ pc # "idle" => node /\ acked < published
    /\ call = "dup" => \A k \in 1 .. Len(index) : index[k] # "eof"
    /\ \A j \in 1 .. reader : index[j] \in nameTable

NamedFirst ==
    /\ \A e \in Entries : file[e] # <<>> => e \in topics /\ Named(e)
    /\ \A e \in Dirs : file[e] = <<>>
    /\ ~ node => topics = {} /\ short = {}

PurgedInOrder ==
    /\ \A e \in short : e \in topics /\ (e \in harmed \/ ~ Whole(e))
    /\ pc \in {"lower", "restore"} =>
         /\ todo \subseteq topics /\ short \subseteq todo \cup harmed
         /\ \A e \in todo \ harmed : ~ Whole(e)
    /\ pc = "lower" => \A e \in topics \ todo : e \in harmed \/ Whole(e)
    /\ pc \in {"restore", "run"} => \A e \in Entries \ harmed : Clean(e)
    /\ pc \notin {"idle", "list", "lower", "restore"} => short \subseteq harmed

SentInOrder ==
    /\ pc \in {"import", "name", "data", "eof"} =>
         /\ \A e \in Entries \ todo : Named(e)
         /\ \A f \in Files \ (todo \cup harmed) : Whole(f)
         /\ \A e \in todo \ harmed : Clean(e) \/ (pc = "eof" /\ e = cur)
    /\ pc \in {"name", "data", "eof"} => cur \in todo
    /\ pc \in {"name", "data"} => cur \in harmed \/ file[cur] = <<>>
    /\ pc \in {"data", "eof"} => Named(cur)
    /\ pc = "eof" => cur \in Files /\ (cur \in harmed \/ file[cur] = <<"data">>)

UploadInOrder ==
    /\ ControlInOrder
    /\ call # "dup" => NamedFirst /\ PurgedInOrder /\ SentInOrder

\* A name a shell has bound is readable in the end, although it is published
\* before its file and its worker may die in between.
BoundFilesArrive ==
    NoSendThrows => \A f \in Files :
        f \in nameTable /\ call = "good" ~> Finished(f) \/ f \in harmed

\* A call whose archive can be read closes its index, and a failure is
\* reported, in every execution whose sends succeed.
NamespaceEnds ==
    NoSendThrows =>
        /\ published > 0 /\ call # "err" ~> \E k \in 1 .. Len(index) : index[k] \in Tokens
        /\ published > 0 /\ call \in {"bad", "dup"} ~> failTopic
=============================================================================
