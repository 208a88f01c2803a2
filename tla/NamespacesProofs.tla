--------------------------- MODULE NamespacesProofs ---------------------------
(***************************************************************************)
(* Theorems about Namespaces, for archives of any size and any number of   *)
(* faults: a closed index names the whole archive, its files were uploaded *)
(* once each, and no later worker touches a finished file.                 *)
(***************************************************************************)
EXTENDS Namespaces, FiniteSetTheorems, SequenceTheorems, TLAPS

Inv == TypeOK /\ UploadInOrder /\ FilesUploadedOnce /\ IndexEofMeansFiles
       /\ ListedIsBound

-----------------------------------------------------------------------------
(* Facts about the contents of a file and of the index. *)

LEMMA Uploads ==
    /\ Append(<<>>, "data") = <<"data">>
    /\ Append(<<"data">>, "eof") = <<"data", "eof">>
    /\ <<"data">> # <<>> /\ <<"data", "eof">> # <<>> /\ <<"data">> # <<"data", "eof">>
    /\ Len(<<"data">>) = 1 /\ <<"data">>[1] = "data"
    /\ Len(<<"data", "eof">>) = 2 /\ <<"data", "eof">>[2] = "eof"
<1>1. Append(<<>>, "data") = <<"data">> OBVIOUS
<1>2. Append(<<"data">>, "eof") = <<"data", "eof">>
  <2>1. <<"data">> \in Seq({"data", "eof"}) /\ <<"data", "eof">> \in Seq({"data", "eof"})
    OBVIOUS
  <2>2. /\ Append(<<"data">>, "eof") \in Seq({"data", "eof"})
        /\ Len(Append(<<"data">>, "eof")) = 2
        /\ Append(<<"data">>, "eof")[1] = "data" /\ Append(<<"data">>, "eof")[2] = "eof"
    BY <2>1
  <2>3. Len(<<"data", "eof">>) = 2 /\ <<"data", "eof">>[1] = "data"
        /\ <<"data", "eof">>[2] = "eof"
    OBVIOUS
  <2>4. \A i \in 1 .. 2 : Append(<<"data">>, "eof")[i] = <<"data", "eof">>[i]
    BY <2>2, <2>3
  <2> QED BY <2>1, <2>2, <2>3, <2>4, SeqEqual
<1>3. Len(<<"data">>) = 1 /\ <<"data">>[1] = "data" OBVIOUS
<1>4. Len(<<"data", "eof">>) = 2 /\ <<"data", "eof">>[2] = "eof" OBVIOUS
<1>5. Len(<<>>) = 0 OBVIOUS
<1> QED BY <1>1, <1>2, <1>3, <1>4, <1>5

\* A file that hasEof finds finished, and that no fault has hit, is whole.
LEMMA FinishedIsWhole ==
    ASSUME NEW e \in Entries, file[e] \in {<<>>, <<"data">>, <<"data", "eof">>}
    PROVE  Finished(e) <=> Whole(e)
BY Uploads DEF Finished, Whole

\* The index only grows.
LEMMA IndexGrows ==
    ASSUME TypeOK, NEW rec \in Entries \cup Tokens, index' = Append(index, rec)
    PROVE  /\ index' \in Seq(Entries \cup Tokens) /\ Len(index') = Len(index) + 1
           /\ \A k \in 1 .. Len(index) : index'[k] = index[k]
           /\ index'[Len(index) + 1] = rec
BY DEF TypeOK

LEMMA NamesStay ==
    ASSUME TypeOK, NEW rec \in Entries \cup Tokens, index' = Append(index, rec)
    PROVE  (\A e \in Entries : Named(e) => Named(e)') /\ Named(rec)'
<1>1. Len(index) \in Nat BY DEF TypeOK
<1> QED BY <1>1, IndexGrows DEF Named

LEMMA DupScriptType ==
    /\ Len(DupScript) \in Nat \ {0}
    /\ \A k \in 1 .. Len(DupScript) :
         \/ DupScript[k][1] = "index" /\ DupScript[k][2] \in Entries \cup {"err"}
         \/ DupScript[k][1] \in Entries /\ DupScript[k][2] \in {"data", "eof", "err"}
<1> DEFINE T == ({"index"} \X (Entries \cup {"err"}))
                \cup (Entries \X {"data", "eof", "err"})
<1>1. /\ <<<<"index", A>>>> \in Seq(T) /\ <<<<A, "eof">>>> \in Seq(T)
      /\ <<<<"index", B>>>> \in Seq(T)
      /\ <<<<B, "err">>, <<"index", "err">>>> \in Seq(T)
  BY EntryAssumption DEF Entries
<1>2. Times(ItemsA, <<A, "data">>) \in Seq(T) /\ Times(ItemsB, <<B, "data">>) \in Seq(T)
  BY EntryAssumption, NamespaceBounds DEF Times, Entries
<1> HIDE DEF T
<1>3. DupScript \in Seq(T) /\ Len(DupScript) >= 1
  BY <1>1, <1>2, ConcatProperties DEF DupScript
<1>4. \A k \in 1 .. Len(DupScript) : DupScript[k] \in T
  BY <1>3
<1> QED BY <1>3, <1>4 DEF T
-----------------------------------------------------------------------------
(* Steps that send nothing. *)

LEMMA QuietContents ==
    ASSUME Inv, UNCHANGED <<call, index, file>>, harmed \subseteq harmed'
    PROVE  FilesUploadedOnce' /\ IndexEofMeansFiles'
BY DEF Inv, FilesUploadedOnce, IndexEofMeansFiles

\* The shells.
LEMMA ShellKeeps ==
    ASSUME Inv, Command \/ Query \/ Receive \/ StopReceiving \/ ListenForFails
    PROVE  Inv'
<1>1. /\ UNCHANGED <<call, acked, node, failTopic, index, file, short, topics, pc, todo, cur,
                     sent, crashes, slow, sendFails, harmed>>
      /\ harmed \subseteq harmed'
  BY DEF Command, Query, Receive, StopReceiving, ListenForFails, broker, kafka, worker,
         faults
<1>2. Len(index) \in Nat BY DEF Inv, TypeOK
<1>3. FilesUploadedOnce' /\ IndexEofMeansFiles'
  BY <1>1, QuietContents
<1>4. /\ TypeOK' /\ ListedIsBound'
      /\ \A j \in 1 .. reader' : index[j] \in nameTable'
  <2>1. CASE Command
    BY <1>1, <2>1, NamespaceBounds
       DEF Inv, TypeOK, UploadInOrder, ControlInOrder, ListedIsBound, Command, Spare, shell
  <2>2. CASE Query \/ StopReceiving
    <3>1. /\ reader' \in {-1, 0}
          /\ UNCHANGED <<published, nameTable, listed, failedServices>>
          /\ polled' \in BOOLEAN
      BY <2>2 DEF Query, StopReceiving, broker, Inv, TypeOK
    <3>2. reader' \in -1 .. Len(index) BY <3>1, <1>2
    <3>3. TypeOK' BY <1>1, <3>1, <3>2 DEF Inv, TypeOK, Spare
    <3>4. 1 .. reader' = {} BY <3>1
    <3> QED BY <3>1, <3>3, <3>4 DEF Inv, ListedIsBound
  <2>3. CASE Receive
    <3> DEFINE rec == index[reader + 1]
    <3>1. reader + 1 \in 1 .. Len(index) /\ rec \in Entries \cup Tokens
      BY <2>3 DEF Receive, Inv, TypeOK
    <3>2. rec = "eof" => nameTable = Entries
      <4> SUFFICES ASSUME rec = "eof", NEW e \in Entries PROVE e \in nameTable
        BY DEF Inv, TypeOK
      <4>1. PICK j \in 1 .. (reader + 1) - 1 : index[j] = e
        BY <3>1 DEF Inv, IndexEofMeansFiles
      <4>2. j \in 1 .. reader BY <3>1, <4>1 DEF Inv, TypeOK
      <4> QED BY <4>1, <4>2 DEF Inv, UploadInOrder, ControlInOrder
    <3>3. (listed \/ rec = "eof") \in BOOLEAN OBVIOUS
    <3>4. listed' \in BOOLEAN BY <2>3, <3>3 DEF Inv, TypeOK, Receive
    <3>5. TypeOK'
      BY <1>1, <1>2, <2>3, <3>1, <3>4 DEF Inv, TypeOK, Receive, Spare, broker
    <3>6. ListedIsBound'
      BY <2>3, <3>1, <3>2, EntryAssumption
         DEF Inv, ListedIsBound, Receive, TypeOK, Tokens
    <3>7. \A j \in 1 .. reader' : index[j] \in nameTable'
      BY <2>3, <3>1 DEF Inv, UploadInOrder, ControlInOrder, Receive, TypeOK
    <3> QED BY <3>5, <3>6, <3>7
  <2>4. CASE ListenForFails
    <3>1. /\ UNCHANGED <<published, reader, nameTable, listed, polled>>
          /\ failedServices' \in BOOLEAN
      BY <2>4 DEF ListenForFails, broker
    <3> QED
      BY <1>1, <3>1
         DEF Inv, TypeOK, Spare, ListedIsBound, UploadInOrder, ControlInOrder
  <2> QED BY <2>1, <2>2, <2>3, <2>4
<1>a. acked < published => acked < published'
  BY DEF Command, Query, Receive, StopReceiving, ListenForFails, broker, Inv, TypeOK
<1>5. ControlInOrder' BY <1>1, <1>4, <1>a DEF Inv, UploadInOrder, ControlInOrder
<1>6. call # "dup" => NamedFirst' /\ PurgedInOrder' /\ SentInOrder'
  BY <1>1 DEF Inv, UploadInOrder, NamedFirst, PurgedInOrder, SentInOrder, Named, Whole,
              Clean
<1> QED BY <1>1, <1>3, <1>4, <1>5, <1>6 DEF Inv, UploadInOrder

\* A step of the worker that sends nothing keeps what does not depend on its
\* control state.
LEMMA QuietWork ==
    ASSUME Inv, UNCHANGED <<call, index, file, shell>>, harmed \subseteq harmed',
           topics \subseteq topics', node => node',
           ~ node' => topics' = {} /\ short' = {}
    PROVE  /\ FilesUploadedOnce' /\ IndexEofMeansFiles' /\ ListedIsBound'
           /\ call # "dup" => NamedFirst'
           /\ call = "dup" => \A k \in 1 .. Len(index) : index'[k] # "eof"
           /\ \A j \in 1 .. reader' : index'[j] \in nameTable'
BY QuietContents
   DEF Inv, UploadInOrder, ControlInOrder, NamedFirst, Named, ListedIsBound, shell

LEMMA DeliverKeeps == ASSUME Inv, Deliver PROVE Inv'
<1>1. /\ pc = "idle" /\ pc' = (IF node THEN "list" ELSE "run") /\ node' = TRUE
      /\ UNCHANGED <<call, published, acked, failTopic, index, file, short, topics, todo, cur,
                     sent, reader, nameTable, listed, polled, failedServices, crashes, slow, sendFails, harmed>>
  BY DEF Deliver, Goto, kafka, shell, faults
<1>2. TypeOK'
  BY <1>1 DEF Inv, TypeOK, Spare, Labels
<1>3. /\ FilesUploadedOnce' /\ IndexEofMeansFiles' /\ ListedIsBound'
      /\ call # "dup" => NamedFirst'
  BY <1>1, QuietWork DEF shell
<1>4. ControlInOrder' BY <1>1 DEF Inv, UploadInOrder, ControlInOrder, Deliver
<1>5. call # "dup" => PurgedInOrder'
  BY <1>1 DEF Inv, TypeOK, UploadInOrder, NamedFirst, PurgedInOrder, Whole, Clean
<1>6. SentInOrder' BY <1>1 DEF SentInOrder
<1> QED BY <1>1, <1>2, <1>3, <1>4, <1>5, <1>6 DEF Inv, UploadInOrder

LEMMA ListKeeps == ASSUME Inv, List PROVE Inv'
<1>1. PICK late \in SUBSET {e \in topics : Finished(e)} :
        /\ Cardinality(late) =< Spare
        /\ slow' = slow + Cardinality(late)
        /\ harmed' = harmed \cup late
        /\ todo' = {e \in topics : ~ MaySee(e, late)}
  BY DEF List, Unfinished
<1>2. /\ pc = "list" /\ pc' = "lower"
      /\ UNCHANGED <<call, published, acked, node, failTopic, index, file, short, topics,
                     cur, sent, reader, nameTable, listed, polled, failedServices, crashes, sendFails>>
  BY DEF List, Goto, broker, kafka, shell
<1>3. Cardinality(late) \in Nat
  <2>1. late \subseteq Entries BY DEF Inv, TypeOK
  <2>2. IsFiniteSet(late) BY <2>1, EntryAssumption, FS_Subset
  <2> QED BY <2>2, FS_CardinalityType
<1>4. slow' \in Nat /\ Spare' \in Nat
  BY <1>1, <1>2, <1>3, NamespaceBounds DEF Inv, TypeOK, Spare
<1>5. TypeOK'
  BY <1>1, <1>2, <1>4 DEF Inv, TypeOK, Labels
<1>6. /\ FilesUploadedOnce' /\ IndexEofMeansFiles' /\ ListedIsBound'
      /\ call # "dup" => NamedFirst'
  <2>1. ~ node' => topics' = {} /\ short' = {}
    BY <1>2 DEF Inv, UploadInOrder, ControlInOrder
  <2> QED BY <1>1, <1>2, <2>1, QuietWork DEF shell
<1>7. \A e \in Entries : call # "dup" =>
        /\ e \in topics \ todo' => e \in harmed' \/ Whole(e)
        /\ e \in short => e \in todo' \cup harmed'
        /\ e \in todo' \ harmed' => ~ Whole(e)
  <2> SUFFICES ASSUME NEW e \in Entries, call # "dup", e \notin harmed
               PROVE  /\ e \in topics \ todo' => Whole(e)
                      /\ e \in short => e \in todo'
                      /\ e \in todo' \ harmed' => ~ Whole(e)
    BY <1>1
  <2>1. Finished(e) <=> Whole(e)
    BY FinishedIsWhole DEF Inv, FilesUploadedOnce
  <2> QED BY <1>1, <2>1 DEF MaySee, Inv, UploadInOrder, PurgedInOrder
<1>8. ControlInOrder' BY <1>2 DEF Inv, UploadInOrder, ControlInOrder
<1>9. call # "dup" => PurgedInOrder'
  BY <1>1, <1>2, <1>7 DEF Inv, TypeOK, UploadInOrder, PurgedInOrder, Whole
<1>10. SentInOrder' BY <1>2 DEF SentInOrder
<1> QED BY <1>2, <1>5, <1>6, <1>8, <1>9, <1>10 DEF Inv, UploadInOrder

\* deleteTopics.
LEMMA PurgesKeep ==
    ASSUME Inv, Waited \/ Restored \/ \E e \in Entries : Lower(e) \/ Restore(e)
    PROVE  Inv'
<1>1. /\ UNCHANGED <<call, broker, index, file, topics, cur, sent, shell, faults>>
      /\ pc \in {"lower", "restore"} /\ pc' \in {"lower", "restore", "run"}
  BY DEF Waited, Restored, Lower, Restore, Goto, kafka, worker
<1>2. TypeOK'
  BY DEF Waited, Restored, Lower, Restore, Goto, Inv, TypeOK, Spare, Labels, broker, kafka,
         worker, shell, faults
<1>3. node /\ node' /\ harmed' = harmed
  BY <1>1 DEF Inv, TypeOK, UploadInOrder, ControlInOrder, broker, faults
<1>4. /\ FilesUploadedOnce' /\ IndexEofMeansFiles' /\ ListedIsBound'
      /\ call # "dup" => NamedFirst'
  BY <1>1, <1>3, QuietWork
<1>5. ControlInOrder'
  BY <1>1, <1>3 DEF Inv, UploadInOrder, ControlInOrder, shell, broker
<1>6. SentInOrder' BY <1>1 DEF SentInOrder
<1>7. call # "dup" => PurgedInOrder'
  <2> SUFFICES ASSUME call # "dup" PROVE PurgedInOrder'
    OBVIOUS
  <2>1. CASE Waited
    <3>1. /\ pc = "lower" /\ pc' = "restore" /\ todo \subseteq short
          /\ \A e \in todo : file[e] = <<>>
          /\ UNCHANGED <<file, short, topics, todo, harmed>>
      BY <2>1 DEF Waited, Goto, kafka, faults
    <3>2. \A e \in Entries \ harmed : Clean(e)
      BY <3>1 DEF Inv, UploadInOrder, NamedFirst, PurgedInOrder, Clean
    <3> QED
      BY <3>1, <3>2 DEF Inv, UploadInOrder, PurgedInOrder, Whole, Clean
  <2>2. CASE Restored
    <3>1. /\ pc = "restore" /\ pc' = "run" /\ todo = {}
          /\ UNCHANGED <<file, short, topics, todo, harmed>>
      BY <2>2 DEF Restored, Goto, kafka, faults
    <3> QED BY <3>1 DEF Inv, UploadInOrder, PurgedInOrder, Whole, Clean
  <2>3. CASE \E e \in Entries : Lower(e) \/ Restore(e)
    <3>1. PICK e \in Entries : Lower(e) \/ Restore(e) BY <2>3
    <3> QED
      BY <1>1, <3>1
         DEF Lower, Restore, Inv, UploadInOrder, PurgedInOrder, Whole, Clean, worker, faults
  <2> QED BY <2>1, <2>2, <2>3
<1> QED BY <1>1, <1>2, <1>4, <1>5, <1>6, <1>7 DEF Inv, UploadInOrder

LEMMA CleanerKeeps == ASSUME Inv, NEW e \in Entries, Purge(e) PROVE Inv'
<1>1. TypeOK'
  BY DEF Purge, Inv, TypeOK, Spare, broker, worker, shell, faults
<1>2. /\ UNCHANGED <<call, published, acked, node, index, topics, short, harmed, pc, todo, cur,
                     sent, reader, nameTable, listed, polled, failedServices>>
      /\ e \in short /\ file' = [file EXCEPT ![e] = <<>>]
      /\ file \in [Entries -> Seq({"data"} \cup Tokens)]
  BY DEF Purge, worker, shell, faults, broker, Inv, TypeOK
<1>3. /\ \A x \in Entries : file'[x] = IF x = e THEN <<>> ELSE file[x]
      /\ call # "dup" => e \in harmed \/ ~ Whole(e)
  BY <1>2 DEF Inv, UploadInOrder, PurgedInOrder
<1>4. FilesUploadedOnce' BY <1>2, <1>3 DEF Inv, FilesUploadedOnce
<1>5. IndexEofMeansFiles'
  BY <1>2, <1>3
     DEF Inv, IndexEofMeansFiles, Whole, UploadInOrder, ControlInOrder, Entries
<1>6. ListedIsBound' BY <1>2 DEF Inv, ListedIsBound
<1>7. ControlInOrder' BY <1>2 DEF Inv, UploadInOrder, ControlInOrder
<1>8. call # "dup" => NamedFirst'
  BY <1>2, <1>3 DEF Inv, UploadInOrder, NamedFirst, Named, Entries
<1>9. call # "dup" => PurgedInOrder'
  BY <1>2, <1>3, Uploads DEF Inv, TypeOK, UploadInOrder, PurgedInOrder, Whole, Clean
<1>10. call # "dup" => SentInOrder'
  BY <1>2, <1>3, Uploads
     DEF Inv, TypeOK, UploadInOrder, PurgedInOrder, SentInOrder, Named, Whole, Clean,
         Entries
<1> QED
  BY <1>1, <1>2, <1>4, <1>5, <1>6, <1>7, <1>8, <1>9, <1>10 DEF Inv, UploadInOrder

\* The start of the service, its end and its death.
LEMMA EndsKeep == ASSUME Inv, Run \/ SendFail \/ Ack \/ Crash PROVE Inv'
<1>1. /\ UNCHANGED <<call, published, node, index, file, short, topics, reader, nameTable,
                     listed, polled, failedServices, slow, sendFails, harmed>>
      /\ pc # "idle" /\ pc' \in {"idle", "ack", "import", "reject", "dup"}
  BY DEF Run, SendFail, Ack, Crash, Leave, Goto, broker, kafka, shell, faults
<1>2. node BY <1>1 DEF Inv, TypeOK, UploadInOrder, ControlInOrder
<1>3. 0 \in 0 .. Len(DupScript) /\ 0 < Len(DupScript) BY DupScriptType
<1>4. TypeOK'
  <2>1. acked' \in 0 .. published'
    BY <1>1 DEF Run, SendFail, Ack, Crash, Leave, Goto, Inv, TypeOK, UploadInOrder,
                ControlInOrder, broker
  <2>2. crashes' \in Nat /\ Spare' \in Nat
    BY <1>1, NamespaceBounds DEF Run, SendFail, Ack, Crash, Inv, TypeOK, Spare, faults
  <2>3. /\ todo' \subseteq Entries /\ cur' \in Entries /\ sent' \in 0 .. Len(DupScript)
        /\ failTopic' \in BOOLEAN
    BY <1>3, EntryAssumption
       DEF Run, SendFail, Ack, Crash, Leave, Inv, TypeOK, Entries, broker, worker
  <2> QED BY <1>1, <2>1, <2>2, <2>3 DEF Inv, TypeOK, Labels
<1>5. /\ FilesUploadedOnce' /\ IndexEofMeansFiles' /\ ListedIsBound'
      /\ call # "dup" => NamedFirst'
  BY <1>1, <1>2, QuietWork DEF shell
<1>6. ControlInOrder'
  <2>1. pc' = "dup" => call = "dup" /\ sent' = 0
    BY DEF Run, SendFail, Ack, Crash, Leave, Goto
  <2>2. pc' = "import" => call = "good"
    BY DEF Run, SendFail, Ack, Crash, Leave, Goto
  <2>3. pc' # "idle" => acked' = acked
    BY DEF Run, SendFail, Ack, Crash, Leave, Goto, broker
  <2> QED
    BY <1>1, <1>2, <1>3, <2>1, <2>2, <2>3 DEF Inv, UploadInOrder, ControlInOrder
<1>7. call # "dup" => PurgedInOrder'
  <2>1. pc \notin {"idle", "list", "lower", "restore"} \/ pc' = "idle"
    BY DEF Run, SendFail, Ack, Crash, Leave, Goto
  <2> QED BY <1>1, <2>1 DEF Inv, UploadInOrder, PurgedInOrder, Whole
<1>8. call # "dup" => SentInOrder'
  <2>1. pc' = "import" => pc = "run" /\ todo' = Entries
    BY DEF Run, SendFail, Ack, Crash, Leave, Goto
  <2> QED
    BY <1>1, <2>1
       DEF Inv, UploadInOrder, PurgedInOrder, SentInOrder, Named, Whole, Clean, Entries
<1> QED BY <1>1, <1>4, <1>5, <1>6, <1>7, <1>8 DEF Inv, UploadInOrder

\* The service turns to an entry, or leaves one out, or is thrown out of a send.
LEMMA NextEntryKeeps == ASSUME Inv, NEW e \in Entries, NextEntry(e) PROVE Inv'
<1>1. /\ pc = "import" /\ e \in todo /\ topics' = topics \cup {e}
      /\ UNCHANGED <<call, published, acked, node, failTopic, index, file, short, sent, reader,
                     nameTable, listed, polled, failedServices, crashes, sendFails>>
      /\ harmed \subseteq harmed'
  BY DEF NextEntry, broker, shell
<1>2. \/ /\ Finished(e) /\ pc' = "import" /\ todo' = todo \ {e}
         /\ UNCHANGED <<cur, slow, harmed>>
      \/ /\ pc' = "name" /\ cur' = e /\ todo' = todo
         /\ ~ Finished(e) /\ UNCHANGED <<slow, harmed>>
      \/ /\ pc' = "name" /\ cur' = e /\ todo' = todo
         /\ Spare > 0 /\ slow' = slow + 1 /\ harmed' = harmed \cup {e}
  BY <1>1 DEF NextEntry, Goto
<1>3. TypeOK'
  <2>1. slow' \in Nat /\ Spare' \in Nat
    BY <1>1, <1>2, NamespaceBounds DEF Inv, TypeOK, Spare
  <2>2. pc' \in Labels /\ cur' \in Entries /\ todo' \subseteq Entries
        /\ harmed' \subseteq Entries
    BY <1>1, <1>2 DEF Inv, TypeOK, Labels
  <2> QED BY <1>1, <2>1, <2>2 DEF Inv, TypeOK
<1>4. node /\ call = "good"
  BY <1>1 DEF Inv, TypeOK, UploadInOrder, ControlInOrder
<1>5. FilesUploadedOnce' /\ IndexEofMeansFiles' /\ ListedIsBound' /\ NamedFirst'
  BY <1>1, <1>4, QuietWork DEF shell
<1>6. ControlInOrder'
  BY <1>1, <1>2, <1>4 DEF Inv, UploadInOrder, ControlInOrder
<1>7. PurgedInOrder'
  BY <1>1, <1>2, <1>4 DEF Inv, UploadInOrder, PurgedInOrder, Whole
<1>8. e \in harmed \/ (Finished(e) <=> Whole(e))
  BY <1>4, FinishedIsWhole DEF Inv, FilesUploadedOnce
<1>9. Finished(e) => e \in Files /\ Named(e)
  BY <1>4 DEF Inv, UploadInOrder, NamedFirst, Finished, Entries
<1>10. SentInOrder'
  BY <1>1, <1>2, <1>4, <1>8, <1>9
     DEF Inv, UploadInOrder, SentInOrder, Named, Whole, Clean
<1> QED
  BY <1>1, <1>3, <1>5, <1>6, <1>7, <1>10 DEF Inv, UploadInOrder

-----------------------------------------------------------------------------
(* Steps that send a record. *)

\* A record of the index that is no eof keeps what does not depend on the
\* control state.
LEMMA IndexRecord ==
    ASSUME Inv, NEW rec \in Entries \cup Tokens, index' = Append(index, rec),
           UNCHANGED <<call, file, topics, short, node, shell, harmed>>,
           rec = "eof" => \A e \in Entries : Named(e),
           rec = "eof" => \A f \in Files \ harmed : Whole(f)
    PROVE  /\ FilesUploadedOnce' /\ IndexEofMeansFiles' /\ ListedIsBound'
           /\ call # "dup" => NamedFirst'
           /\ \A j \in 1 .. reader' : index'[j] \in nameTable'
           /\ reader' \in -1 .. Len(index')
<1>1. Len(index) \in Nat /\ reader \in -1 .. Len(index) /\ reader' = reader
  BY DEF Inv, TypeOK, shell
<1>2. /\ Len(index') = Len(index) + 1
      /\ \A k \in 1 .. Len(index) : index'[k] = index[k]
      /\ index'[Len(index) + 1] = rec
  BY IndexGrows DEF Inv
<1>3. \A e \in Entries : Named(e) => Named(e)'
  BY NamesStay DEF Inv
<1>4. FilesUploadedOnce' /\ ListedIsBound'
  BY DEF Inv, FilesUploadedOnce, ListedIsBound, shell
<1>5. IndexEofMeansFiles'
  <2> SUFFICES ASSUME NEW k \in 1 .. Len(index'), index'[k] = "eof"
               PROVE  /\ \A e \in Entries : \E j \in 1 .. k - 1 : index'[j] = e
                      /\ \A f \in Files \ harmed : file[f] = <<"data", "eof">>
    BY DEF IndexEofMeansFiles
  <2>1. CASE k \in 1 .. Len(index)
    <3>1. index[k] = "eof" BY <1>2, <2>1
    <3>2. /\ \A e \in Entries : \E j \in 1 .. k - 1 : index[j] = e
          /\ \A f \in Files \ harmed : file[f] = <<"data", "eof">>
      BY <2>1, <3>1 DEF Inv, IndexEofMeansFiles
    <3>3. \A j \in 1 .. k - 1 : index'[j] = index[j] BY <1>1, <1>2, <2>1
    <3> QED BY <3>2, <3>3
  <2>2. CASE k = Len(index) + 1
    <3>1. rec = "eof" /\ k - 1 = Len(index) BY <1>1, <1>2, <2>2
    <3>2. \A e \in Entries : \E j \in 1 .. k - 1 : index[j] = e
      BY <3>1 DEF Named
    <3>3. \A j \in 1 .. k - 1 : index'[j] = index[j] BY <1>2, <3>1
    <3> QED BY <3>1, <3>2, <3>3 DEF Whole
  <2> QED BY <1>1, <1>2, <2>1, <2>2
<1>6. call # "dup" => NamedFirst'
  BY <1>3 DEF Inv, UploadInOrder, NamedFirst, Entries
<1>7. \A j \in 1 .. reader' : index'[j] \in nameTable'
  <2>1. UNCHANGED nameTable /\ \A j \in 1 .. reader : j \in 1 .. Len(index)
    BY <1>1 DEF shell
  <2> QED BY <1>1, <1>2, <2>1 DEF Inv, UploadInOrder, ControlInOrder
<1> QED BY <1>1, <1>2, <1>4, <1>5, <1>6, <1>7

LEMMA SendNameKeeps == ASSUME Inv, SendName PROVE Inv'
<1>1. /\ pc = "name" /\ pc' = "data" /\ index' = Append(index, cur)
      /\ UNCHANGED <<call, broker, file, short, topics, todo, cur, sent, shell, faults>>
  BY DEF SendName, ToIndex, Goto
<1>2. cur \in Entries /\ cur # "eof" BY EntryAssumption DEF Inv, TypeOK
<1>3. /\ FilesUploadedOnce' /\ IndexEofMeansFiles' /\ ListedIsBound'
      /\ call # "dup" => NamedFirst'
      /\ \A j \in 1 .. reader' : index'[j] \in nameTable'
      /\ reader' \in -1 .. Len(index')
  BY <1>1, <1>2, IndexRecord DEF broker, faults
<1>4. index' \in Seq(Entries \cup Tokens) BY <1>1, <1>2, IndexGrows DEF Inv
<1>5. TypeOK'
  BY <1>1, <1>3, <1>4 DEF Inv, TypeOK, Spare, Labels, broker, shell, faults
<1>6. call = "good" /\ node
  BY <1>1 DEF Inv, UploadInOrder, ControlInOrder, TypeOK
<1>7. ControlInOrder'
  BY <1>1, <1>3, <1>6 DEF Inv, UploadInOrder, ControlInOrder, broker
<1>8. PurgedInOrder'
  BY <1>1, <1>6 DEF Inv, UploadInOrder, PurgedInOrder, Whole, faults
<1>9. SentInOrder'
  <2>1. (\A e \in Entries : Named(e) => Named(e)') /\ Named(cur)'
    BY <1>1, <1>2, NamesStay DEF Inv
  <2> QED
    BY <1>1, <1>6, <2>1
       DEF Inv, UploadInOrder, SentInOrder, Whole, Clean, faults
<1> QED BY <1>1, <1>3, <1>5, <1>6, <1>7, <1>8, <1>9 DEF Inv, UploadInOrder

LEMMA SendTokenKeeps == ASSUME Inv, SendIndexEof \/ SendIndexErr PROVE Inv'
<1>1. PICK rec \in {"eof", "err"} :
        /\ index' = Append(index, rec)
        /\ rec = "eof" => pc = "import" /\ todo = {}
        /\ rec = "err" => pc = "reject"
        /\ pc' \in {"ack", "fail"}
        /\ UNCHANGED <<call, broker, file, short, topics, todo, cur, sent, shell, faults>>
  BY DEF SendIndexEof, SendIndexErr, ToIndex, Goto
<1>2. rec \in Entries \cup Tokens BY DEF Tokens
<1>3. rec = "eof" =>
        /\ call = "good"
        /\ \A e \in Entries : Named(e)
        /\ \A f \in Files \ harmed : Whole(f)
  BY <1>1 DEF Inv, UploadInOrder, ControlInOrder, SentInOrder
<1>4. /\ FilesUploadedOnce' /\ IndexEofMeansFiles' /\ ListedIsBound'
      /\ call # "dup" => NamedFirst'
      /\ \A j \in 1 .. reader' : index'[j] \in nameTable'
      /\ reader' \in -1 .. Len(index')
  BY <1>1, <1>2, <1>3, IndexRecord DEF broker, faults
<1>5. index' \in Seq(Entries \cup Tokens) BY <1>1, <1>2, IndexGrows DEF Inv
<1>6. TypeOK'
  BY <1>1, <1>4, <1>5 DEF Inv, TypeOK, Spare, Labels, broker, shell, faults
<1>7. call = "dup" => \A k \in 1 .. Len(index') : index'[k] # "eof"
  BY <1>1, <1>2, <1>3, IndexGrows DEF Inv, TypeOK, UploadInOrder, ControlInOrder
<1>8. ControlInOrder'
  BY <1>1, <1>4, <1>7 DEF Inv, UploadInOrder, ControlInOrder, broker
<1>9. call # "dup" => PurgedInOrder'
  BY <1>1 DEF Inv, UploadInOrder, PurgedInOrder, Whole, faults
<1>10. SentInOrder' BY <1>1 DEF SentInOrder
<1> QED BY <1>1, <1>4, <1>6, <1>8, <1>9, <1>10 DEF Inv, UploadInOrder

\* readAllBytes of a directory: the service goes on to the next entry.
LEMMA DirectoryKeeps == ASSUME Inv, SendData, cur \notin Files PROVE Inv'
<1>1. /\ pc = "data" /\ pc' = "import" /\ todo' = todo \ {cur} /\ cur \in Dirs
      /\ UNCHANGED <<call, published, acked, node, failTopic, index, file, short, topics,
                     cur, sent, reader, nameTable, listed, polled, failedServices, crashes, slow, sendFails,
                     harmed>>
  BY DEF SendData, Goto, broker, kafka, shell, faults
<1>2. TypeOK' BY <1>1 DEF Inv, TypeOK, Spare, Labels
<1>3. node /\ call = "good"
  BY <1>1 DEF Inv, UploadInOrder, ControlInOrder
<1>4. FilesUploadedOnce' /\ IndexEofMeansFiles' /\ ListedIsBound' /\ NamedFirst'
  BY <1>1, <1>3, QuietWork DEF shell
<1>5. ControlInOrder' BY <1>1, <1>3 DEF Inv, UploadInOrder, ControlInOrder
<1>6. PurgedInOrder'
  BY <1>1, <1>3 DEF Inv, UploadInOrder, PurgedInOrder, Whole
<1>7. SentInOrder'
  BY <1>1, <1>3, EntryAssumption
     DEF Inv, UploadInOrder, SentInOrder, Named, Whole, Clean, Entries
<1> QED BY <1>1, <1>2, <1>4, <1>5, <1>6, <1>7 DEF Inv, UploadInOrder

\* A record for the file at hand.
LEMMA FileRecordKeeps == ASSUME Inv, SendData \/ SendEof, cur \in Files PROVE Inv'
<1>1. PICK rec \in {"data", "eof"} :
        /\ pc = rec /\ file' = [file EXCEPT ![cur] = Append(@, rec)]
        /\ rec = "data" => pc' = "eof" /\ todo' = todo
        /\ rec = "eof" => pc' = "import" /\ todo' = todo \ {cur}
        /\ topics' = topics \cup {cur}
        /\ UNCHANGED <<call, published, acked, node, failTopic, index, short, cur, sent,
                       reader, nameTable, listed, polled, failedServices, crashes, slow, sendFails, harmed>>
  BY EntryAssumption
     DEF SendData, SendEof, ToFile, Goto, Entries, broker, kafka, shell, faults
<1>2. node /\ call = "good" /\ Named(cur) /\ cur \in todo /\ cur \notin Dirs
  BY <1>1, EntryAssumption
     DEF Inv, UploadInOrder, ControlInOrder, SentInOrder, Entries
<1>3. \A x \in Entries : file'[x] = IF x = cur THEN Append(file[x], rec) ELSE file[x]
  BY <1>1 DEF Inv, TypeOK
<1>4. cur \in harmed
      \/ (rec = "data" /\ file[cur] = <<>> /\ file'[cur] = <<"data">>)
      \/ (rec = "eof" /\ file[cur] = <<"data">> /\ file'[cur] = <<"data", "eof">>)
  BY <1>1, <1>2, <1>3, Uploads DEF Inv, TypeOK, UploadInOrder, SentInOrder
<1>5. TypeOK'
  <2>1. file' \in [Entries -> Seq({"data"} \cup Tokens)]
    BY <1>1 DEF Inv, TypeOK, Tokens
  <2> QED BY <1>1, <2>1 DEF Inv, TypeOK, Spare, Labels
<1>6. FilesUploadedOnce'
  BY <1>1, <1>3, <1>4 DEF Inv, FilesUploadedOnce
<1>7. IndexEofMeansFiles'
  <2>1. cur \in harmed \/ ~ Whole(cur)
    BY <1>4, Uploads DEF Whole
  <2> QED
    BY <1>1, <1>3, <2>1 DEF Inv, IndexEofMeansFiles, Whole, Entries
<1>8. ListedIsBound' BY <1>1 DEF Inv, ListedIsBound
<1>9. ControlInOrder' BY <1>1, <1>2 DEF Inv, UploadInOrder, ControlInOrder
<1>10. NamedFirst'
  BY <1>1, <1>2, <1>3 DEF Inv, UploadInOrder, NamedFirst, Named, Entries
<1>11. PurgedInOrder'
  BY <1>1, <1>2, <1>3 DEF Inv, UploadInOrder, PurgedInOrder, Whole
<1>12. SentInOrder'
  <2>1. \A f \in Files \ (todo' \cup harmed) : Whole(f)'
    BY <1>1, <1>2, <1>3, <1>4 DEF Inv, UploadInOrder, SentInOrder, Whole, Entries
  <2>2. \A e \in todo' \ harmed : Clean(e)' \/ (pc' = "eof" /\ e = cur)
    BY <1>1, <1>2, <1>3, <1>4
       DEF Inv, TypeOK, UploadInOrder, SentInOrder, Whole, Clean
  <2>3. \A e \in Entries \ todo' : Named(e)'
    BY <1>1, <1>2 DEF Inv, UploadInOrder, SentInOrder, Named
  <2> QED BY <1>1, <1>2, <1>4, <2>1, <2>2, <2>3 DEF SentInOrder, Named
<1> QED
  BY <1>1, <1>2, <1>5, <1>6, <1>7, <1>8, <1>9, <1>10, <1>11, <1>12
     DEF Inv, UploadInOrder

\* Dup is about a call of its own, so that only the shell's side is disturbed.
LEMMA DupKeeps == ASSUME Inv, DupSends PROVE Inv'
<1>1. /\ pc = "dup" /\ call = "dup" /\ sent < Len(DupScript) /\ sent \in Nat /\ node
      /\ \A k \in 1 .. Len(index) : index[k] # "eof"
  BY DEF DupSends, Inv, TypeOK, UploadInOrder, ControlInOrder
<1>2. sent + 1 \in 1 .. Len(DupScript) /\ Len(DupScript) \in Nat
  BY <1>1, DupScriptType
<1> DEFINE to == DupScript[sent + 1][1]
           rec == DupScript[sent + 1][2]
<1>3. \/ to = "index" /\ rec \in Entries \cup {"err"} /\ ToIndex(rec)
      \/ to \in Entries /\ rec \in {"data", "eof", "err"} /\ ToFile(to, rec)
  BY <1>2, DupScriptType, EntryAssumption DEF DupSends, Entries
<1>4. /\ UNCHANGED <<call, published, acked, node, failTopic, short, cur, todo, reader,
                     nameTable, listed, polled, failedServices, crashes, slow, sendFails, harmed>>
      /\ sent' = sent + 1
      /\ pc' \in {"fail", "dup"} /\ (pc' = "dup" => sent' # Len(DupScript))
  BY <1>3 DEF DupSends, ToIndex, ToFile, Goto, broker, shell, faults
<1> HIDE DEF to, rec
<1>5. /\ index' \in Seq(Entries \cup Tokens)
      /\ file' \in [Entries -> Seq({"data"} \cup Tokens)]
      /\ topics' \subseteq Entries
      /\ \A k \in 1 .. Len(index') : index'[k] # "eof"
      /\ reader' \in -1 .. Len(index')
      /\ \A j \in 1 .. reader' : index'[j] \in nameTable'
  <2>1. CASE to = "index" /\ rec \in Entries \cup {"err"} /\ ToIndex(rec)
    <3>1. /\ index' = Append(index, rec) /\ rec \in Entries \cup Tokens /\ rec # "eof"
          /\ UNCHANGED <<file, topics>>
      BY <2>1, EntryAssumption DEF ToIndex, Tokens
    <3>2. UNCHANGED <<call, file, topics, short, node, shell, harmed>>
      BY <1>4, <3>1 DEF shell
    <3>3. /\ reader' \in -1 .. Len(index')
          /\ \A j \in 1 .. reader' : index'[j] \in nameTable'
      BY <3>1, <3>2, IndexRecord
    <3>4. index' \in Seq(Entries \cup Tokens)
          /\ \A k \in 1 .. Len(index') : index'[k] # "eof"
      BY <1>1, <3>1, IndexGrows DEF Inv, TypeOK
    <3> QED BY <3>1, <3>3, <3>4 DEF Inv, TypeOK
  <2>2. CASE to \in Entries /\ rec \in {"data", "eof", "err"} /\ ToFile(to, rec)
    <3>1. /\ file' = [file EXCEPT ![to] = Append(@, rec)] /\ topics' = topics \cup {to}
          /\ UNCHANGED index
      BY <2>2 DEF ToFile
    <3> QED
      BY <1>1, <1>4, <2>2, <3>1 DEF Inv, TypeOK, UploadInOrder, ControlInOrder, Tokens
  <2> QED BY <1>3, <2>1, <2>2
<1>6. sent' \in 0 .. Len(DupScript) /\ (pc' = "dup" => sent' < Len(DupScript))
  BY <1>1, <1>2, <1>4
<1>7. TypeOK'
  BY <1>4, <1>5, <1>6 DEF Inv, TypeOK, Spare, Labels
<1>8. FilesUploadedOnce' /\ IndexEofMeansFiles' /\ ListedIsBound'
  BY <1>1, <1>4, <1>5
     DEF Inv, FilesUploadedOnce, IndexEofMeansFiles, ListedIsBound
<1>9. ControlInOrder'
  BY <1>1, <1>4, <1>5, <1>6 DEF Inv, TypeOK, UploadInOrder, ControlInOrder
<1> QED BY <1>1, <1>4, <1>7, <1>8, <1>9 DEF Inv, UploadInOrder

\* A send that throws, and whose record does not arrive.
LEMMA LostRecordKeeps ==
    ASSUME Inv, SendThrows, UNCHANGED <<index, file, topics>> PROVE Inv'
<1>1. /\ sendFails' = sendFails + 1 /\ Spare > 0
      /\ pc \notin {"idle", "list", "lower", "restore", "run", "ack"}
      /\ pc' \in {"ack", "import"} /\ todo' \subseteq todo
      /\ harmed \subseteq harmed' /\ harmed' \subseteq harmed \cup {cur}
      /\ UNCHANGED <<call, published, acked, node, short, cur, sent, reader, nameTable,
                     listed, polled, failedServices, crashes, slow>>
  BY DEF SendThrows, LeaveThrown, SkipThrown, Goto, broker, shell
<1>2. TypeOK'
  <2>1. sendFails' \in Nat /\ Spare' \in Nat
    BY <1>1, NamespaceBounds DEF Inv, TypeOK, Spare
  <2>2. failTopic' \in BOOLEAN
    BY DEF SendThrows, LeaveThrown, SkipThrown, broker, Inv, TypeOK
  <2> QED BY <1>1, <2>1, <2>2 DEF Inv, TypeOK, Labels
<1>3. node BY <1>1 DEF Inv, TypeOK, UploadInOrder, ControlInOrder
<1>4. /\ FilesUploadedOnce' /\ IndexEofMeansFiles' /\ ListedIsBound'
      /\ call # "dup" => NamedFirst'
  BY <1>1, <1>3, QuietWork DEF shell
<1>5. pc' = "import" =>
        pc \in {"data", "eof"} /\ todo' = todo \ {cur} /\ harmed' = harmed \cup {cur}
  BY DEF SendThrows, LeaveThrown, SkipThrown, Goto
<1>6. ControlInOrder' BY <1>1, <1>3, <1>5 DEF Inv, UploadInOrder, ControlInOrder
<1>7. call # "dup" => PurgedInOrder'
  BY <1>1 DEF Inv, UploadInOrder, PurgedInOrder, Whole
<1>8. call # "dup" => SentInOrder'
  BY <1>1, <1>5 DEF Inv, UploadInOrder, SentInOrder, Named, Whole, Clean
<1> QED BY <1>1, <1>2, <1>4, <1>6, <1>7, <1>8 DEF Inv, UploadInOrder

\* What a send that throws and leaves the service does besides its record.
LEMMA LeaveThrownFrame ==
    ASSUME Inv, LeaveThrown
    PROVE  /\ pc \in {"name", "reject", "import", "dup", "fail"} /\ pc' = "ack" /\ node
           /\ UNCHANGED <<call, published, acked, node, short, todo, cur, sent, shell,
                          crashes, slow, harmed>>
           /\ failTopic' \in BOOLEAN /\ sendFails' \in Nat /\ Spare' \in Nat
<1>1. sendFails' \in Nat /\ Spare' \in Nat
  BY NamespaceBounds DEF LeaveThrown, Inv, TypeOK, Spare
<1>2. pc \in {"name", "reject", "import", "dup", "fail"} /\ pc' = "ack"
  BY DEF LeaveThrown, Goto
<1>3. node BY <1>2 DEF Inv, TypeOK, UploadInOrder, ControlInOrder
<1>4. failTopic' \in BOOLEAN BY DEF LeaveThrown, Inv, TypeOK
<1> QED BY <1>1, <1>2, <1>3, <1>4 DEF LeaveThrown

\* It throws, and its record is in the index all the same.
LEMMA IndexThrownKeeps ==
    ASSUME Inv, LeaveThrown, NEW rec \in Entries \cup Tokens,
           index' = Append(index, rec), UNCHANGED <<file, topics>>,
           rec = "eof" => pc = "import" /\ todo = {}
    PROVE  Inv'
<1>1. /\ pc \in {"name", "reject", "import", "dup", "fail"} /\ pc' = "ack" /\ node
      /\ UNCHANGED <<call, published, acked, node, short, todo, cur, sent, shell, crashes,
                     slow, harmed>>
      /\ failTopic' \in BOOLEAN /\ sendFails' \in Nat /\ Spare' \in Nat
  BY LeaveThrownFrame
<1>2. rec = "eof" =>
        /\ call = "good"
        /\ \A e \in Entries : Named(e)
        /\ \A f \in Files \ harmed : Whole(f)
  BY DEF Inv, UploadInOrder, ControlInOrder, SentInOrder
<1>3. /\ FilesUploadedOnce' /\ IndexEofMeansFiles' /\ ListedIsBound'
      /\ call # "dup" => NamedFirst'
      /\ \A j \in 1 .. reader' : index'[j] \in nameTable'
      /\ reader' \in -1 .. Len(index')
  BY <1>1, <1>2, IndexRecord
<1>4. index' \in Seq(Entries \cup Tokens) BY IndexGrows DEF Inv
<1>5. TypeOK' BY <1>1, <1>3, <1>4 DEF Inv, TypeOK, Labels, shell
<1>6. call = "dup" => \A k \in 1 .. Len(index') : index'[k] # "eof"
  BY <1>2, IndexGrows DEF Inv, TypeOK, UploadInOrder, ControlInOrder
<1>7. ControlInOrder'
  BY <1>1, <1>3, <1>6 DEF Inv, UploadInOrder, ControlInOrder
<1>8. call # "dup" => PurgedInOrder'
  BY <1>1 DEF Inv, UploadInOrder, PurgedInOrder, Whole
<1>9. SentInOrder' BY <1>1 DEF SentInOrder
<1> QED BY <1>1, <1>3, <1>5, <1>7, <1>8, <1>9 DEF Inv, UploadInOrder

\* It throws, and its record is in a file of Dup all the same.
LEMMA DupThrownKeeps ==
    ASSUME Inv, LeaveThrown, call = "dup", NEW to \in Entries,
           NEW rec \in {"data", "eof", "err"},
           file' = [file EXCEPT ![to] = Append(@, rec)],
           topics' = topics \cup {to}, UNCHANGED index
    PROVE  Inv'
<1>1. /\ pc \in {"name", "reject", "import", "dup", "fail"} /\ pc' = "ack" /\ node
      /\ UNCHANGED <<call, published, acked, node, short, todo, cur, sent, shell, crashes,
                     slow, harmed>>
      /\ failTopic' \in BOOLEAN /\ sendFails' \in Nat /\ Spare' \in Nat
  BY LeaveThrownFrame
<1>2. file' \in [Entries -> Seq({"data"} \cup Tokens)] /\ topics' \subseteq Entries
  BY DEF Inv, TypeOK, Tokens
<1>3. TypeOK' BY <1>1, <1>2 DEF Inv, TypeOK, Labels, shell
<1>4. FilesUploadedOnce' /\ IndexEofMeansFiles' /\ ListedIsBound'
  BY <1>1
     DEF Inv, UploadInOrder, ControlInOrder, FilesUploadedOnce, IndexEofMeansFiles,
         ListedIsBound, shell
<1>5. ControlInOrder' BY <1>1 DEF Inv, UploadInOrder, ControlInOrder, shell
<1> QED BY <1>1, <1>3, <1>4, <1>5 DEF Inv, UploadInOrder

\* It throws, and its record is in a file of the archive all the same.
LEMMA FileThrownKeeps ==
    ASSUME Inv, SkipThrown, NEW rec \in {"data", "eof"},
           file' = [file EXCEPT ![cur] = Append(@, rec)],
           topics' = topics \cup {cur}
    PROVE  Inv'
<1>1. /\ pc \in {"data", "eof"} /\ pc' = "import" /\ todo' = todo \ {cur}
      /\ harmed' = harmed \cup {cur} /\ cur \in Files /\ sendFails' = sendFails + 1
      /\ Spare > 0
      /\ UNCHANGED <<call, published, acked, node, failTopic, index, short, cur, sent,
                     reader, nameTable, listed, polled, failedServices, crashes, slow>>
  BY DEF SkipThrown, MaybeFile, Goto, broker, shell
<1>2. node /\ call = "good" /\ Named(cur) /\ cur \in todo /\ cur \notin Dirs
  BY <1>1, EntryAssumption
     DEF Inv, TypeOK, UploadInOrder, ControlInOrder, SentInOrder, Entries
<1>3. \A x \in Entries : file'[x] = IF x = cur THEN Append(file[x], rec) ELSE file[x]
  BY DEF Inv, TypeOK
<1>4. TypeOK'
  <2>1. file' \in [Entries -> Seq({"data"} \cup Tokens)]
    BY DEF Inv, TypeOK, Tokens
  <2>2. sendFails' \in Nat /\ Spare' \in Nat
    BY <1>1, NamespaceBounds DEF Inv, TypeOK, Spare
  <2> QED BY <1>1, <2>1, <2>2 DEF Inv, TypeOK, Labels
<1>5. FilesUploadedOnce' BY <1>1, <1>3 DEF Inv, FilesUploadedOnce
<1>6. IndexEofMeansFiles'
  BY <1>1, <1>3 DEF Inv, IndexEofMeansFiles, Entries
<1>7. ListedIsBound' BY <1>1 DEF Inv, ListedIsBound
<1>8. ControlInOrder' BY <1>1, <1>2 DEF Inv, UploadInOrder, ControlInOrder
<1>9. NamedFirst'
  BY <1>1, <1>2, <1>3 DEF Inv, UploadInOrder, NamedFirst, Named, Entries
<1>10. PurgedInOrder'
  BY <1>1, <1>2, <1>3 DEF Inv, UploadInOrder, PurgedInOrder, Whole
<1>11. SentInOrder'
  <2>1. \A f \in Files \ (todo' \cup harmed') : Whole(f)'
    BY <1>1, <1>2, <1>3 DEF Inv, UploadInOrder, SentInOrder, Whole, Entries
  <2>2. \A e \in todo' \ harmed' : Clean(e)'
    BY <1>1, <1>2, <1>3 DEF Inv, TypeOK, UploadInOrder, SentInOrder, Whole, Clean
  <2>3. \A e \in Entries \ todo' : Named(e)'
    BY <1>1, <1>2 DEF Inv, UploadInOrder, SentInOrder, Named
  <2> QED BY <1>1, <1>2, <2>1, <2>2, <2>3 DEF SentInOrder, Named
<1> QED
  BY <1>1, <1>2, <1>4, <1>5, <1>6, <1>7, <1>8, <1>9, <1>10, <1>11
     DEF Inv, UploadInOrder

LEMMA SendThrowsKeeps == ASSUME Inv, SendThrows PROVE Inv'
<1>1. CASE UNCHANGED <<index, file, topics>>
  BY <1>1, LostRecordKeeps
<1>2. CASE SkipThrown /\ ~ UNCHANGED <<index, file, topics>>
  BY <1>2, FileThrownKeeps DEF SkipThrown, MaybeFile
<1>3. CASE LeaveThrown /\ pc = "dup" /\ ~ UNCHANGED <<index, file, topics>>
  <2>1. call = "dup" /\ sent + 1 \in 1 .. Len(DupScript)
    BY <1>3, DupScriptType DEF Inv, TypeOK, UploadInOrder, ControlInOrder
  <2> DEFINE to == DupScript[sent + 1][1]
             rec == DupScript[sent + 1][2]
  <2>2. \/ to = "index" /\ rec \in Entries \cup {"err"} /\ MaybeIndex(rec)
        \/ to \in Entries /\ rec \in {"data", "eof", "err"} /\ MaybeFile(to, rec)
    BY <1>3, <2>1, DupScriptType, EntryAssumption DEF LeaveThrown, Entries
  <2> HIDE DEF to, rec
  <2>3. CASE to = "index" /\ rec \in Entries \cup {"err"} /\ MaybeIndex(rec)
    <3>1. index' = Append(index, rec) /\ UNCHANGED <<file, topics>>
      BY <1>3, <2>3 DEF MaybeIndex
    <3>2. rec # "eof" /\ rec \in Entries \cup Tokens
      BY <2>3, EntryAssumption DEF Tokens
    <3> QED BY <1>3, <3>1, <3>2, IndexThrownKeeps
  <2>4. CASE to \in Entries /\ rec \in {"data", "eof", "err"} /\ MaybeFile(to, rec)
    <3>1. /\ file' = [file EXCEPT ![to] = Append(@, rec)] /\ topics' = topics \cup {to}
          /\ UNCHANGED index
      BY <1>3, <2>4 DEF MaybeFile
    <3> QED BY <1>3, <2>1, <2>4, <3>1, DupThrownKeeps
  <2> QED BY <2>2, <2>3, <2>4
<1>4. CASE LeaveThrown /\ pc # "dup" /\ ~ UNCHANGED <<index, file, topics>>
  <2>1. PICK rec \in {cur, "err", "eof"} :
          /\ index' = Append(index, rec) /\ UNCHANGED <<file, topics>>
          /\ rec = "eof" => pc = "import" /\ todo = {}
    BY <1>4, EntryAssumption DEF LeaveThrown, MaybeIndex, Inv, TypeOK
  <2>2. rec \in Entries \cup Tokens BY DEF Inv, TypeOK, Tokens
  <2> QED BY <1>4, <2>1, <2>2, IndexThrownKeeps
<1> QED BY <1>1, <1>2, <1>3, <1>4 DEF SendThrows
-----------------------------------------------------------------------------
(* The invariant. *)

LEMMA InitHolds == Init => Inv
<1> SUFFICES ASSUME Init PROVE Inv
  OBVIOUS
<1>1. \A e \in Entries : file[e] = <<>>
  BY DEF Init
<1>2. Len(index) = 0 /\ 1 .. Len(index) = {} /\ 1 .. reader = {}
  BY DEF Init
<1>3. TypeOK
  <2>1. Spare \in Nat /\ 0 \in 0 .. Copies /\ A \in Entries /\ 0 \in 0 .. Len(DupScript)
    BY NamespaceBounds, EntryAssumption, DupScriptType DEF Init, Spare, Entries
  <2>2. file \in [Entries -> Seq({"data"} \cup Tokens)]
    BY DEF Init
  <2>3. index \in Seq(Entries \cup Tokens)
    BY DEF Init
  <2>4. -1 \in -1 .. Len(index) BY <1>2
  <2>5. /\ published = 0 /\ acked = 0 /\ crashes = 0 /\ slow = 0 /\ sendFails = 0
        /\ call \in Calls /\ node = FALSE /\ failTopic = FALSE /\ listed = FALSE
        /\ polled = FALSE /\ failedServices = FALSE
        /\ short = {} /\ topics = {} /\ pc = "idle" /\ todo = {} /\ cur = A /\ sent = 0
        /\ reader = -1 /\ nameTable = {} /\ harmed = {}
    BY DEF Init
  <2>6. published \in 0 .. Copies /\ acked \in 0 .. published
    BY <2>1, <2>5
  <2> QED BY <2>1, <2>2, <2>3, <2>4, <2>5, <2>6 DEF TypeOK, Labels
<1>4. UploadInOrder
  BY <1>1, <1>2
     DEF Init, UploadInOrder, ControlInOrder, NamedFirst, PurgedInOrder, SentInOrder,
         Entries
<1> QED
  BY <1>1, <1>2, <1>3, <1>4
     DEF Init, Inv, FilesUploadedOnce, IndexEofMeansFiles, ListedIsBound, Entries

LEMMA NextKeeps == Inv /\ [Next]_vars => Inv'
<1> SUFFICES ASSUME Inv, [Next]_vars PROVE Inv'
  OBVIOUS
<1>1. CASE Command \/ Query \/ Receive \/ StopReceiving \/ ListenForFails
  BY <1>1, ShellKeeps
<1>2. CASE Waited \/ Restored \/ \E e \in Entries : Lower(e) \/ Restore(e)
  BY <1>2, PurgesKeep
<1>3. CASE Run \/ SendFail \/ Ack \/ Crash
  BY <1>3, EndsKeep
<1>4. CASE \E e \in Entries : NextEntry(e) \/ Purge(e)
  BY <1>4, NextEntryKeeps, CleanerKeeps
<1>5. CASE SendData \/ SendEof
  <2>1. cur \in Files \/ (SendData /\ cur \notin Files)
    BY <1>5 DEF Inv, TypeOK, UploadInOrder, SentInOrder, SendEof, ControlInOrder
  <2> QED BY <1>5, <2>1, DirectoryKeeps, FileRecordKeeps
<1>6. CASE Deliver \/ List
  BY <1>6, DeliverKeeps, ListKeeps
<1>7. CASE SendName \/ SendIndexEof \/ SendIndexErr \/ DupSends \/ SendThrows
  BY <1>7, SendNameKeeps, SendTokenKeeps, DupKeeps, SendThrowsKeeps
<1>8. CASE UNCHANGED vars
  BY <1>8
     DEF vars, broker, kafka, worker, shell, faults, Inv, TypeOK, Spare, UploadInOrder,
         ControlInOrder, NamedFirst, PurgedInOrder, SentInOrder, Named, Whole, Clean,
         FilesUploadedOnce, IndexEofMeansFiles, ListedIsBound
<1> QED BY <1>1, <1>2, <1>3, <1>4, <1>5, <1>6, <1>7, <1>8 DEF Next, Work

LEMMA SpecKeeps == Spec => []Inv
BY InitHolds, NextKeeps, PTL DEF Spec

\* Every variable has its type, for archives and scripts of any size.
THEOREM NamespaceTypeCorrect == Spec => []TypeOK
<1>1. Inv => TypeOK BY DEF Inv
<1> QED BY <1>1, SpecKeeps, PTL

\* A file is named before it is sent, and what a dead worker left of it is
\* gone before the next one sends: the invariant the others rest on.
THEOREM UploadsInOrder == Spec => []UploadInOrder
<1>1. Inv => UploadInOrder BY DEF Inv
<1> QED BY <1>1, SpecKeeps, PTL

\* What can be read of a file is a part of one upload.
THEOREM UploadedOnce == Spec => []FilesUploadedOnce
<1>1. Inv => FilesUploadedOnce BY DEF Inv
<1> QED BY <1>1, SpecKeeps, PTL

\* A closed index was complete when it was closed.
THEOREM ClosedIndexIsComplete == Spec => []IndexEofMeansFiles
<1>1. Inv => IndexEofMeansFiles BY DEF Inv
<1> QED BY <1>1, SpecKeeps, PTL

\* A shell that has listed the directory has bound all of it.
THEOREM ListedIsComplete == Spec => []ListedIsBound
<1>1. Inv => ListedIsBound BY DEF Inv
<1> QED BY <1>1, SpecKeeps, PTL

\* No later worker, and not the log cleaner, touches a finished file.
THEOREM FinishedStay == Spec => FinishedFilesStay
<1> DEFINE Stays == \A e \in Entries :
             Finished(e) /\ call # "dup" /\ e \notin harmed' => file'[e] = file[e]
<1>1. Inv /\ [Next]_vars => [Stays]_vars
  <2> SUFFICES ASSUME Inv, Next, NEW e \in Entries, Finished(e), call # "dup",
                      e \notin harmed'
               PROVE  file'[e] = file[e]
    BY DEF vars
  <2>1. harmed \subseteq harmed' \/ \E x \in Entries : Purge(x)
    BY DEF Next, Work, Command, Deliver, List, Waited, Restored, Run, Lower, Restore,
           NextEntry, SendName, SendData, SendEof, SendIndexEof, SendIndexErr, DupSends,
           SendFail, Ack, Crash, SendThrows, LeaveThrown, SkipThrown, Query, Receive,
           StopReceiving, ListenForFails, ToIndex, ToFile, faults
  <2>2. CASE \E x \in Entries : Purge(x)
    <3>1. PICK x \in Entries : Purge(x) BY <2>2
    <3>2. UNCHANGED harmed /\ x \in short /\ file' = [file EXCEPT ![x] = <<>>]
      BY <3>1 DEF Purge, faults
    <3>3. Whole(e) BY <3>2, FinishedIsWhole DEF Inv, FilesUploadedOnce
    <3>4. e # x BY <3>2, <3>3 DEF Inv, UploadInOrder, PurgedInOrder
    <3> QED BY <3>2, <3>4 DEF Inv, TypeOK
  <2>5. CASE SendThrows
    <3>1. CASE e = cur /\ SkipThrown
      BY <3>1 DEF SkipThrown
    <3>2. CASE e # cur /\ SkipThrown
      BY <3>2 DEF SkipThrown, MaybeFile, Inv, TypeOK
    <3>3. CASE LeaveThrown
      <4>1. pc # "dup" BY DEF Inv, UploadInOrder, ControlInOrder
      <4> QED BY <3>3, <4>1 DEF LeaveThrown, MaybeIndex
    <3> QED BY <2>5, <3>1, <3>2, <3>3 DEF SendThrows
  <2>3. CASE harmed \subseteq harmed' /\ (SendData \/ SendEof)
    <3>1. Whole(e) BY <2>3, FinishedIsWhole DEF Inv, FilesUploadedOnce
    <3>2. cur \notin harmed' => file[cur] # <<"data", "eof">>
      BY <2>3, Uploads
         DEF Inv, UploadInOrder, SentInOrder, SendData, SendEof
    <3>3. /\ file' = file \/ \E rec \in {"data", "eof"} :
                               file' = [file EXCEPT ![cur] = Append(@, rec)]
      BY <2>3 DEF SendData, SendEof, ToFile, kafka
    <3> QED BY <3>1, <3>2, <3>3 DEF Inv, TypeOK, Whole
  <2>4. CASE ~ (SendData \/ SendEof \/ SendThrows) /\ ~ \E x \in Entries : Purge(x)
    BY <2>4
       DEF Inv, UploadInOrder, ControlInOrder, Next, Work, Command, Deliver, List, Waited,
           Restored, Run, Lower, Restore, NextEntry, SendName, SendIndexEof,
           SendIndexErr, DupSends, SendFail, Ack, Crash, Query, Receive, StopReceiving,
           ListenForFails, ToIndex, kafka
  <2> QED BY <2>1, <2>2, <2>3, <2>4, <2>5
<1>2. [][Stays]_vars => FinishedFilesStay
  BY PTL DEF FinishedFilesStay
<1> QED BY <1>1, <1>2, SpecKeeps, PTL DEF Spec
=============================================================================
