---------------------------- MODULE FileImportProofs ----------------------------
(***************************************************************************)
(* Theorems about FileImport, for any number of shells, files and faults:  *)
(* however the imports of a file overlap or end, what is read of it up to  *)
(* its eof is the content of one, unless two were sending it at once.      *)
(***************************************************************************)
EXTENDS FileImport, TLAPS

Inv == TypeOK /\ ImportedInOrder /\ SentInOrder

LEMMA Types ==
    ASSUME TypeOK, NEW s \in Sessions
    PROVE  /\ File(s) \in Files /\ spc[s] \in Labels /\ pos[s] \in Nat
           /\ shown[s] \in Seq(Sessions) /\ bound[s] \subseteq Files
           /\ log[File(s)] \in Seq(Sessions \cup {Eof})
BY DEF TypeOK, File

\* What a step may do to the topics.
LEMMA LogGrows ==
    ASSUME TypeOK, [Next]_vars
    PROVE  /\ \/ log' = log
              \/ \E s \in Sessions, r \in Sessions \cup {Eof} :
                   /\ Send(File(s), r)
                   /\ (r = s /\ spc[s] = "send") \/ (r = Eof /\ spc[s] = "eof")
           /\ topics' = topics \/ \E f \in Files : topics' = topics \cup {f}
<1> DEFINE Grows == /\ \/ log' = log
                       \/ \E s \in Sessions, r \in Sessions \cup {Eof} :
                            /\ Send(File(s), r)
                            /\ (r = s /\ spc[s] = "send") \/ (r = Eof /\ spc[s] = "eof")
                    /\ topics' = topics \/ \E f \in Files : topics' = topics \cup {f}
<1>1. ASSUME UNCHANGED kafka PROVE Grows
  BY <1>1 DEF kafka
<1>2. ASSUME NEW s \in Sessions, NEW r \in Sessions \cup {Eof}, Send(File(s), r),
             (r = s /\ spc[s] = "send") \/ (r = Eof /\ spc[s] = "eof")
      PROVE  Grows
  <2>1. topics' = topics \cup {File(s)} /\ File(s) \in Files BY <1>2, Types DEF Send
  <2> QED BY <1>2, <2>1
<1>3. ASSUME NEW s \in Sessions, NEW f \in Files, Query(s, f) PROVE Grows
  BY <1>3 DEF Query
<1>4. ASSUME NEW s \in Sessions, SendContent(s) \/ SendEof(s) \/ Throws(s) PROVE Grows
  BY <1>1, <1>2, <1>4 DEF SendContent, SendEof, Throws
<1>5. ASSUME NEW s \in Sessions,
             Start(s) \/ HasQueue(s) \/ Bind(s) \/ Show(s) \/ StopShowing(s) \/ Crash(s)
      PROVE  Grows
  BY <1>1, <1>5 DEF Start, HasQueue, Bind, Show, StopShowing, Crash
<1>6. CASE UNCHANGED vars BY <1>1, <1>6 DEF vars
<1> QED BY <1>3, <1>4, <1>5, <1>6 DEF Next, Import

LEMMA NextType == ASSUME TypeOK, [Next]_vars PROVE TypeOK'
<1> USE ImportAssumption DEF Goto, Labels, Files
<1>1. log' \in [Files -> Seq(Sessions \cup {Eof})] /\ topics' \subseteq Files
  <2>1. log \in [Files -> Seq(Sessions \cup {Eof})] BY DEF TypeOK
  <2>2. ASSUME NEW s \in Sessions, NEW r \in Sessions \cup {Eof}, Send(File(s), r)
        PROVE  log' \in [Files -> Seq(Sessions \cup {Eof})]
    <3>1. Append(log[File(s)], r) \in Seq(Sessions \cup {Eof}) BY Types
    <3> QED BY <2>1, <2>2, <3>1 DEF Send
  <2>3. topics \subseteq Files BY DEF TypeOK
  <2> QED BY <2>1, <2>2, <2>3, LogGrows
<1>2. ASSUME NEW s \in Sessions, HasQueue(s) \/ SendContent(s) \/ SendEof(s) \/ Start(s) \/ StopShowing(s)
      PROVE  TypeOK'
  <2>1. spc' \in [Sessions -> Labels]
        /\ UNCHANGED <<at, bound, query, spoiled, fault>>
    BY <1>2 DEF TypeOK, HasQueue, GoSend, SendContent, SendEof, Start, StopShowing
  <2>2. raced' \subseteq Files
    BY <1>2, Types DEF TypeOK, HasQueue, GoSend, SendContent, SendEof, Start, StopShowing
  <2> QED BY <1>1, <2>1, <2>2 DEF TypeOK, query, fault
<1>3. ASSUME NEW s \in Sessions, Throws(s) PROVE TypeOK'
  <2>1. spoiled' \subseteq Files
    BY <1>3, Types DEF TypeOK, Throws
  <2>2. /\ spc' = [spc EXCEPT ![s] = "bind"]
        /\ failures' \in 0 .. MaxFailures
        /\ UNCHANGED <<at, bound, query, raced, crashes>>
    BY <1>3 DEF TypeOK, Throws
  <2> QED BY <1>1, <2>1, <2>2 DEF TypeOK, query
<1>4. ASSUME NEW s \in Sessions, Bind(s) PROVE TypeOK'
  <2>1. bound' \in [Sessions -> SUBSET Files]
    BY <1>4, Types DEF TypeOK, Bind
  <2>2. at' \in [Sessions -> Files]
    <3>1. at \in [Sessions -> Files] /\ (at[s] < FileCount => at[s] + 1 \in Files)
      BY DEF TypeOK
    <3> QED BY <1>4, <3>1 DEF Bind
  <2> QED BY <1>1, <1>4, <2>1, <2>2 DEF TypeOK, Bind, query, fault
<1>5. ASSUME NEW s \in Sessions, NEW f \in Files, Query(s, f) PROVE TypeOK'
  BY <1>1, <1>5 DEF TypeOK, Query, fault
<1>6. ASSUME NEW s \in Sessions, Show(s) PROVE TypeOK'
  <2> DEFINE rec == log[File(s)][pos[s] + 1]
  <2>1. rec \in Sessions \cup {Eof} BY <1>6, Types DEF Show
  <2>2. shown' \in [Sessions -> Seq(Sessions)]
    <3>1. shown' = shown \/ (rec \in Sessions /\ shown' = [shown EXCEPT ![s] = Append(@, rec)])
      BY <1>6, <2>1 DEF Show
    <3> HIDE DEF rec
    <3>2. rec \in Sessions => Append(shown[s], rec) \in Seq(Sessions) BY Types
    <3> QED BY <3>1, <3>2 DEF TypeOK
  <2>3. given' \in [Files -> SUBSET Seq(Sessions)]
    <3>1. given' = given \/ given' = [given EXCEPT ![File(s)] = @ \cup {shown[s]}]
      BY <1>6 DEF Show
    <3>2. given \in [Files -> SUBSET Seq(Sessions)] /\ File(s) \in Files
          /\ shown[s] \in Seq(Sessions)
      BY Types DEF TypeOK
    <3>3. given[File(s)] \cup {shown[s]} \subseteq Seq(Sessions) BY <3>2
    <3> QED BY <3>1, <3>2, <3>3
  <2>4. /\ spc' \in [Sessions -> Labels] /\ pos' \in [Sessions -> Nat]
        /\ UNCHANGED <<kafka, at, bound, spoiled, raced, fault>>
    <3>1. spc' = spc \/ spc' = [spc EXCEPT ![s] = "prompt"]
      BY <1>6 DEF Show
    <3>2. /\ pos' = [pos EXCEPT ![s] = @ + 1]
          /\ UNCHANGED <<kafka, at, bound, spoiled, raced, fault>>
      BY <1>6 DEF Show
    <3>3. /\ spc \in [Sessions -> Labels] /\ pos \in [Sessions -> Nat] BY DEF TypeOK
    <3>4. spc' \in [Sessions -> Labels] BY <3>1, <3>3
    <3>5. pos' \in [Sessions -> Nat] BY <3>2, <3>3
    <3> QED BY <3>2, <3>4, <3>5
  <2> QED BY <1>1, <2>2, <2>3, <2>4 DEF TypeOK, fault
<1>7. ASSUME NEW s \in Sessions, Crash(s) PROVE TypeOK'
  <2>1. spoiled' \subseteq Files
    BY <1>7, Types DEF TypeOK, Crash
  <2> QED BY <1>1, <1>7, <2>1 DEF TypeOK, Crash, kafka
<1>8. CASE UNCHANGED vars
  BY <1>8 DEF TypeOK, vars, kafka, query, fault
<1> QED BY <1>2, <1>3, <1>4, <1>5, <1>6, <1>7, <1>8 DEF Next, Import
-----------------------------------------------------------------------------
(* Topics only grow. *)

LEMMA LogPrefix ==
    ASSUME TypeOK, [Next]_vars, NEW f \in Files
    PROVE  /\ log[f] \in Seq(Sessions \cup {Eof}) /\ log'[f] \in Seq(Sessions \cup {Eof})
           /\ Len(log[f]) =< Len(log'[f])
           /\ \A k \in 1 .. Len(log[f]) : log'[f][k] = log[f][k]
<1>1. log \in [Files -> Seq(Sessions \cup {Eof})] BY DEF TypeOK
<1>2. CASE log' = log BY <1>1, <1>2
<1>3. ASSUME NEW g, NEW r \in Sessions \cup {Eof}, log' = [log EXCEPT ![g] = Append(@, r)]
      PROVE  /\ log'[f] \in Seq(Sessions \cup {Eof})
             /\ Len(log[f]) =< Len(log'[f])
             /\ \A k \in 1 .. Len(log[f]) : log'[f][k] = log[f][k]
  <2>1. log'[f] = log[f] \/ log'[f] = Append(log[f], r) BY <1>1, <1>3
  <2>2. log[f] \in Seq(Sessions \cup {Eof}) BY <1>1
  <2>3. CASE log'[f] = log[f] BY <2>2, <2>3
  <2>4. CASE log'[f] = Append(log[f], r)
    <3>1. /\ Append(log[f], r) \in Seq(Sessions \cup {Eof})
          /\ Len(Append(log[f], r)) = Len(log[f]) + 1 /\ Len(log[f]) \in Nat
          /\ \A k \in 1 .. Len(log[f]) : Append(log[f], r)[k] = log[f][k]
      BY <2>2
    <3> QED BY <2>4, <3>1
  <2> QED BY <2>1, <2>3, <2>4
<1> QED BY <1>1, <1>2, <1>3, LogGrows DEF Send

LEMMA StartsKept ==
    ASSUME TypeOK, [Next]_vars, NEW f \in Files, NEW x \in Seq(Sessions), Starts(x, f)
    PROVE  /\ Starts(x, f)'
           /\ Len(x) < Len(log[f]) => Len(x) < Len(log'[f])
                                      /\ log'[f][Len(x) + 1] = log[f][Len(x) + 1]
<1>1. /\ Len(x) \in Nat /\ Len(log[f]) \in Nat /\ Len(log'[f]) \in Nat
      /\ Len(log[f]) =< Len(log'[f])
      /\ \A k \in 1 .. Len(log[f]) : log'[f][k] = log[f][k]
  BY LogPrefix
<1> QED BY <1>1 DEF Starts

LEMMA ClosedKept ==
    ASSUME TypeOK, [Next]_vars, NEW f \in Files, Closed(f)
    PROVE  Closed(f)'
<1>1. /\ Len(log[f]) \in Nat /\ Len(log'[f]) \in Nat
      /\ Len(log[f]) =< Len(log'[f])
      /\ \A k \in 1 .. Len(log[f]) : log'[f][k] = log[f][k]
  BY LogPrefix
<1> QED BY <1>1 DEF Closed

\* An eof closes its topic.
LEMMA EofCloses ==
    ASSUME TypeOK, NEW f \in Files, Send(f, Eof)
    PROVE  Closed(f)'
<1>1. log'[f] = Append(log[f], Eof) /\ log[f] \in Seq(Sessions \cup {Eof})
  BY DEF TypeOK, Send
<1>2. Len(log'[f]) \in 1 .. Len(log'[f]) /\ log'[f][Len(log'[f])] = Eof BY <1>1
<1> QED BY <1>2 DEF Closed

\* Whoever is between the two sends closes the file or spoils it.
LEMMA WholeKept ==
    ASSUME TypeOK, [Next]_vars, NEW f \in Files, Whole(f)
    PROVE  Whole(f)'
<1>1. CASE Closed(f) BY <1>1, ClosedKept DEF Whole
<1>2. CASE f \in spoiled
  <2>1. spoiled \subseteq spoiled'
    BY DEF Next, vars, Start, Import, HasQueue, SendContent, SendEof, Throws, Bind, Query,
       Show, StopShowing, Crash
  <2> QED BY <1>2, <2>1 DEF Whole
<1>3. ASSUME NEW t \in Sessions, spc[t] = "eof", File(t) = f
      PROVE  Whole(f)'
  <2>1. CASE spc'[t] = "eof" /\ at'[t] = at[t]
    BY <1>3, <2>1 DEF Whole, File
  <2>2. CASE SendEof(t)
    BY <1>3, <2>2, EofCloses DEF Whole, SendEof
  <2>3. CASE Throws(t) \/ Crash(t)
    <3>1. f \in spoiled' BY <1>3, <2>3 DEF Throws, Crash
    <3> QED BY <3>1 DEF Whole
  <2>4. \/ spc'[t] = "eof" /\ at'[t] = at[t]
        \/ SendEof(t) \/ Throws(t) \/ Crash(t)
    <3>1. spc \in [Sessions -> Labels] /\ at \in [Sessions -> Files] BY DEF TypeOK
    <3>2. ASSUME NEW s \in Sessions, s # t,
                 \/ Start(s) \/ Import(s) \/ Throws(s) \/ (\E g \in Files : Query(s, g))
                 \/ Show(s) \/ StopShowing(s) \/ Crash(s)
          PROVE  spc'[t] = spc[t] /\ at'[t] = at[t]
      <4>1. /\ spc' = spc \/ \E x : spc' = [spc EXCEPT ![s] = x]
            /\ at' = at \/ \E x : at' = [at EXCEPT ![s] = x]
        BY <3>2 DEF Start, Import, HasQueue, GoSend, SendContent, SendEof, Throws, Bind, Query,
           Show, StopShowing, Crash, Goto
      <4> QED BY <3>1, <3>2, <4>1
    <3>3. ~ (Start(t) \/ HasQueue(t) \/ SendContent(t) \/ Bind(t) \/ Show(t) \/ StopShowing(t)
             \/ \E g \in Files : Query(t, g))
      BY <1>3 DEF Start, HasQueue, SendContent, Bind, Show, StopShowing, Query
    <3>4. UNCHANGED vars => spc'[t] = spc[t] /\ at'[t] = at[t] BY DEF vars
    <3> QED BY <1>3, <3>2, <3>3, <3>4 DEF Next, Import, Files
  <2> QED BY <2>1, <2>2, <2>3, <2>4
<1> QED BY <1>1, <1>2, <1>3 DEF Whole
-----------------------------------------------------------------------------
(* ImportedInOrder is inductive. *)

OfSession(s) ==
    /\ spc[s] = "show" => pos[s] = Len(shown[s]) /\ Starts(shown[s], File(s))
    /\ spc[s] = "eof" => log[File(s)] # <<>>
    /\ spc[s] = "bind" => Whole(File(s))
    /\ \A f \in bound[s] : Whole(f)

OfFile(f) ==
    /\ \A x \in given[f] : Starts(x, f) /\ Len(x) < Len(log[f]) /\ log[f][Len(x) + 1] = Eof
    /\ log[f] # <<>> => log[f][1] # Eof
    /\ f \in topics => Whole(f)
    /\ log[f] # <<>> => f \in topics

LEMMA NonEmptyKept ==
    ASSUME TypeOK, [Next]_vars, NEW f \in Files, log[f] # <<>>
    PROVE  log'[f] # <<>> /\ log'[f][1] = log[f][1]
<1>1. /\ log[f] \in Seq(Sessions \cup {Eof}) /\ log'[f] \in Seq(Sessions \cup {Eof})
      /\ Len(log[f]) =< Len(log'[f])
      /\ \A k \in 1 .. Len(log[f]) : log'[f][k] = log[f][k]
  BY LogPrefix
<1>2. Len(log[f]) >= 1 BY <1>1
<1> QED BY <1>1, <1>2

\* A session none of whose state the step touches.
LEMMA BystanderKept ==
    ASSUME Inv, [Next]_vars, NEW s \in Sessions,
           spc'[s] = spc[s], at'[s] = at[s], pos'[s] = pos[s], shown'[s] = shown[s],
           bound'[s] = bound[s]
    PROVE  OfSession(s)'
<1>1. File(s) \in Files /\ shown[s] \in Seq(Sessions) /\ bound[s] \subseteq Files
  BY Types DEF Inv
<1>2. File(s)' = File(s) BY DEF File
<1>3. OfSession(s) BY DEF Inv, ImportedInOrder, OfSession
<1>4. ASSUME Starts(shown[s], File(s)) PROVE Starts(shown[s], File(s))'
  <2>1. \A x \in Seq(Sessions), f \in Files : Starts(x, f) => Starts(x, f)'
    BY StartsKept DEF Inv
  <2>2. Len(shown[s]) =< Len(log'[File(s)])
        /\ \A k \in 1 .. Len(shown[s]) : shown[s][k] = log'[File(s)][k]
    BY <1>1, <1>4, <2>1 DEF Starts
  <2> QED BY <1>2, <2>2 DEF Starts
<1>5. ASSUME log[File(s)] # <<>> PROVE (log[File(s)] # <<>>)'
  <2>1. \A f \in Files : log[f] # <<>> => log'[f] # <<>> BY NonEmptyKept DEF Inv
  <2> QED BY <1>1, <1>2, <1>5, <2>1
<1>6. \A f \in Files : Whole(f) => Whole(f)' BY WholeKept DEF Inv
<1>7. ASSUME Whole(File(s)) PROVE Whole(File(s))'
  BY <1>1, <1>2, <1>6, <1>7 DEF Whole, Closed
<1> QED BY <1>1, <1>3, <1>4, <1>5, <1>6, <1>7 DEF OfSession

LEMMA SessionKept ==
    ASSUME Inv, [Next]_vars, NEW s \in Sessions
    PROVE  OfSession(s)'
<1> USE DEF Goto
<1>1. /\ spc \in [Sessions -> Labels] /\ at \in [Sessions -> Files]
      /\ bound \in [Sessions -> SUBSET Files] /\ pos \in [Sessions -> Nat]
      /\ shown \in [Sessions -> Seq(Sessions)] /\ File(s) \in Files
      /\ log[File(s)] \in Seq(Sessions \cup {Eof})
  BY Types DEF Inv, TypeOK
<1>2. OfSession(s) BY DEF Inv, ImportedInOrder, OfSession
<1>3. /\ \A f \in Files : Whole(f) => Whole(f)'
      /\ \A f \in bound[s] : Whole(f)'
  BY <1>1, <1>2, WholeKept DEF Inv, OfSession
<1> DEFINE Same == /\ spc'[s] = spc[s] /\ at'[s] = at[s] /\ pos'[s] = pos[s]
                   /\ shown'[s] = shown[s] /\ bound'[s] = bound[s]
<1>4. CASE Same BY <1>4, BystanderKept
\* Steps after which s is at none of the labels the invariant speaks of.
<1>5. ASSUME spc'[s] \notin {"show", "eof", "bind"}, bound'[s] \subseteq bound[s]
      PROVE  OfSession(s)'
  BY <1>3, <1>5 DEF OfSession
<1>6. ASSUME spc'[s] = "bind", Whole(File(s))', bound'[s] = bound[s] PROVE OfSession(s)'
  BY <1>3, <1>6 DEF OfSession
<1>7. CASE Start(s) \/ StopShowing(s) \/ Crash(s)
  <2>1. spc'[s] \in {"exists", "prompt", "off"} BY <1>1, <1>7 DEF Start, StopShowing, Crash
  <2>2. bound'[s] \subseteq bound[s] BY <1>1, <1>7 DEF Start, StopShowing, Crash
  <2> QED BY <1>5, <2>1, <2>2
<1>8. CASE HasQueue(s)
  <2>1. /\ bound' = bound /\ at' = at
        /\ spc'[s] \in {"again", "send"} \/ (spc'[s] = "bind" /\ File(s) \in topics)
    BY <1>1, <1>8 DEF HasQueue, GoSend
  <2>2. File(s) \in topics => Whole(File(s))'
    <3>1. File(s) \in topics => Whole(File(s)) BY <1>1 DEF Inv, ImportedInOrder
    <3>2. Whole(File(s)) => \A f : f = File(s) => Whole(f)' BY <1>1, <1>3
    <3> QED BY <2>1, <3>1, <3>2 DEF File, Whole, Closed
  <2> QED BY <1>5, <1>6, <2>1, <2>2
<1>9. CASE SendContent(s)
  <2>1. log'[File(s)] # <<>>
    <3>1. log'[File(s)] = Append(log[File(s)], s)
      BY <1>1, <1>9 DEF SendContent, Send, Inv, TypeOK
    <3>2. Len(Append(log[File(s)], s)) = Len(log[File(s)]) + 1 /\ Len(log[File(s)]) \in Nat
      BY <1>1
    <3>3. Len(log'[File(s)]) # 0 BY <3>1, <3>2
    <3> QED BY <3>3
  <2>2. spc'[s] = "eof" /\ at' = at /\ bound' = bound BY <1>1, <1>9 DEF SendContent
  <2> QED BY <1>3, <2>1, <2>2 DEF OfSession, File
<1>10. CASE SendEof(s)
  <2>1. \A f : f = File(s) => Closed(f)' BY <1>1, <1>10, EofCloses DEF SendEof, Inv
  <2>2. spc'[s] = "bind" /\ at' = at /\ bound' = bound BY <1>1, <1>10 DEF SendEof
  <2>3. Whole(File(s))' BY <2>1, <2>2 DEF Whole, File, Closed
  <2> QED BY <1>6, <2>2, <2>3
<1>11. CASE Throws(s)
  <2>1. /\ spc'[s] = "bind" /\ at' = at /\ bound' = bound /\ File(s) \in spoiled'
    BY <1>1, <1>11 DEF Throws
  <2>2. Whole(File(s))' BY <2>1 DEF Whole, File
  <2> QED BY <1>6, <2>1, <2>2
<1>12. CASE Bind(s)
  <2>1. /\ spc'[s] \in {"exists", "prompt"} /\ bound'[s] = bound[s] \cup {File(s)}
        /\ Whole(File(s))
    BY <1>1, <1>2, <1>12 DEF Bind, OfSession
  <2>2. \A f \in bound'[s] : Whole(f)' BY <1>1, <1>3, <2>1
  <2> QED BY <2>1, <2>2 DEF OfSession
<1>13. ASSUME NEW f \in Files, Query(s, f) PROVE OfSession(s)'
  <2>1. /\ spc'[s] = "show" /\ bound' = bound /\ log' = log /\ pos'[s] = 0
        /\ shown'[s] = <<>> /\ at'[s] = f
    BY <1>1, <1>13 DEF Query
  <2>2. Len(log[f]) \in Nat BY DEF Inv, TypeOK
  <2>3. Starts(shown[s], File(s))' /\ pos'[s] = Len(shown'[s]) BY <2>1, <2>2 DEF Starts, File
  <2> QED BY <1>3, <2>1, <2>3 DEF OfSession
<1>14. CASE Show(s)
  <2> DEFINE rec == log[File(s)][pos[s] + 1]
  <2>1. /\ bound' = bound /\ at' = at /\ log' = log /\ pos'[s] = pos[s] + 1
        /\ pos[s] < Len(log[File(s)]) /\ spc[s] = "show"
    BY <1>1, <1>14 DEF Show, kafka
  <2>2. pos[s] = Len(shown[s]) /\ Starts(shown[s], File(s)) BY <1>2, <2>1 DEF OfSession
  <2>3. CASE rec = Eof
    <3>1. spc'[s] = "prompt" BY <1>1, <1>14, <2>3 DEF Show
    <3> QED BY <1>5, <2>1, <3>1
  <2>4. CASE rec # Eof
    <3>1. rec \in Sessions /\ pos[s] + 1 \in 1 .. Len(log[File(s)]) BY <1>1, <2>1, <2>4
    <3>2. spc' = spc /\ shown'[s] = Append(shown[s], rec) BY <1>1, <1>14, <2>4 DEF Show
    <3> HIDE DEF rec
    <3>3. /\ Len(Append(shown[s], rec)) = Len(shown[s]) + 1
          /\ \A k \in 1 .. Len(shown[s]) : Append(shown[s], rec)[k] = shown[s][k]
          /\ Append(shown[s], rec)[Len(shown[s]) + 1] = rec
          /\ Len(shown[s]) \in Nat /\ Len(log[File(s)]) \in Nat
      BY <1>1, <3>1
    <3>4. \A k \in 1 .. Len(shown[s]) + 1 :
            k \in 1 .. Len(shown[s]) \/ k = Len(shown[s]) + 1
      BY <3>3
    <3>5. rec = log[File(s)][Len(shown[s]) + 1] BY <2>2 DEF rec
    <3>6. Starts(Append(shown[s], rec), File(s))
      BY <2>1, <2>2, <3>3, <3>4, <3>5 DEF Starts
    <3>7. Starts(shown[s], File(s))' BY <2>1, <3>2, <3>6 DEF Starts, File
    <3>8. pos'[s] = Len(shown'[s]) BY <2>1, <2>2, <3>2, <3>3
    <3> QED BY <1>3, <2>1, <3>2, <3>7, <3>8 DEF OfSession
  <2> QED BY <2>3, <2>4
<1>15. ASSUME NEW t \in Sessions, t # s,
              \/ Start(t) \/ Import(t) \/ Throws(t) \/ (\E f \in Files : Query(t, f))
              \/ Show(t) \/ StopShowing(t) \/ Crash(t)
       PROVE  Same
  <2>1. /\ spc' = spc \/ \E x : spc' = [spc EXCEPT ![t] = x]
        /\ at' = at \/ \E x : at' = [at EXCEPT ![t] = x]
    BY <1>15 DEF Start, Import, HasQueue, GoSend, SendContent, SendEof, Throws, Bind, Query,
       Show, StopShowing, Crash
  <2>2. /\ pos' = pos \/ \E x : pos' = [pos EXCEPT ![t] = x]
        /\ shown' = shown \/ \E x : shown' = [shown EXCEPT ![t] = x]
        /\ bound' = bound \/ \E x : bound' = [bound EXCEPT ![t] = x]
    BY <1>15 DEF Start, Import, HasQueue, SendContent, SendEof, Throws, Bind, Query,
       Show, StopShowing, Crash, query
  <2> QED BY <1>1, <1>15, <2>1, <2>2
<1>16. CASE UNCHANGED vars BY <1>4, <1>16 DEF vars, query
<1> QED BY <1>4, <1>7, <1>8, <1>9, <1>10, <1>11, <1>12, <1>13, <1>14, <1>15, <1>16
        DEF Next, Import

LEMMA FileKept ==
    ASSUME Inv, [Next]_vars, NEW f \in Files
    PROVE  OfFile(f)'
<1> USE DEF Goto
<1>1. /\ log \in [Files -> Seq(Sessions \cup {Eof})] /\ given \in [Files -> SUBSET Seq(Sessions)]
      /\ log[f] \in Seq(Sessions \cup {Eof}) /\ Len(log[f]) \in Nat
  BY DEF Inv, TypeOK
<1>2. OfFile(f) BY DEF Inv, ImportedInOrder, OfFile
<1>3. \A s \in Sessions :
        /\ File(s) \in Files /\ shown[s] \in Seq(Sessions)
        /\ OfSession(s)
  BY Types DEF Inv, ImportedInOrder, OfSession
<1>4. Whole(f) => Whole(f)' BY WholeKept DEF Inv
\* The endings seen so far stay where they are, and the next is one of them.
<1>5. ASSUME NEW x \in given'[f]
      PROVE  Starts(x, f)' /\ Len(x) < Len(log'[f]) /\ log'[f][Len(x) + 1] = Eof
  <2>1. \A y \in Seq(Sessions) :
          Starts(y, f) /\ Len(y) < Len(log[f]) /\ log[f][Len(y) + 1] = Eof
            => Starts(y, f)' /\ Len(y) < Len(log'[f]) /\ log'[f][Len(y) + 1] = Eof
    BY StartsKept DEF Inv
  <2>2. CASE x \in given[f] BY <1>1, <1>2, <2>1, <2>2 DEF OfFile
  <2>3. ASSUME NEW s \in Sessions, Show(s), x \notin given[f]
        PROVE  /\ x \in Seq(Sessions) /\ Starts(x, f) /\ Len(x) < Len(log[f])
               /\ log[f][Len(x) + 1] = Eof
    <3>1. /\ File(s) = f /\ x = shown[s] /\ pos[s] < Len(log[f])
          /\ log[f][pos[s] + 1] = Eof /\ spc[s] = "show"
      BY <1>1, <1>3, <2>3 DEF Show
    <3>2. pos[s] = Len(shown[s]) /\ Starts(shown[s], f) BY <1>3, <3>1 DEF OfSession
    <3> QED BY <1>3, <3>1, <3>2
  <2>4. given' = given \/ \E s \in Sessions : Show(s)
    BY DEF Next, vars, Start, Import, HasQueue, SendContent, SendEof, Throws, Bind, Query,
       StopShowing, Crash, query
  <2> QED BY <2>1, <2>2, <2>3, <2>4
\* The first record is a content: an eof is sent after one.
<1>6. log'[f] # <<>> => log'[f][1] # Eof
  <2>1. CASE log[f] # <<>> BY <1>2, <2>1, NonEmptyKept DEF OfFile, Inv
  <2>2. CASE log' = log BY <1>2, <2>2 DEF OfFile
  <2>3. ASSUME NEW s \in Sessions, NEW r \in Sessions \cup {Eof}, Send(File(s), r),
               (r = s /\ spc[s] = "send") \/ (r = Eof /\ spc[s] = "eof"), log[f] = <<>>
        PROVE  log'[f] # <<>> => log'[f][1] # Eof
    <3>1. File(s) # f => log'[f] = <<>> BY <1>1, <1>3, <2>3 DEF Send
    <3>2. ASSUME File(s) = f PROVE log'[f] = <<s>> /\ s # Eof
      <4>1. spc[s] # "eof" BY <1>3, <2>3, <3>2 DEF OfSession
      <4>2. log'[f] = Append(<<>>, s) BY <1>1, <2>3, <3>2, <4>1 DEF Send
      <4> QED BY <4>2, ImportAssumption
    <3> QED BY <3>1, <3>2
  <2> QED BY <2>1, <2>2, <2>3, LogGrows DEF Inv
<1>7. ASSUME f \in topics' PROVE Whole(f)'
  <2>1. CASE f \in topics BY <1>2, <1>4, <2>1 DEF OfFile
  <2>2. ASSUME NEW s \in Sessions, SendContent(s), File(s) = f PROVE Whole(f)'
    <3>1. spc'[s] = "eof" /\ at' = at BY <2>2 DEF SendContent, Inv, TypeOK
    <3> QED BY <2>2, <3>1 DEF Whole, File
  <2>3. ASSUME NEW s \in Sessions, SendEof(s), File(s) = f PROVE Whole(f)'
    BY <2>3, EofCloses DEF SendEof, Whole, Inv
  <2>4. ASSUME NEW s \in Sessions, Throws(s), File(s) = f PROVE Whole(f)'
    <3>1. f \in spoiled' BY <2>4 DEF Throws
    <3> QED BY <3>1 DEF Whole
  <2>5. ASSUME NEW s \in Sessions, Query(s, f) PROVE Whole(f)'
    BY <1>3, <1>4, <2>5 DEF Query, OfSession
  <2>6. \/ f \in topics
        \/ \E s \in Sessions : (SendContent(s) \/ SendEof(s) \/ Throws(s)) /\ File(s) = f
        \/ \E s \in Sessions : Query(s, f)
    BY <1>7 DEF Next, vars, Start, Import, HasQueue, SendContent, SendEof, Throws, Bind, Query,
       Show, StopShowing, Crash, kafka, Send
  <2> QED BY <2>1, <2>2, <2>3, <2>4, <2>5, <2>6
<1>8. log'[f] # <<>> => f \in topics'
  <2>1. topics \subseteq topics' BY LogGrows DEF Inv
  <2>2. log'[f] = log[f] \/ f \in topics'
    BY <1>1, LogGrows DEF Inv, Send
  <2> QED BY <1>2, <2>1, <2>2 DEF OfFile
<1> QED BY <1>5, <1>6, <1>7, <1>8 DEF OfFile
-----------------------------------------------------------------------------
(* SentInOrder is inductive. *)

\* Who comes to the send of a file has found no topic, and marks the file if
\* somebody is there.
LEMMA Arrival ==
    ASSUME TypeOK, [Next]_vars, NEW s \in Sessions, spc'[s] = "send"
    PROVE  /\ at'[s] = at[s]
           /\ \/ spc[s] = "send"
              \/ /\ spc[s] # "send" /\ File(s) \notin topics /\ log' = log
                 /\ \A t \in Sessions : AboutToSend(t, File(s)) => File(s) \in raced'
                 /\ \A t \in Sessions \ {s} : spc'[t] = spc[t] /\ at'[t] = at[t]
<1> USE DEF Goto
<1>1. spc \in [Sessions -> Labels] /\ at \in [Sessions -> Files] BY DEF TypeOK
<1>2. CASE UNCHANGED vars BY <1>2 DEF vars
<1>3. ASSUME NEW t \in Sessions, t # s,
             \/ Start(t) \/ Import(t) \/ Throws(t) \/ (\E g \in Files : Query(t, g))
             \/ Show(t) \/ StopShowing(t) \/ Crash(t)
      PROVE  spc'[s] = spc[s] /\ at'[s] = at[s]
  <2>1. /\ spc' = spc \/ \E x : spc' = [spc EXCEPT ![t] = x]
        /\ at' = at \/ \E x : at' = [at EXCEPT ![t] = x]
    BY <1>3 DEF Start, Import, HasQueue, GoSend, SendContent, SendEof, Throws, Bind, Query,
       Show, StopShowing, Crash
  <2> QED BY <1>1, <1>3, <2>1
<1>4. ASSUME \/ Start(s) \/ SendContent(s) \/ SendEof(s) \/ Bind(s) \/ Throws(s)
             \/ (\E g \in Files : Query(s, g)) \/ StopShowing(s) \/ Crash(s)
      PROVE  FALSE
  BY <1>1, <1>4
     DEF Start, SendContent, SendEof, Throws, Bind, Query, StopShowing, Crash
<1>5. Show(s) => spc'[s] = spc[s] /\ at' = at
  BY <1>1 DEF Show
<1>6. ASSUME HasQueue(s)
      PROVE  /\ at' = at /\ log' = log /\ spc[s] # "send" /\ File(s) \notin topics
             /\ \A t \in Sessions : AboutToSend(t, File(s)) => File(s) \in raced'
             /\ \A t \in Sessions \ {s} : spc'[t] = spc[t]
  <2>1. /\ at' = at /\ log' = log /\ spc[s] # "send"
        /\ \E x : spc' = [spc EXCEPT ![s] = x]
    BY <1>6 DEF HasQueue, GoSend, kafka
  <2>2. File(s) \notin topics /\ GoSend(s) BY <1>1, <1>6 DEF HasQueue
  <2> QED BY <1>1, <2>1, <2>2 DEF GoSend, AboutToSend
<1> QED BY <1>2, <1>3, <1>4, <1>5, <1>6 DEF Next, Import

\* Who sends is at the send no longer, and everybody else stays where he is.
LEMMA Departure ==
    ASSUME TypeOK, [Next]_vars
    PROVE  \/ log' = log
           \/ \E s \in Sessions, r \in Sessions \cup {Eof} :
                /\ Send(File(s), r) /\ raced' = raced /\ spc'[s] # "send"
                /\ (r = s /\ spc[s] = "send") \/ (r = Eof /\ spc[s] = "eof")
<1>1. spc \in [Sessions -> Labels] BY DEF TypeOK
<1> DEFINE Sent(s, r) == /\ Send(File(s), r) /\ raced' = raced /\ spc'[s] # "send"
                         /\ (r = s /\ spc[s] = "send") \/ (r = Eof /\ spc[s] = "eof")
<1>2. ASSUME NEW s \in Sessions, SendContent(s) PROVE Sent(s, s)
  BY <1>1, <1>2 DEF SendContent, Goto
<1>3. ASSUME NEW s \in Sessions, SendEof(s) PROVE Sent(s, Eof)
  BY <1>1, <1>3 DEF SendEof, Goto
<1>4. ASSUME NEW s \in Sessions, Throws(s) PROVE log' = log \/ Sent(s, s) \/ Sent(s, Eof)
  BY <1>1, <1>4 DEF Throws, Goto, kafka
<1>5. ASSUME NEW s \in Sessions,
             \/ Start(s) \/ HasQueue(s) \/ Bind(s) \/ (\E f \in Files : Query(s, f))
             \/ Show(s) \/ StopShowing(s) \/ Crash(s)
      PROVE  log' = log
  BY <1>5 DEF Start, HasQueue, Bind, Query, Show, StopShowing, Crash, kafka
<1>6. UNCHANGED vars => log' = log BY DEF vars, kafka
<1> QED BY <1>2, <1>3, <1>4, <1>5, <1>6 DEF Next, Import

LEMMA RacedGrows ==
    ASSUME [Next]_vars
    PROVE  raced \subseteq raced'
BY DEF Next, vars, Start, Import, HasQueue, GoSend, SendContent, SendEof, Throws, Bind, Query,
   Show, StopShowing, Crash

LEMMA SentKept ==
    ASSUME Inv, [Next]_vars
    PROVE  SentInOrder'
<1>1. /\ TypeOK /\ SentInOrder
      /\ log \in [Files -> Seq(Sessions \cup {Eof})]
      /\ \A f \in Files : log[f] \in Seq(Sessions \cup {Eof}) /\ Len(log[f]) \in Nat
      /\ \A s \in Sessions : File(s) \in Files /\ s # Eof
  BY Types, ImportAssumption DEF Inv, TypeOK
<1>2. \A f \in Files : f \notin topics => log[f] = <<>>
  BY DEF Inv, ImportedInOrder
<1>3. \A s \in Sessions : spc[s] = "eof" => log[File(s)] # <<>>
  BY DEF Inv, ImportedInOrder
<1> SUFFICES ASSUME NEW f \in Files
             PROVE  /\ \A s \in Sessions : AboutToSend(s, f)' =>
                         /\ \A k \in 1 .. Len(log'[f]) : log'[f][k] # s
                         /\ f \notin raced' =>
                              /\ log'[f] = <<>>
                              /\ \A t \in Sessions : AboutToSend(t, f)' => t = s
                    /\ \A j, k \in 1 .. Len(log'[f]) :
                         log'[f][j] = log'[f][k] /\ log'[f][j] # Eof => j = k
                    /\ f \notin raced' => \A k \in 2 .. Len(log'[f]) : log'[f][k] = Eof
  BY DEF SentInOrder
\* What the step may append to the topic of f.
<1>4. \/ log'[f] = log[f]
      \/ \E t \in Sessions : /\ log'[f] = Append(log[f], t) /\ AboutToSend(t, f)
                             /\ raced' = raced /\ spc'[t] # "send"
      \/ log'[f] = Append(log[f], Eof) /\ log[f] # <<>>
  BY <1>1, <1>3, Departure DEF Send, AboutToSend
<1>5. \A r : LET new == Append(log[f], r) IN
        /\ Len(new) = Len(log[f]) + 1 /\ new[Len(log[f]) + 1] = r
        /\ \A k \in 1 .. Len(new) : k \in 1 .. Len(log[f]) \/ k = Len(log[f]) + 1
        /\ \A k \in 1 .. Len(log[f]) : new[k] = log[f][k]
  BY <1>1
<1>6. ASSUME NEW s \in Sessions, AboutToSend(s, f)'
      PROVE  /\ \A k \in 1 .. Len(log'[f]) : log'[f][k] # s
             /\ f \notin raced' =>
                  log'[f] = <<>> /\ \A t \in Sessions : AboutToSend(t, f)' => t = s
  <2>1. spc'[s] = "send" /\ at'[s] = f BY <1>6 DEF AboutToSend, File
  <2>2. CASE spc[s] # "send"
    <3>1. /\ at[s] = f /\ f \notin topics /\ log' = log
          /\ \A t \in Sessions : AboutToSend(t, f) => f \in raced'
          /\ \A t \in Sessions \ {s} : spc'[t] = spc[t] /\ at'[t] = at[t]
      BY <1>1, <2>1, <2>2, Arrival DEF File
    <3>2. log'[f] = <<>> BY <1>2, <3>1
    <3>3. \A t \in Sessions \ {s} : AboutToSend(t, f)' => f \in raced'
      BY <3>1 DEF AboutToSend, File
    <3> QED BY <3>2, <3>3
  <2>3. CASE spc[s] = "send"
    <3>1. AboutToSend(s, f) BY <1>1, <2>1, <2>3, Arrival DEF AboutToSend, File
    <3>2. /\ \A k \in 1 .. Len(log[f]) : log[f][k] # s
          /\ f \notin raced =>
               log[f] = <<>> /\ \A t \in Sessions : AboutToSend(t, f) => t = s
      BY <1>1, <3>1 DEF SentInOrder
    <3>3. \A k \in 1 .. Len(log'[f]) : log'[f][k] # s
      <4>1. log'[f] = log[f] \/ \E r : r # s /\ log'[f] = Append(log[f], r)
        BY <1>1, <1>4, <2>1
      <4> QED BY <1>5, <3>2, <4>1
    <3>4. ASSUME f \notin raced' PROVE log'[f] = <<>>
      BY <1>4, <2>1, <3>2, <3>4, RacedGrows
    <3>5. ASSUME f \notin raced', NEW t \in Sessions, AboutToSend(t, f)' PROVE t = s
      <4>1. spc'[t] = "send" /\ at'[t] = f BY <3>5 DEF AboutToSend, File
      <4>2. AboutToSend(t, f)
        BY <1>1, <3>1, <3>5, <4>1, Arrival DEF AboutToSend, File
      <4> QED BY <3>2, <3>5, <4>2, RacedGrows
    <3> QED BY <3>3, <3>4, <3>5
  <2> QED BY <2>2, <2>3
<1>7. ASSUME NEW j \in 1 .. Len(log'[f]), NEW k \in 1 .. Len(log'[f]),
             log'[f][j] = log'[f][k], log'[f][j] # Eof
      PROVE  j = k
  <2>1. CASE log'[f] = log[f] BY <1>1, <1>7, <2>1 DEF SentInOrder
  <2>2. ASSUME NEW r \in Sessions \cup {Eof}, log'[f] = Append(log[f], r),
               r = Eof \/ \A i \in 1 .. Len(log[f]) : log[f][i] # r
        PROVE  j = k
    BY <1>1, <1>5, <1>7, <2>2 DEF SentInOrder
  <2> QED BY <1>1, <1>4, <2>1, <2>2 DEF SentInOrder
<1>8. ASSUME f \notin raced', NEW k \in 2 .. Len(log'[f]) PROVE log'[f][k] = Eof
  <2>1. f \notin raced BY <1>8, RacedGrows
  <2>2. CASE log'[f] = log[f] BY <1>1, <1>8, <2>1, <2>2 DEF SentInOrder
  <2>3. CASE log'[f] = Append(log[f], Eof)
    <3>1. k \in 1 .. Len(log'[f]) BY <1>1, <1>5, <1>8, <2>3
    <3> QED BY <1>1, <1>5, <1>8, <2>1, <2>3, <3>1 DEF SentInOrder
  <2>4. ASSUME NEW t \in Sessions, log'[f] = Append(log[f], t), AboutToSend(t, f)
        PROVE  FALSE
    <3>1. log[f] = <<>> BY <1>1, <2>1, <2>4 DEF SentInOrder
    <3> QED BY <1>5, <1>8, <2>4, <3>1
  <2> QED BY <1>4, <2>2, <2>3, <2>4
<1> QED BY <1>6, <1>7, <1>8
-----------------------------------------------------------------------------
(* The theorems. *)

LEMMA InitInv == Init => Inv
<1> SUFFICES ASSUME Init PROVE Inv OBVIOUS
<1>1. TypeOK BY ImportAssumption DEF Init, TypeOK, Files, Labels
<1>2. ImportedInOrder BY DEF Init, ImportedInOrder, Whole
<1>3. SentInOrder BY DEF Init, SentInOrder, AboutToSend
<1> QED BY <1>1, <1>2, <1>3 DEF Inv

LEMMA NextInv == Inv /\ [Next]_vars => Inv'
<1> SUFFICES ASSUME Inv, [Next]_vars PROVE Inv' OBVIOUS
<1>1. TypeOK' BY NextType DEF Inv
<1>2. (\A s \in Sessions : OfSession(s)') /\ (\A f \in Files : OfFile(f)')
  BY SessionKept, FileKept
<1>3. ImportedInOrder' BY <1>2 DEF ImportedInOrder, OfSession, OfFile
<1> QED BY <1>1, <1>3, SentKept DEF Inv

LEMMA SpecInv == Spec => []Inv
BY InitInv, NextInv, PTL DEF Spec

\* Every reachable state is well formed.
THEOREM ImportTypeCorrect == Spec => []TypeOK
<1>1. Inv => TypeOK BY DEF Inv
<1> QED BY <1>1, SpecInv, PTL

\* The inductive invariant: what has been shown is where the topic starts, the
\* first record is a content, and what exists or is bound is whole, spoiled or
\* between its two sends.
THEOREM ImportsInOrder == Spec => []ImportedInOrder
<1>1. Inv => ImportedInOrder BY DEF Inv
<1> QED BY <1>1, SpecInv, PTL

\* Whoever is about to send a file has not sent it, and is alone with it unless
\* two were there at once.
THEOREM SendingInOrder == Spec => []SentInOrder
<1>1. Inv => SentInOrder BY DEF Inv
<1> QED BY <1>1, SpecInv, PTL

\* printResult of an imported file: up to its eof it is the content of one
\* import, with another one's behind it only if two were about to send at once.
THEOREM ShownFilesAreOneImport == Spec => []ShownIsOneImport
<1>1. Inv => ShownIsOneImport
  <2> SUFFICES ASSUME Inv, NEW f \in Files, NEW x \in given[f]
               PROVE  /\ x # <<>>
                      /\ \A j, k \in 1 .. Len(x) : x[j] = x[k] => j = k
                      /\ f \notin raced => Len(x) = 1
    BY DEF ShownIsOneImport
  <2>1. /\ x \in Seq(Sessions) /\ log[f] \in Seq(Sessions \cup {Eof})
        /\ Len(x) \in Nat /\ Len(log[f]) \in Nat
    BY DEF Inv, TypeOK
  <2>2. Starts(x, f) /\ Len(x) < Len(log[f]) /\ log[f][Len(x) + 1] = Eof
    BY DEF Inv, ImportedInOrder
  <2>3. \A k \in 1 .. Len(x) : x[k] = log[f][k] /\ x[k] # Eof /\ k \in 1 .. Len(log[f])
    BY <2>1, <2>2, ImportAssumption DEF Starts
  <2>4. x # <<>>
    <3> SUFFICES ASSUME x = <<>> PROVE FALSE OBVIOUS
    <3>1. log[f] # <<>> /\ log[f][1] = Eof BY <2>1, <2>2
    <3> QED BY <3>1 DEF Inv, ImportedInOrder
  <2>5. \A j, k \in 1 .. Len(x) : x[j] = x[k] => j = k
    BY <2>3 DEF Inv, SentInOrder
  <2>6. ASSUME f \notin raced PROVE Len(x) = 1
    <3>1. ASSUME 2 \in 1 .. Len(x) PROVE FALSE
      <4>1. 2 \in 2 .. Len(log[f]) BY <2>1, <2>2, <3>1
      <4>2. log[f][2] = Eof BY <2>6, <4>1 DEF Inv, SentInOrder
      <4>3. x[2] = log[f][2] /\ x[2] # Eof BY <2>3, <3>1
      <4> QED BY <4>2, <4>3
    <3>2. Len(x) # 0 BY <2>1, <2>4
    <3>3. ~ (2 =< Len(x)) BY <2>1, <3>1
    <3>4. \A n \in Nat : n # 0 /\ ~ (2 =< n) => n = 1 OBVIOUS
    <3> QED BY <2>1, <3>2, <3>3, <3>4
  <2> QED BY <2>4, <2>5, <2>6
<1> QED BY <1>1, SpecInv, PTL

\* importFile: a name is bound to a topic that is closed, or that the session
\* at it will close, unless an import of it was cut off.
THEOREM BoundFilesAreWhole == Spec => []BoundIsWhole
<1>1. Inv => BoundIsWhole
  BY DEF Inv, ImportedInOrder, BoundIsWhole, Whole, Importing
<1> QED BY <1>1, SpecInv, PTL
=============================================================================
