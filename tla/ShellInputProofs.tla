--------------------------- MODULE ShellInputProofs ---------------------------
(***************************************************************************)
(* Theorems about ShellInput, for any number of lines and expired polls:   *)
(* the listeners that outlive their result are those whose poll expired,   *)
(* and nobody else takes a line that was typed at a prompt.                *)
(***************************************************************************)
EXTENDS ShellInput, TLAPS

Inv == TypeOK /\ InputInOrder

LEMMA InputInit == Init => Inv
<1> SUFFICES ASSUME Init PROVE Inv
  OBVIOUS
<1>1. eof \in BOOLEAN BY DEF Init
<1>2. TypeOK
  BY <1>1, InputAssumption DEF Init, TypeOK, Shows, Main, Nobody, Line
<1>3. InputInOrder
  BY InputAssumption
     DEF Init, InputInOrder, ListenersAreOwned, PromptLinesReachTheLoop, Alive, Showing,
         Shows, Main, Nobody
<1> QED BY <1>2, <1>3 DEF Inv

\* What is behind the head of the input was not typed at a prompt.
LEMMA TailIsNotPrompted ==
    ASSUME Inv, stdin # <<>>, NEW k \in 1 .. Len(Tail(stdin))
    PROVE  Tail(stdin)[k].at # "prompt"
<1>1. stdin \in Seq(Line) BY DEF Inv, TypeOK
<1>2. k + 1 \in 1 .. Len(stdin) /\ Tail(stdin)[k] = stdin[k + 1] /\ k + 1 # 1
  BY <1>1
<1> QED BY <1>2 DEF Inv, InputInOrder

\* The user.
LEMMA TypeKeeps == ASSUME Inv, NEW text \in Texts, Type(text) PROVE Inv'
<1>1. PICK at \in {"prompt", "show", "between"} :
        /\ at = "prompt" => stdin = <<>> /\ main \in {"prompt", "reading"}
        /\ stdin' = Append(stdin, [text |-> text, at |-> at])
  BY DEF Type
<1>2. stdin \in Seq(Line) /\ [text |-> text, at |-> at] \in Line
  BY DEF Inv, TypeOK, Line
<1>3. /\ stdin' \in Seq(Line) /\ Len(stdin') = Len(stdin) + 1
      /\ \A k \in 1 .. Len(stdin) : stdin'[k] = stdin[k]
      /\ stdin'[Len(stdin) + 1] = [text |-> text, at |-> at]
  BY <1>1, <1>2
<1>4. TypeOK'
  BY <1>3, InputAssumption
     DEF Type, Inv, TypeOK, loop, threads, Shows
<1>5. \A k \in 1 .. Len(stdin') :
        stdin'[k].at = "prompt" => k = 1 /\ main' \in {"prompt", "reading"}
  <2> SUFFICES ASSUME NEW k \in 1 .. Len(stdin'), stdin'[k].at = "prompt"
               PROVE  k = 1 /\ main \in {"prompt", "reading"}
    BY DEF Type, loop
  <2>1. CASE k \in 1 .. Len(stdin)
    BY <2>1, <1>3 DEF Inv, InputInOrder
  <2>2. CASE k = Len(stdin) + 1
    <3>1. at = "prompt" BY <2>2, <1>3
    <3> QED BY <3>1, <2>2, <1>1
  <2> QED BY <2>1, <2>2, <1>2, <1>3
<1>6. shows + Len(stdin') + (IF main = "handle" THEN 1 ELSE 0) =< typed + 1
  BY <1>3, <1>2 DEF Inv, TypeOK, InputInOrder
<1> QED
  BY <1>4, <1>5, <1>6
     DEF Type, Inv, InputInOrder, ListenersAreOwned, PromptLinesReachTheLoop, Alive,
         Showing, loop, threads

LEMMA LessIsMore ==
    \A a, b, k, x, y, t \in Int :
        a + x =< b + y /\ b + k + y =< t => a + k + x =< t
OBVIOUS

\* A step that touches neither the input nor its monitor keeps InputInOrder if
\* it keeps what InputInOrder says of the command loop and the listeners.
LEMMA QuietStep ==
    ASSUME Inv, TypeOK', UNCHANGED <<stdin, typed, eof, inside, taken>>,
           main \in {"prompt", "reading"} => main' \in {"prompt", "reading"},
           main' = "reading" <=> main = "reading",
           shows' + (IF main' = "handle" THEN 1 ELSE 0)
               =< shows + (IF main = "handle" THEN 1 ELSE 0),
           main' \in {"show", "join"} => shows' > 0,
           \A i \in Shows : listener'[i] = "reading" <=> listener[i] = "reading",
           \A i \in Shows : i > shows' => listener'[i] = "none",
           ListenersAreOwned', expired \subseteq expired'
    PROVE  Inv'
<1>1. \A k \in 1 .. Len(stdin') :
        stdin'[k].at = "prompt" => k = 1 /\ main' \in {"prompt", "reading"}
  BY DEF Inv, InputInOrder
<1>2. PromptLinesReachTheLoop'
  BY DEF Inv, InputInOrder, PromptLinesReachTheLoop
<1>3. shows' + Len(stdin') + (IF main' = "handle" THEN 1 ELSE 0) =< typed'
  <2>1. /\ Len(stdin) \in Nat /\ Len(stdin') = Len(stdin) /\ typed' = typed
        /\ typed \in Int /\ shows \in Int /\ shows' \in Int
    BY InputAssumption DEF Inv, TypeOK
  <2>2. shows + Len(stdin) + (IF main = "handle" THEN 1 ELSE 0) =< typed
    BY DEF Inv, InputInOrder
  <2> DEFINE h == IF main = "handle" THEN 1 ELSE 0
             hp == IF main' = "handle" THEN 1 ELSE 0
  <2>3. h \in Int /\ hp \in Int /\ shows' + hp =< shows + h
        /\ shows + Len(stdin) + h =< typed
    BY <2>2
  <2> SUFFICES shows' + Len(stdin) + hp =< typed BY <2>1
  <2> HIDE DEF h, hp
  <2>4. Len(stdin) \in Int BY <2>1
  <2> QED BY <2>1, <2>3, <2>4, LessIsMore
<1>4. /\ inside' = Main <=> main' = "reading"
      /\ \A i \in Shows : inside' = i <=> listener'[i] = "reading"
  BY DEF Inv, InputInOrder
<1>5. InputInOrder' BY <1>1, <1>2, <1>3, <1>4 DEF InputInOrder
<1> QED BY <1>5 DEF Inv

\* The command loop.
LEMMA LoopKeeps == ASSUME Inv, Loop \/ TokenArrives \/ PollExpires PROVE Inv'
<1> USE InputAssumption DEF Inv
<1>1. CASE MainEnters
  <2>1. TypeOK' BY <1>1 DEF MainEnters, Enter, TypeOK, threads, Main
  <2> QED
    BY <1>1, <2>1
       DEF MainEnters, Enter, InputInOrder, ListenersAreOwned, PromptLinesReachTheLoop,
           Alive, Showing, threads, Main, Nobody, Shows, TypeOK
<1>8. CASE main = "reading" /\ TakeNull(Main) /\ main' = "thrown"
             /\ UNCHANGED <<shows, expired, threads>>
  <2>1. /\ UNCHANGED <<stdin, typed, eof, shows, expired, listener, wait, wakeup, taken>>
        /\ stdin = <<>> /\ inside = Main /\ inside' = Nobody /\ main' = "thrown"
    BY <1>8 DEF TakeNull, threads
  <2>2. TypeOK' BY <2>1 DEF TypeOK
  <2>3. \A i \in Shows : inside' = i <=> listener'[i] = "reading"
    BY <2>1 DEF InputInOrder, Main, Nobody, Shows
  <2>4. shows' + Len(stdin') + (IF main' = "handle" THEN 1 ELSE 0) =< typed'
    BY <1>8, <2>1 DEF InputInOrder, TypeOK
  <2>5. PromptLinesReachTheLoop' /\ ListenersAreOwned'
    BY <1>8, <2>1
       DEF InputInOrder, PromptLinesReachTheLoop, ListenersAreOwned, Alive, Showing
  <2> QED
    BY <2>1, <2>2, <2>3, <2>4, <2>5 DEF InputInOrder, Main, Nobody
<1>2. CASE MainReads /\ TakeLine(Main)
  <2>1. /\ stdin # <<>> /\ stdin \in Seq(Line) /\ main = "reading"
        /\ main' \in {"closing", "handle", "prompt"}
        /\ stdin' = Tail(stdin) /\ inside' = Nobody /\ typed' = typed
        /\ taken' \subseteq taken \cup {Main}
        /\ UNCHANGED <<eof, shows, expired, listener, wait, wakeup>>
    BY <1>2 DEF MainReads, TakeLine, TakeNull, TypeOK, threads
  <2>2. stdin' \in Seq(Line) /\ Len(stdin') = Len(stdin) - 1 BY <2>1
  <2>3. TypeOK' BY <2>1, <2>2 DEF TypeOK, Main
  <2>4. \A k \in 1 .. Len(stdin') : stdin'[k].at # "prompt"
    BY <2>1, TailIsNotPrompted
  <2>5. PromptLinesReachTheLoop' /\ ListenersAreOwned'
    BY <2>1 DEF InputInOrder, PromptLinesReachTheLoop, ListenersAreOwned, Alive, Showing
  <2>6. shows' + Len(stdin') + (IF main' = "handle" THEN 1 ELSE 0) =< typed'
    BY <2>1, <2>2 DEF InputInOrder, TypeOK
  <2>7. \A i \in Shows : inside' = i <=> listener'[i] = "reading"
    BY <2>1 DEF InputInOrder, Main, Nobody, Shows
  <2> QED
    BY <2>1, <2>3, <2>4, <2>5, <2>6, <2>7 DEF InputInOrder, Main, Nobody
<1>3. CASE StartListener
  <2>1. shows + 1 \in Shows
    BY <1>3 DEF StartListener, InputInOrder, TypeOK, Shows
  <2>2. TypeOK' BY <1>3, <2>1 DEF StartListener, TypeOK, Shows
  <2>3. ListenersAreOwned'
    BY <1>3, <2>1
       DEF StartListener, InputInOrder, ListenersAreOwned, Alive, Showing, TypeOK, Shows
  <2>4. /\ \A i \in Shows : listener'[i] = "reading" <=> listener[i] = "reading"
        /\ \A i \in Shows : i > shows' => listener'[i] = "none"
    BY <1>3, <2>1 DEF StartListener, InputInOrder, TypeOK, Shows
  <2> QED
    BY <1>3, <2>2, <2>3, <2>4, QuietStep DEF StartListener, TypeOK
<1>4. CASE TokenArrives \/ ThrowWakeup
  <2>1. /\ main = "show" /\ main' = "join"
        /\ UNCHANGED <<stdin, typed, eof, inside, shows, expired, listener, taken>>
    BY <1>4 DEF TokenArrives, ThrowWakeup, Break
  <2>2. shows \in Shows BY <2>1 DEF TypeOK, InputInOrder, Shows
  <2>3. TypeOK'
    BY <1>4, <2>1, <2>2 DEF TokenArrives, ThrowWakeup, Break, TypeOK
  <2>4. ListenersAreOwned'
    BY <2>1 DEF InputInOrder, ListenersAreOwned, Alive, Showing
  <2> QED BY <2>1, <2>3, <2>4, QuietStep DEF InputInOrder, TypeOK
<1>5. CASE PollExpires
  <2>1. /\ main = "show" /\ main' = "prompt" /\ expired' = expired \cup {shows}
        /\ UNCHANGED <<stdin, typed, eof, inside, shows, listener, wait, wakeup, taken>>
    BY <1>5 DEF PollExpires, threads
  <2>2. shows \in Shows BY <2>1 DEF TypeOK, InputInOrder, Shows
  <2>3. TypeOK' BY <2>1, <2>2 DEF TypeOK
  <2>4. ListenersAreOwned'
    BY <2>1 DEF InputInOrder, ListenersAreOwned, Alive, Showing
  <2> QED BY <2>1, <2>3, <2>4, QuietStep DEF InputInOrder, TypeOK
<1>6. CASE Join
  <2>1. /\ main = "join" /\ main' = "prompt" /\ listener[shows] = "gone"
        /\ UNCHANGED <<stdin, typed, eof, inside, shows, expired, listener, wait, wakeup,
                       taken>>
    BY <1>6 DEF Join, threads
  <2>2. TypeOK' BY <2>1 DEF TypeOK
  <2>3. ListenersAreOwned'
    BY <2>1 DEF InputInOrder, ListenersAreOwned, Alive, Showing
  <2> QED BY <2>1, <2>2, <2>3, QuietStep DEF InputInOrder, TypeOK
<1>7. CASE Close
  <2>1. /\ main = "closing" /\ main' = "ended"
        /\ UNCHANGED <<stdin, typed, eof, inside, shows, expired, listener, wait, wakeup,
                       taken>>
    BY <1>7 DEF Close, threads
  <2>2. TypeOK' BY <2>1 DEF TypeOK
  <2>3. ListenersAreOwned'
    BY <2>1 DEF InputInOrder, ListenersAreOwned, Alive, Showing
  <2> QED BY <2>1, <2>2, <2>3, QuietStep DEF InputInOrder, TypeOK
<1> QED BY <1>1, <1>2, <1>3, <1>4, <1>5, <1>6, <1>7, <1>8 DEF Loop, MainReads, TakeLine, TakeNull

\* The listeners.
LEMMA ListenKeeps == ASSUME Inv, NEW i \in Shows, Listen(i) PROVE Inv'
<1> USE InputAssumption DEF Inv
<1>1. i =< shows /\ (Alive(i) => i \in expired \/ (Showing /\ i = shows))
  BY DEF Listen, Ready, Slept, ListenerEnters, ListenerReads, Wake, InputInOrder,
         ListenersAreOwned, TypeOK, Shows
<1>2. CASE Ready(i) \/ Slept(i) \/ Wake(i)
  <2>1. /\ UNCHANGED <<stdin, typed, eof, inside, main, shows, expired, taken>>
        /\ Alive(i) /\ listener[i] # "reading"
        /\ \E label \in {"check", "sleep", "enter", "wake", "gone"} :
             listener' = [listener EXCEPT ![i] = label]
    BY <1>2 DEF Ready, Slept, Wake, Goto, Alive, loop
  <2>2. TypeOK' BY <1>2, <2>1 DEF Ready, Slept, Wake, TypeOK
  <2>3. ListenersAreOwned'
    BY <1>1, <2>1 DEF InputInOrder, ListenersAreOwned, Alive, Showing, TypeOK
  <2>4. \A j \in Shows : listener'[j] = "reading" <=> listener[j] = "reading"
    BY <2>1 DEF TypeOK
  <2>5. \A j \in Shows : j > shows' => listener'[j] = "none"
    <3>1. shows \in Int /\ \A j \in Shows : j \in Int BY DEF TypeOK, Shows
    <3>2. \A j \in Shows : j > shows => j # i /\ listener[j] = "none"
      BY <1>1, <3>1 DEF InputInOrder
    <3> QED BY <2>1, <3>2 DEF TypeOK
  <2> QED BY <2>1, <2>2, <2>3, <2>4, <2>5, QuietStep DEF InputInOrder, TypeOK
<1>3. CASE ListenerEnters(i)
  <2>1. /\ UNCHANGED <<stdin, typed, eof, main, shows, expired, wait, wakeup, taken>>
        /\ listener[i] = "enter" /\ inside = Nobody
        /\ \/ inside' = i /\ listener' = [listener EXCEPT ![i] = "reading"]
           \/ inside' = inside /\ listener' = [listener EXCEPT ![i] = "gone"]
    BY <1>3 DEF ListenerEnters, Enter, Goto, loop
  <2>2. TypeOK' BY <2>1 DEF TypeOK
  <2>3. ListenersAreOwned' /\ PromptLinesReachTheLoop'
    BY <1>1, <2>1 DEF InputInOrder, ListenersAreOwned, PromptLinesReachTheLoop, Alive,
                      Showing, TypeOK
  <2>4. /\ inside' = Main <=> main' = "reading"
        /\ \A j \in Shows : inside' = j <=> listener'[j] = "reading"
        /\ \A j \in Shows : j > shows' => listener'[j] = "none"
    BY <1>1, <2>1 DEF InputInOrder, TypeOK, Shows, Main, Nobody
  <2> QED BY <2>1, <2>2, <2>3, <2>4 DEF InputInOrder
<1>5. CASE listener[i] = "reading" /\ TakeNull(i) /\ Goto(i, "gone")
             /\ UNCHANGED <<loop, wait, wakeup>>
  <2>1. /\ UNCHANGED <<stdin, typed, eof, main, shows, expired, wait, wakeup, taken>>
        /\ inside = i /\ inside' = Nobody
        /\ listener' = [listener EXCEPT ![i] = "gone"]
    BY <1>5 DEF TakeNull, Goto, loop
  <2>2. TypeOK' BY <2>1 DEF TypeOK
  <2>3. ListenersAreOwned' /\ PromptLinesReachTheLoop'
    BY <2>1 DEF InputInOrder, ListenersAreOwned, PromptLinesReachTheLoop, Alive, Showing,
                TypeOK
  <2>4. /\ inside' = Main <=> main' = "reading"
        /\ \A j \in Shows : inside' = j <=> listener'[j] = "reading"
        /\ \A j \in Shows : j > shows' => listener'[j] = "none"
    BY <1>1, <2>1 DEF InputInOrder, TypeOK, Shows, Main, Nobody
  <2> QED BY <2>1, <2>2, <2>3, <2>4 DEF InputInOrder
<1>4. CASE ListenerReads(i) /\ TakeLine(i)
  <2>1. /\ UNCHANGED <<typed, eof, main, shows, expired, wait, wakeup>>
        /\ listener[i] = "reading" /\ inside = i /\ inside' = Nobody
        /\ stdin # <<>> /\ stdin \in Seq(Line) /\ stdin' = Tail(stdin)
        /\ taken' = IF Head(stdin).at = "prompt" THEN taken \cup {i} ELSE taken
        /\ \E label \in {"wake", "check"} : listener' = [listener EXCEPT ![i] = label]
    BY <1>4 DEF ListenerReads, TakeLine, TakeNull, Goto, loop, TypeOK
  <2>2. stdin' \in Seq(Line) /\ Len(stdin') = Len(stdin) - 1 BY <2>1
  <2>3. TypeOK' BY <2>1, <2>2 DEF TypeOK
  <2>4. \A k \in 1 .. Len(stdin') : stdin'[k].at # "prompt"
    BY <2>1, TailIsNotPrompted
  <2>5. Head(stdin).at = "prompt" => i \in expired
    <3>1. 1 \in 1 .. Len(stdin) /\ Head(stdin) = stdin[1] BY <2>1
    <3> QED BY <1>1, <2>1, <3>1 DEF InputInOrder, Alive, Showing
  <2>6. PromptLinesReachTheLoop'
    BY <2>1, <2>5 DEF InputInOrder, PromptLinesReachTheLoop
  <2>7. ListenersAreOwned'
    BY <1>1, <2>1 DEF InputInOrder, ListenersAreOwned, Alive, Showing, TypeOK
  <2>8. /\ inside' = Main <=> main' = "reading"
        /\ \A j \in Shows : inside' = j <=> listener'[j] = "reading"
        /\ \A j \in Shows : j > shows' => listener'[j] = "none"
    BY <1>1, <2>1 DEF InputInOrder, TypeOK, Shows, Main, Nobody
  <2>9. shows' + Len(stdin') + (IF main' = "handle" THEN 1 ELSE 0) =< typed'
    BY <2>1, <2>2 DEF InputInOrder, TypeOK
  <2> QED BY <2>1, <2>3, <2>4, <2>6, <2>7, <2>8, <2>9 DEF InputInOrder
<1> QED BY <1>2, <1>3, <1>4, <1>5 DEF Listen, ListenerReads

\* Every reachable state is well formed and its input in order.
THEOREM InputIsInOrder == Spec => []Inv
<1>1. Inv /\ [Next]_vars => Inv'
  <2> SUFFICES ASSUME Inv, [Next]_vars PROVE Inv'
    OBVIOUS
  <2>1. CASE Next /\ ~ EndInput
    BY <2>1, TypeKeeps, LoopKeeps, ListenKeeps DEF Next
  <2>3. CASE EndInput
    <3>1. eof' \in BOOLEAN BY <2>3 DEF EndInput
    <3> QED
      BY <2>3, <3>1 DEF EndInput, loop, threads, Inv, TypeOK, InputInOrder,
         ListenersAreOwned, PromptLinesReachTheLoop, Alive, Showing
  <2>2. CASE UNCHANGED vars
    BY <2>2 DEF vars, loop, threads, Inv, TypeOK, InputInOrder, ListenersAreOwned,
                PromptLinesReachTheLoop, Alive, Showing
  <2> QED BY <2>1, <2>2, <2>3
<1> QED BY InputInit, <1>1, PTL DEF Spec

\* The states of the command loop and of the listeners are well formed.
THEOREM InputTypeCorrect == Spec => []TypeOK
<1>1. Inv => TypeOK BY DEF Inv
<1> QED BY InputIsInOrder, <1>1, PTL

\* A thread that outlives the result it was started for belongs to a query
\* whose poll expired.
THEOREM NoListenerLeaks == Spec => []ListenersAreOwned
<1>1. Inv => ListenersAreOwned BY DEF Inv, InputInOrder
<1> QED BY InputIsInOrder, <1>1, PTL

\* No listener of a result takes a line that was typed at a prompt, unless its
\* poll expired.
THEOREM NoLineIsStolen == Spec => []PromptLinesReachTheLoop
<1>1. Inv => PromptLinesReachTheLoop BY DEF Inv, InputInOrder
<1> QED BY InputIsInOrder, <1>1, PTL
=============================================================================
