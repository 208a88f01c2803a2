------------------------------ MODULE ShellInput ------------------------------
(***************************************************************************)
(* Who reads what the user types.  The command loop of a shell (main of    *)
(* CmdLine.java) reads lines from stdIn; while printResult or              *)
(* receiveNamespace shows a result, a thread of its own, the               *)
(* cancelationListener, reads the same stdIn and waits for a "q".  Both    *)
(* use one BufferedReader, whose ready() and readLine() hold its monitor,  *)
(* readLine() also while it waits for a line.                              *)
(*                                                                         *)
(* The result itself is left out: records that are only shown change       *)
(* nothing here, and its token may come at any time or never.              *)
(***************************************************************************)
EXTENDS Integers, Sequences, FiniteSets

CONSTANTS
    MaxLines,     \* bound: lines the user types
    MaxExpired    \* bound: polls that find nothing for MAX_POLL ms

ASSUME InputAssumption == MaxLines \in Nat /\ MaxExpired \in Nat

(***************************************************************************)
(* A line is "q", a "query" (anything whose result is shown: $name, or a   *)
(* command without target) or "other".  at says where it was typed: at a   *)
(* prompt behind which no other line was waiting, while a result was       *)
(* shown, or in between.                                                   *)
(***************************************************************************)
Texts == {"q", "query", "other"}
Line == [text : Texts, at : {"prompt", "show", "between"}]

Shows == 1 .. MaxLines     \* the calls of printResult, in order
Main == 0                  \* the command loop, among the readers
Nobody == -1

VARIABLES
    stdin,      \* lines typed and not read yet
    typed,      \* how many were typed
    eof,        \* the input has ended: behind its last line readLine() returns null
    inside,     \* who is in readLine() and holds the monitor
    main,       \* control state of the command loop
    shows,      \* how often a result has been shown, numbers the listeners
    listener,   \* control state of each cancelationListener
    wait,       \* waitForCancelation of each of them
    wakeup,     \* consumer.wakeup() called and not yet thrown
    expired,    \* shows that were left by the exception of an empty poll
    taken       \* who has read the lines typed at a prompt so far

loop == <<main, shows, expired>>
threads == <<listener, wait, wakeup>>
vars == <<stdin, typed, eof, inside, loop, threads, taken>>

Init ==
    /\ stdin = <<>> /\ typed = 0 /\ eof = FALSE
    /\ inside = Nobody
    /\ main = "prompt" /\ shows = 0 /\ expired = {}
    /\ listener = [i \in Shows |-> "none"]
    /\ wait = [i \in Shows |-> TRUE]
    /\ wakeup = [i \in Shows |-> FALSE]
    /\ taken = {}

\* The user types a line.
Type(text) ==
    /\ typed < MaxLines /\ ~ eof /\ main # "ended"
    /\ typed' = typed + 1
    /\ \E at \in {"prompt", "show", "between"} :
         /\ at = "prompt" <=> stdin = <<>> /\ main \in {"prompt", "reading"}
         /\ at = "show" <=> main = "show"
         /\ stdin' = Append(stdin, [text |-> text, at |-> at])
    /\ UNCHANGED <<eof, inside, loop, threads, taken>>

\* The terminal or the pipe is closed.
EndInput ==
    /\ ~ eof
    /\ eof' = TRUE
    /\ UNCHANGED <<stdin, typed, inside, loop, threads, taken>>

\* Entering readLine() takes the monitor, which is kept until a line is there.
Enter(who) ==
    /\ inside = Nobody
    /\ inside' = who

\* readLine() returns a line and leaves the monitor.
TakeLine(who) ==
    /\ inside = who /\ stdin # <<>>
    /\ inside' = Nobody
    /\ stdin' = Tail(stdin)
    /\ taken' = IF Head(stdin).at = "prompt" THEN taken \cup {who} ELSE taken
    /\ UNCHANGED <<typed, eof>>

\* It returns null at the end of the input.
TakeNull(who) ==
    /\ inside = who /\ stdin = <<>> /\ eof
    /\ inside' = Nobody
    /\ UNCHANGED <<stdin, typed, eof, taken>>
-----------------------------------------------------------------------------
(* The command loop. *)

MainEnters ==
    /\ main = "prompt"
    /\ Enter(Main)
    /\ main' = "reading"
    /\ UNCHANGED <<stdin, typed, eof, shows, expired, threads, taken>>

\* line.length() throws for null: main ends, without closing stdIn.
MainReads ==
    /\ main = "reading"
    /\ \/ /\ TakeLine(Main)
          /\ \/ Head(stdin).text = "q" /\ main' = "closing"
             \/ Head(stdin).text = "query" /\ main' = "handle"
             \/ Head(stdin).text = "other" /\ main' = "prompt"
       \/ TakeNull(Main) /\ main' = "thrown"
    /\ UNCHANGED <<shows, expired, threads>>

\* printResult after the tasks were sent: a fresh consumer, flag and listener.
StartListener ==
    /\ main = "handle"
    /\ main' = "show"
    /\ shows' = shows + 1
    /\ listener' = [listener EXCEPT ![shows + 1] = "check"]
    /\ UNCHANGED <<stdin, typed, eof, inside, expired, wait, wakeup, taken>>

\* The end of the loop of printResult, with waitForCancelation.set(false).
Break ==
    /\ main' = "join"
    /\ wait' = [wait EXCEPT ![shows] = FALSE]

\* The token of the result has come.
TokenArrives ==
    /\ main = "show"
    /\ Break
    /\ UNCHANGED <<stdin, typed, eof, inside, shows, expired, listener, wakeup, taken>>

\* poll throws WakeupException.
ThrowWakeup ==
    /\ main = "show" /\ wakeup[shows]
    /\ Break
    /\ wakeup' = [wakeup EXCEPT ![shows] = FALSE]
    /\ UNCHANGED <<stdin, typed, eof, inside, shows, expired, listener, taken>>

\* The poll found nothing for MAX_POLL ms: next() throws, and the outer catch
\* leaves the flag set, the listener running and the consumer open.
PollExpires ==
    /\ main = "show" /\ Cardinality(expired) < MaxExpired
    /\ main' = "prompt"
    /\ expired' = expired \cup {shows}
    /\ UNCHANGED <<stdin, typed, eof, inside, shows, threads, taken>>

\* Variant: the command loop does not wait for the listener.
JoinAtOnce ==
    /\ main = "join"
    /\ main' = "prompt"
    /\ UNCHANGED <<stdin, typed, eof, inside, shows, expired, threads, taken>>

\* cancelationListener.join() and consumer.close().
Join ==
    /\ main = "join" /\ listener[shows] = "gone"
    /\ main' = "prompt"
    /\ UNCHANGED <<stdin, typed, eof, inside, shows, expired, threads, taken>>

\* stdIn.close() needs the monitor, too.
Close ==
    /\ main = "closing" /\ inside = Nobody
    /\ main' = "ended"
    /\ UNCHANGED <<stdin, typed, eof, inside, shows, expired, threads, taken>>
-----------------------------------------------------------------------------
(* The cancelationListener of show i. *)

Goto(i, label) == listener' = [listener EXCEPT ![i] = label]

\* ready(), which throws after close(), and is false at the end of the input.
Ready(i) ==
    /\ listener[i] = "check" /\ inside = Nobody
    /\ \/ main = "ended" /\ Goto(i, "gone")
       \/ main # "ended" /\ stdin # <<>> /\ Goto(i, "enter")
       \/ main # "ended" /\ stdin = <<>> /\ Goto(i, "sleep")
    /\ UNCHANGED <<stdin, typed, eof, inside, loop, wait, wakeup, taken>>

\* The end of sleep(500), and the look at the flag.
Slept(i) ==
    /\ listener[i] = "sleep"
    /\ Goto(i, IF wait[i] THEN "check" ELSE "gone")
    /\ UNCHANGED <<stdin, typed, eof, inside, loop, wait, wakeup, taken>>

ListenerEnters(i) ==
    /\ listener[i] = "enter"
    /\ \/ /\ main # "ended"
          /\ Enter(i)
          /\ Goto(i, "reading")
       \/ /\ main = "ended" /\ inside = Nobody
          /\ Goto(i, "gone")
          /\ UNCHANGED inside
    /\ UNCHANGED <<stdin, typed, eof, loop, wait, wakeup, taken>>

\* Variant: the listener stops after one line, whatever it is.
ListenerReadsOnce(i) ==
    /\ listener[i] = "reading"
    /\ TakeLine(i)
    /\ Goto(i, IF Head(stdin).text = "q" THEN "wake" ELSE "gone")
    /\ UNCHANGED <<loop, wait, wakeup>>

\* new String(null) throws: the listener ends without waking the consumer.
ListenerReads(i) ==
    /\ listener[i] = "reading"
    /\ \/ TakeLine(i) /\ Goto(i, IF Head(stdin).text = "q" THEN "wake" ELSE "check")
       \/ TakeNull(i) /\ Goto(i, "gone")
    /\ UNCHANGED <<loop, wait, wakeup>>

Wake(i) ==
    /\ listener[i] = "wake"
    /\ wakeup' = [wakeup EXCEPT ![i] = TRUE]
    /\ Goto(i, "gone")
    /\ UNCHANGED <<stdin, typed, eof, inside, loop, wait, taken>>

-----------------------------------------------------------------------------
Loop == MainEnters \/ MainReads \/ StartListener \/ ThrowWakeup \/ Join \/ Close

Listen(i) ==
    Ready(i) \/ Slept(i) \/ ListenerEnters(i) \/ ListenerReads(i) \/ Wake(i)

Next ==
    \/ EndInput \/ \E text \in Texts : Type(text)
    \/ Loop \/ TokenArrives \/ PollExpires
    \/ \E i \in Shows : Listen(i)

Spec == Init /\ [][Next]_vars

(***************************************************************************)
(* The command loop and every listener are threads of the JVM.  Nobody     *)
(* has to type, no token has to come, and no poll has to expire.           *)
(***************************************************************************)
FairSpec == Spec /\ WF_vars(Loop) /\ \A i \in Shows : WF_vars(Listen(i))
-----------------------------------------------------------------------------
(* Properties. *)

\* Every variable has its type.
TypeOK ==
    /\ stdin \in Seq(Line) /\ typed \in 0 .. MaxLines /\ eof \in BOOLEAN
    /\ inside \in Shows \cup {Main, Nobody}
    /\ main \in {"prompt", "reading", "handle", "show", "join", "closing", "ended",
                "thrown"}
    /\ shows \in 0 .. MaxLines /\ expired \subseteq Shows
    /\ listener \in [Shows -> {"none", "check", "sleep", "enter", "reading", "wake",
                               "gone"}]
    /\ wait \in [Shows -> BOOLEAN] /\ wakeup \in [Shows -> BOOLEAN]
    /\ taken \subseteq Shows \cup {Main}

Alive(i) == listener[i] \notin {"none", "gone"}
Showing == main \in {"show", "join"}

\* A listener lives only as long as its result is shown, unless its poll
\* expired: threads are leaked by expired polls and by nothing else, and at
\* the prompt no other thread reads the input.
ListenersAreOwned ==
    \A i \in Shows : Alive(i) => i \in expired \/ (Showing /\ i = shows)

\* What is typed at an empty prompt is read by the command loop and not by a
\* listener of an earlier result, unless the poll of that result expired.
PromptLinesReachTheLoop == taken \subseteq expired \cup {Main}

\* Why the two hold: a line typed at a prompt that nobody has read is the first in the
\* buffer, and the command loop is at its prompt; whoever is in readLine() is
\* where it says.
InputInOrder ==
    /\ \A k \in 1 .. Len(stdin) :
         stdin[k].at = "prompt" => k = 1 /\ main \in {"prompt", "reading"}
    /\ inside = Main <=> main = "reading"
    /\ \A i \in Shows : inside = i <=> listener[i] = "reading"
    /\ shows + Len(stdin) + (IF main = "handle" THEN 1 ELSE 0) =< typed
    /\ main \in {"show", "join"} => shows > 0
    /\ \A i \in Shows : i > shows => listener[i] = "none"
    /\ ListenersAreOwned /\ PromptLinesReachTheLoop

NoPollExpires == expired = {}

\* A q that waits in the input while a result is shown brings the prompt back,
\* whatever was typed before it, and so does the token of the result.
PromptReturns ==
    LET asked == \E k \in 1 .. Len(stdin) : stdin[k].text = "q" IN
    []NoPollExpires =>
        ((main = "show" /\ asked) \/ main = "join" ~> main = "prompt")
=============================================================================
