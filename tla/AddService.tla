------------------------------ MODULE AddService ------------------------------
(***************************************************************************)
(* Add, the service with two inputs.  It polls its inputs in turn, one     *)
(* record each, sends the sum of every pair and ends with the first eof;   *)
(* if both inputs are the same result it polls that one only.  The inputs  *)
(* are produced while it runs and may be restarted under it: other than    *)
(* Cat and Square it has no deleteListener.                                *)
(*                                                                         *)
(* There is one call of Add, with one worker at a time; what two workers   *)
(* do to one result is the subject of DriftWorkers, and so are the steps   *)
(* of a restart, which is one action here.                                 *)
(***************************************************************************)
EXTENDS Integers, Sequences

CONSTANTS
    MaxItems,     \* bound on the items of an input
    MaxFaults     \* bound on faults of all kinds together

ASSUME AddAssumption == MaxItems \in Nat /\ MaxFaults \in Nat

Inputs == {1, 2}
Begin == -1     \* seekToBeginning, which acts at the first poll

VARIABLES
    args,        \* the results A and B of the call
    len, token,  \* how many items each has, and what it ends with
    log, base,   \* the topics of the inputs, and what retention has left of them
    out,         \* the topic of the result
    pc, pos, held, key,    \* control state, positions, records read, next key
    node, acked,           \* the ZooKeeper node exists, the task is acknowledged
    restarted,             \* inputs that have been restarted
    expired, threw,        \* a poll has expired, a send has thrown
    faults

input  == <<args, len, token>>
topics == <<log, base>>
run    == <<pos, held, key>>
task   == <<node, acked>>
harm   == <<restarted, expired, threw, faults>>
vars   == <<input, topics, out, pc, run, task, harm>>

\* The single input of singleQueueConsume, or both.
Arity == IF args[1] = args[2] THEN 1 ELSE 2
ArgNumbers == 1 .. Arity

Tokens == {"eof", "err"}
Item(n) == [tok |-> "data", val |-> n]
Token(t) == [tok |-> t, val |-> 0]
\* The n-th record of an execution of input i.
Rec(i, n) == IF n =< len[i] THEN Item(n - 1) ELSE Token(token[i])

Sum(k, pair) == [tok |-> "data", key |-> k, of |-> pair]
Eof == [tok |-> "eof", key |-> 0, of |-> <<>>]
Closed == \E k \in 1 .. Len(out) : out[k].tok = "eof"

Init ==
    /\ args \in {<<1, 2>>, <<1, 1>>}
    /\ len \in [Inputs -> 0 .. MaxItems] /\ token \in [Inputs -> Tokens]
    /\ log = [i \in Inputs |-> <<>>] /\ base = [i \in Inputs |-> 0]
    /\ out = <<>>
    /\ pc = "idle" /\ pos = [k \in Inputs |-> Begin] /\ held = <<>> /\ key = 0
    /\ node = FALSE /\ acked = FALSE
    /\ restarted = {} /\ expired = FALSE /\ threw = FALSE /\ faults = 0
-----------------------------------------------------------------------------
(* The inputs. *)

\* The service of an input sends its next record.
Produce(i) ==
    LET n == Len(log[i]) - base[i] IN
    /\ n =< len[i]
    /\ log' = [log EXCEPT ![i] = Append(@, Rec(i, n + 1))]
    /\ UNCHANGED <<input, base, out, pc, run, task, harm>>

\* Its worker has died, and the next one has purged the topic.
RestartInput(i) ==
    /\ base[i] < Len(log[i]) /\ faults < MaxFaults
    /\ base' = [base EXCEPT ![i] = Len(log[i])]
    /\ restarted' = restarted \cup {i} /\ faults' = faults + 1
    /\ UNCHANGED <<input, log, out, pc, run, task, expired, threw>>
-----------------------------------------------------------------------------
(* The worker and Add.run. *)

\* Variant: a task whose node exists is taken as done.
DeliverSkipping ==
    /\ pc = "idle" /\ ~ acked
    /\ node' = TRUE
    /\ pc' = IF node THEN "ack" ELSE "start"
    /\ UNCHANGED <<input, topics, out, run, acked, harm>>

\* execNameCmd: a call whose node exists is restarted.
Deliver ==
    /\ pc = "idle" /\ ~ acked
    /\ node' = TRUE
    /\ pc' = IF node THEN "restart" ELSE "start"
    /\ UNCHANGED <<input, topics, out, run, acked, harm>>

\* Variant: the topic is not purged.
RestartAtOnce ==
    /\ pc = "restart"
    /\ pc' = "start"
    /\ UNCHANGED <<input, topics, out, run, task, harm>>

\* deleteTopic.
Restart ==
    /\ pc = "restart"
    /\ out' = <<>>
    /\ pc' = "start"
    /\ UNCHANGED <<input, topics, run, task, harm>>

\* Variant: no seekToBeginning.
StartLatest ==
    /\ pc = "start"
    /\ pos' = [k \in Inputs |-> Len(log[args[k]])] /\ held' = <<>> /\ key' = 0
    /\ pc' = "read"
    /\ UNCHANGED <<input, topics, out, task, harm>>

\* Consumers at the beginning of their topics, and key = 0.
Start ==
    /\ pc = "start"
    /\ pos' = [k \in Inputs |-> Begin] /\ held' = <<>> /\ key' = 0
    /\ pc' = "read"
    /\ UNCHANGED <<input, topics, out, task, harm>>

\* The argument whose consumer polls next: A, then B.
Turn == Len(held) + 1
Position(k) == IF pos[k] = Begin THEN base[args[k]] ELSE pos[k]

\* Variant: err ends the loop as eof does.
PollToken ==
    LET i == args[Turn] IN
    /\ pc = "read"
    /\ \/ /\ Position(Turn) < base[i]
          /\ pos' = [pos EXCEPT ![Turn] = Len(log[i])]
          /\ UNCHANGED <<held, pc>>
       \/ /\ Position(Turn) >= base[i] /\ Position(Turn) < Len(log[i])
          /\ LET record == log[i][Position(Turn) + 1] IN
             \/ record.tok # "data" /\ pc' = "eof" /\ UNCHANGED held
             \/ /\ record.tok = "data"
                /\ held' = Append(held, record)
                /\ pc' = IF Turn = Arity THEN "send" ELSE "read"
          /\ pos' = [pos EXCEPT ![Turn] = Position(Turn) + 1]
    /\ UNCHANGED <<input, topics, out, key, task, harm>>

\* poll, one record at a time; a position that retention has overtaken goes to
\* the end.
Poll ==
    LET i == args[Turn] IN
    /\ pc = "read"
    /\ \/ /\ Position(Turn) < base[i]
          /\ pos' = [pos EXCEPT ![Turn] = Len(log[i])]
          /\ UNCHANGED <<held, pc>>
       \/ /\ Position(Turn) >= base[i] /\ Position(Turn) < Len(log[i])
          /\ LET record == log[i][Position(Turn) + 1] IN
             \/ record.tok = "eof" /\ pc' = "eof" /\ UNCHANGED held
             \/ /\ record.tok # "eof"
                /\ held' = Append(held, record)
                /\ pc' = IF Turn = Arity THEN "send" ELSE "read"
          /\ pos' = [pos EXCEPT ![Turn] = Position(Turn) + 1]
    /\ UNCHANGED <<input, topics, out, key, task, harm>>

\* iterator().next() after a poll that found nothing for MAX_POLL ms: run
\* returns without a token.
PollExpires ==
    /\ pc = "read" /\ Position(Turn) = Len(log[args[Turn]])
    /\ expired' = TRUE
    /\ pc' = "ack"
    /\ UNCHANGED <<input, topics, out, run, task, restarted, threw, faults>>

AllData == \A k \in ArgNumbers : held[k].tok = "data"
NextSum == Sum(key, [k \in ArgNumbers |-> held[k].val])

\* The value of err is not a number: parseInt throws, and there is no token.
Send ==
    /\ pc = "send"
    /\ \/ /\ AllData
          /\ out' = Append(out, NextSum)
          /\ key' = key + 1 /\ held' = <<>>
          /\ pc' = "read"
       \/ /\ ~ AllData
          /\ pc' = "ack"
          /\ UNCHANGED <<out, key, held>>
    /\ UNCHANGED <<input, topics, pos, task, harm>>

SendEof ==
    /\ pc = "eof"
    /\ out' = Append(out, Eof)
    /\ pc' = "ack"
    /\ UNCHANGED <<input, topics, run, task, harm>>

\* A send throws, with or without its record in the topic.
SendThrows ==
    /\ faults < MaxFaults
    /\ \/ pc = "send" /\ AllData /\ out' \in {out, Append(out, NextSum)}
       \/ pc = "eof" /\ out' \in {out, Append(out, Eof)}
    /\ threw' = TRUE /\ faults' = faults + 1
    /\ pc' = "ack"
    /\ UNCHANGED <<input, topics, run, task, restarted, expired>>

\* basicAck, whatever run has returned.
Ack ==
    /\ pc = "ack"
    /\ acked' = TRUE
    /\ pc' = "idle"
    /\ UNCHANGED <<input, topics, out, run, node, harm>>

\* The worker dies, and its task is delivered again.
Crash ==
    /\ pc # "idle" /\ faults < MaxFaults
    /\ faults' = faults + 1
    /\ pc' = "idle"
    /\ UNCHANGED <<input, topics, out, run, task, restarted, expired, threw>>

Work == Deliver \/ Restart \/ Start \/ Poll \/ PollExpires \/ Send \/ SendEof \/ Ack

Next ==
    \/ \E i \in Inputs : Produce(i) \/ RestartInput(i)
    \/ Work \/ SendThrows \/ Crash

Spec == Init /\ [][Next]_vars

\* The thread of the worker runs, and a poll that finds nothing expires; so do
\* the services of the inputs.
FairSpec == Spec /\ WF_vars(Work) /\ \A i \in Inputs : WF_vars(Produce(i))
-----------------------------------------------------------------------------
(* Properties. *)

Labels == {"idle", "restart", "start", "read", "send", "eof", "ack"}
Records == [tok : {"data"} \cup Tokens, val : Nat]
Sums == [tok : {"data"}, key : Nat, of : Seq(Nat)]

\* Every variable has its type.
TypeOK ==
    /\ args \in {<<1, 2>>, <<1, 1>>}
    /\ len \in [Inputs -> 0 .. MaxItems] /\ token \in [Inputs -> Tokens]
    /\ log \in [Inputs -> Seq(Records)] /\ base \in [Inputs -> Nat]
    /\ \A i \in Inputs : base[i] =< Len(log[i])
    /\ out \in Seq(Sums \cup {Eof})
    /\ pc \in Labels /\ pos \in [Inputs -> Nat \cup {Begin}]
    /\ held \in Seq(Records) /\ Len(held) =< Arity
    /\ (pc = "read" => Len(held) < Arity) /\ (pc = "send" => Len(held) = Arity)
    /\ key \in Nat /\ node \in BOOLEAN /\ acked \in BOOLEAN
    /\ restarted \subseteq Inputs /\ expired \in BOOLEAN /\ threw \in BOOLEAN
    /\ faults \in 0 .. MaxFaults

Args == {args[1], args[2]}

\* As long as no input is restarted under it, the k-th sum is that of the k-th
\* items of both inputs, whatever the speed of the one and the other and
\* however often Add itself is restarted.
SumsPairUp ==
    restarted = {} =>
        \A k \in 1 .. Len(out) : out[k].tok = "data" =>
            out[k] = Sum(k - 1, [a \in ArgNumbers |-> k - 1])

\* What one execution over undisturbed inputs makes: a sum for every item of the
\* shorter input, and an eof if an input as short as that ends with eof.
Items == IF len[args[1]] =< len[args[2]] THEN len[args[1]] ELSE len[args[2]]
EofIsRead == \E i \in Args : len[i] = Items /\ token[i] = "eof"
Expected ==
    [k \in 1 .. Items + (IF EofIsRead THEN 1 ELSE 0) |->
        IF k =< Items THEN Sum(k - 1, [a \in ArgNumbers |-> k - 1]) ELSE Eof]

OneRun ==
    restarted = {} =>
        /\ Len(out) =< Len(Expected)
        /\ \A k \in 1 .. Len(out) : out[k] = Expected[k]

\* An err of A is followed by an eof of B: the loop breaks before it looks at
\* the value of the err, and Add sends eof.  The documents ask for err
\* (04-3_driftimpl.tex:766-768), so nothing is claimed of this case.
ErrThenEof ==
    /\ Arity = 2 /\ len[args[1]] = len[args[2]]
    /\ token[args[1]] = "err" /\ token[args[2]] = "eof"

\* As long as no input is restarted under it, what a reader finds of the result
\* is how one execution begins, whatever crashes and half sent records were
\* before it: no sum too many, none twice, no eof that comes early, and no eof
\* where an err has been read.
LooksLikeOneRun == ~ ErrThenEof => OneRun

Undisturbed == restarted = {} /\ ~ expired /\ ~ threw

\* An acknowledged result that an eof has ended is that of a whole execution,
\* unless an input was restarted, a poll expired or a send threw.  A crash is no
\* excuse.  (A result that an err has ended has no token, although the same
\* lines ask for one.)
AckedIsWhole == acked /\ Undisturbed /\ EofIsRead /\ ~ ErrThenEof => out = Expected

\* Why these hold: the consumers go through their inputs side by side, at
\* most one record apart, and what has been read has been summed or is held.
SideBySide ==
    /\ ~ node => out = <<>> /\ pc = "idle" /\ ~ acked
    /\ acked => pc = "idle"
    /\ (acked \/ pc = "ack") /\ Undisturbed => out = Expected
    /\ SumsPairUp /\ OneRun
    /\ restarted = {} =>
        /\ \A i \in Inputs :
             /\ base[i] = 0 /\ Len(log[i]) =< len[i] + 1
             /\ \A n \in 1 .. Len(log[i]) : log[i][n] = Rec(i, n)
        /\ pc = "start" => out = <<>>
        /\ pc \in {"read", "send", "eof"} =>
             Len(out) = key /\ ~ Closed /\ \A i \in Args : key =< len[i]
        /\ pc \in {"read", "send"} =>
             /\ \A a \in ArgNumbers : Position(a) = key + (IF a =< Len(held) THEN 1 ELSE 0)
             /\ \A a \in 1 .. Len(held) :
                  held[a] = Rec(args[a], key + 1) /\ held[a].tok # "eof"
        /\ pc = "eof" => \E i \in Args : key = len[i] /\ token[i] = "eof"

Complete(i) == Len(log[i]) - base[i] = len[i] + 1
Smooth == restarted = {} /\ faults = 0
\* Once its inputs have all of their records, eof included, its polls find them
\* and it ends with eof itself.
SumsEnd ==
    []Smooth =>
        ((\A i \in Args : Complete(i) /\ token[i] = "eof") /\ ~ expired ~> Closed)
=============================================================================
