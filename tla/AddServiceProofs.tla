---------------------------- MODULE AddServiceProofs ----------------------------
(***************************************************************************)
(* Theorems about AddService, for inputs of any length and any number of   *)
(* faults: the sums pair the items up, what is there is how one execution  *)
(* begins, and what is acknowledged is a whole one.                        *)
(***************************************************************************)
EXTENDS AddService, TLAPS

Inv == TypeOK /\ SideBySide

LEMMA ArgFacts ==
    ASSUME TypeOK
    PROVE  /\ Arity \in {1, 2} /\ Args \subseteq Inputs
           /\ \A a \in ArgNumbers : args[a] \in Args
           /\ \A i \in Args : \E a \in ArgNumbers : args[a] = i
           /\ \A k \in Inputs : args[k] \in Inputs
<1>1. CASE args = <<1, 2>>
  <2>1. args[1] = 1 /\ args[2] = 2 BY <1>1
  <2> QED BY <2>1 DEF Arity, ArgNumbers, Args, Inputs
<1>2. CASE args = <<1, 1>>
  <2>1. args[1] = 1 /\ args[2] = 1 BY <1>2
  <2> QED BY <2>1 DEF Arity, ArgNumbers, Args, Inputs
<1> QED BY <1>1, <1>2 DEF TypeOK

LEMMA RecType ==
    ASSUME TypeOK, NEW i \in Inputs, NEW n \in Nat \ {0}
    PROVE  /\ Rec(i, n) \in Records
           /\ Rec(i, n).tok = "data" => n =< len[i] /\ Rec(i, n).val = n - 1
           /\ Rec(i, n).tok # "data" => n > len[i] /\ Rec(i, n).tok = token[i]
<1>1. len[i] \in Nat /\ token[i] \in Tokens BY AddAssumption DEF TypeOK
<1> QED BY <1>1 DEF Rec, Item, Token, Records, Tokens

LEMMA AppendFacts ==
    ASSUME NEW S, NEW q \in Seq(S), NEW e \in S
    PROVE  /\ Append(q, e) \in Seq(S) /\ Len(Append(q, e)) = Len(q) + 1 /\ Len(q) \in Nat
           /\ \A k \in 1 .. Len(q) : Append(q, e)[k] = q[k]
           /\ Append(q, e)[Len(q) + 1] = e
           /\ \A k \in 1 .. Len(q) + 1 : k \in 1 .. Len(q) \/ k = Len(q) + 1
OBVIOUS

LEMMA NextSumType ==
    ASSUME TypeOK, pc = "send"
    PROVE  /\ NextSum \in Sums /\ NextSum.tok = "data"
           /\ \A k \in ArgNumbers : held[k] \in Records /\ k \in 1 .. Len(held)
<1>1. held \in Seq(Records) /\ Len(held) = Arity /\ Arity \in {1, 2} /\ key \in Nat
  BY ArgFacts DEF TypeOK
<1>2. \A k \in ArgNumbers : held[k] \in Records /\ k \in 1 .. Len(held)
  BY <1>1 DEF ArgNumbers
<1>3. [k \in ArgNumbers |-> held[k].val] \in Seq(Nat)
  <2>1. \A k \in ArgNumbers : held[k].val \in Nat BY <1>2 DEF Records
  <2> QED BY <1>1, <2>1 DEF ArgNumbers
<1> QED BY <1>1, <1>2, <1>3 DEF NextSum, Sum, Sums

LEMMA ExpectedFacts ==
    ASSUME TypeOK
    PROVE  /\ Items \in Nat /\ EofIsRead \in BOOLEAN
           /\ \A i \in Args : Items =< len[i] /\ len[i] \in Nat
           /\ \E i \in Args : Items = len[i]
           /\ Len(Expected) = Items + (IF EofIsRead THEN 1 ELSE 0)
           /\ \A k \in 1 .. Items : Expected[k] = Sum(k - 1, [a \in ArgNumbers |-> k - 1])
           /\ EofIsRead => Expected[Items + 1] = Eof
           /\ \A k \in 1 .. Len(Expected) : k \in 1 .. Items \/ (k = Items + 1 /\ EofIsRead)
           /\ Expected = [k \in 1 .. Len(Expected) |-> Expected[k]]
<1>1. Args = {args[1], args[2]} /\ Args \subseteq Inputs BY ArgFacts DEF Args
<1>2. \A i \in Args : len[i] \in Nat BY <1>1, AddAssumption DEF TypeOK
<1>3. Items \in Nat /\ (\A i \in Args : Items =< len[i]) /\ \E i \in Args : Items = len[i]
  BY <1>1, <1>2 DEF Items
<1> DEFINE n == Items + (IF EofIsRead THEN 1 ELSE 0)
<1>4. n \in Nat
  <2>1. CASE EofIsRead BY <1>3, <2>1
  <2>2. CASE ~ EofIsRead BY <1>3, <2>2
  <2> QED BY <2>1, <2>2
<1>5. \A k \in 1 .. n : k \in 1 .. Items \/ (k = Items + 1 /\ EofIsRead)
  <2> TAKE k \in 1 .. n
  <2>1. CASE EofIsRead BY <1>3, <2>1
  <2>2. CASE ~ EofIsRead BY <1>3, <2>2
  <2> QED BY <2>1, <2>2
<1>6. /\ \A k \in 1 .. Items : k \in 1 .. n /\ k =< Items
      /\ EofIsRead => Items + 1 \in 1 .. n
      /\ ~ (Items + 1 =< Items)
  BY <1>3
<1>7. EofIsRead \in BOOLEAN BY DEF EofIsRead
<1> DEFINE E(k) == IF k =< Items THEN Sum(k - 1, [a \in ArgNumbers |-> k - 1]) ELSE Eof
<1>8. Expected = [k \in 1 .. n |-> E(k)] BY DEF Expected
<1> HIDE DEF n
<1>9. Len(Expected) = n /\ Expected = [k \in 1 .. n |-> Expected[k]]
  <2> HIDE DEF E
  <2> QED BY <1>4, <1>8
<1>10. \A k \in 1 .. Items : Expected[k] = Sum(k - 1, [a \in ArgNumbers |-> k - 1])
  <2> TAKE k \in 1 .. Items
  <2>1. Expected[k] = E(k)
    <3> HIDE DEF E
    <3> QED BY <1>6, <1>8
  <2> QED BY <1>6, <2>1
<1>11. EofIsRead => Expected[Items + 1] = Eof
  <2> HAVE EofIsRead
  <2>1. Expected[Items + 1] = E(Items + 1)
    <3> HIDE DEF E
    <3> QED BY <1>6, <1>8
  <2> QED BY <1>6, <2>1
<1> QED BY <1>2, <1>3, <1>5, <1>7, <1>9, <1>10, <1>11 DEF n
-----------------------------------------------------------------------------
LEMMA InitType == Init => TypeOK
<1> SUFFICES ASSUME Init PROVE TypeOK OBVIOUS
<1>1. Arity \in {1, 2}
  <2>1. Arity = 1 \/ Arity = 2 BY DEF Arity
  <2> QED BY <2>1
<1>2. /\ \A S : <<>> \in Seq(S)
      /\ Len(<<>>) = 0
  OBVIOUS
<1>3. log \in [Inputs -> Seq(Records)] /\ base \in [Inputs -> Nat]
      /\ \A i \in Inputs : base[i] =< Len(log[i])
  BY <1>2 DEF Init
<1>4. held \in Seq(Records) /\ Len(held) = 0 /\ out \in Seq(Sums \cup {Eof})
  BY <1>2 DEF Init
<1>5. /\ pc \in Labels /\ pc \notin {"read", "send"} /\ pos \in [Inputs -> Nat \cup {Begin}]
      /\ key \in Nat /\ restarted \subseteq Inputs /\ faults \in 0 .. MaxFaults
  BY AddAssumption DEF Init, Labels
<1>6. node \in BOOLEAN /\ acked \in BOOLEAN /\ expired \in BOOLEAN /\ threw \in BOOLEAN
  BY DEF Init
<1>7. /\ args \in {<<1, 2>>, <<1, 1>>} /\ len \in [Inputs -> 0 .. MaxItems]
      /\ token \in [Inputs -> Tokens]
  BY DEF Init
<1> QED BY <1>1, <1>3, <1>4, <1>5, <1>6, <1>7 DEF TypeOK

LEMMA NextType == ASSUME TypeOK, [Next]_vars PROVE TypeOK'
<1> USE AddAssumption
<1> DEFINE Fixed == args' = args /\ len' = len /\ token' = token
           Ins == /\ log' \in [Inputs -> Seq(Records)] /\ base' \in [Inputs -> Nat]
                  /\ \A i \in Inputs : base'[i] =< Len(log'[i])
           Outs == out' \in Seq(Sums \cup {Eof})
           Here == /\ pc' \in Labels /\ pos' \in [Inputs -> Nat \cup {Begin}]
                   /\ held' \in Seq(Records) /\ Len(held') =< Arity
                   /\ (pc' = "read" => Len(held') < Arity)
                   /\ (pc' = "send" => Len(held') = Arity)
                   /\ key' \in Nat
           Rest == /\ node' \in BOOLEAN /\ acked' \in BOOLEAN
                   /\ restarted' \subseteq Inputs /\ expired' \in BOOLEAN /\ threw' \in BOOLEAN
                   /\ faults' \in 0 .. MaxFaults
<1>0. ASSUME Fixed, Ins, Outs, Here, Rest PROVE TypeOK'
  <2>1. Arity' = Arity BY <1>0 DEF Arity
  <2> QED BY <1>0, <2>1 DEF TypeOK
<1>a. UNCHANGED topics => Ins BY DEF topics, TypeOK
<1>b. UNCHANGED out => Outs BY DEF TypeOK
<1>c. UNCHANGED <<pc, run>> => Here BY DEF run, TypeOK
<1>d. UNCHANGED <<task, harm>> => Rest BY DEF task, harm, TypeOK
<1>e. ASSUME pc' \in Labels \ {"read", "send"}, UNCHANGED run PROVE Here BY <1>e DEF run, TypeOK
<1>f. UNCHANGED input => Fixed BY DEF input
<1> HIDE DEF Fixed, Ins, Outs, Here, Rest
<1>1. ASSUME NEW i \in Inputs, Produce(i) PROVE TypeOK'
  <2> DEFINE n == Len(log[i]) - base[i]
  <2>1. log[i] \in Seq(Records) /\ base[i] \in Nat /\ base[i] =< Len(log[i]) BY DEF TypeOK
  <2>2. n + 1 \in Nat \ {0} BY <2>1
  <2> HIDE DEF n
  <2>3. Rec(i, n + 1) \in Records BY <2>2, RecType
  <2>4. /\ Append(log[i], Rec(i, n + 1)) \in Seq(Records)
        /\ base[i] =< Len(Append(log[i], Rec(i, n + 1)))
    BY <2>1, <2>3, AppendFacts
  <2>5. log' = [log EXCEPT ![i] = Append(log[i], Rec(i, n + 1))] /\ base' = base
    BY <1>1 DEF Produce, n
  <2>6. Ins BY <2>4, <2>5 DEF Ins, TypeOK
  <2> QED BY <1>0, <1>b, <1>c, <1>d, <1>f, <1>1, <2>6 DEF Produce
<1>2. ASSUME NEW i \in Inputs, RestartInput(i) PROVE TypeOK'
  <2>1. Ins
    <3>1. Len(log[i]) \in Nat BY DEF TypeOK
    <3> QED BY <1>2, <3>1 DEF Ins, RestartInput, TypeOK
  <2>2. Rest BY <1>2 DEF Rest, RestartInput, TypeOK, task
  <2> QED BY <1>0, <1>b, <1>c, <1>f, <1>2, <2>1, <2>2 DEF RestartInput
<1>3. CASE Deliver
  <2>1. Here BY <1>3, <1>e DEF Deliver, Labels
  <2>2. Rest BY <1>3 DEF Rest, Deliver, TypeOK, harm
  <2> QED BY <1>0, <1>a, <1>b, <1>f, <1>3, <2>1, <2>2 DEF Deliver
<1>4. CASE Restart
  <2>1. Here BY <1>4, <1>e DEF Restart, Labels
  <2>2. Outs BY <1>4 DEF Outs, Restart
  <2> QED BY <1>0, <1>a, <1>d, <1>f, <1>4, <2>1, <2>2 DEF Restart
<1>5. CASE Start
  <2>1. Here
    <3>1. <<>> \in Seq(Records) /\ Len(<<>>) = 0 OBVIOUS
    <3>2. Arity \in {1, 2} BY ArgFacts
    <3>3. pos' \in [Inputs -> Nat \cup {Begin}] /\ key' = 0 /\ held' = <<>> /\ pc' = "read"
      BY <1>5 DEF Start
    <3> QED BY <3>1, <3>2, <3>3 DEF Here, Labels
  <2> QED BY <1>0, <1>a, <1>b, <1>d, <1>f, <1>5, <2>1 DEF Start
<1>6. CASE Poll
  <2>1. /\ held \in Seq(Records) /\ Len(held) < Arity /\ Arity \in {1, 2} /\ Turn \in Inputs
        /\ args[Turn] \in Inputs
    <3>1. held \in Seq(Records) /\ Len(held) < Arity BY <1>6 DEF TypeOK, Poll
    <3>2. Turn \in Inputs BY <3>1, ArgFacts DEF Turn, Inputs
    <3> QED BY <3>1, <3>2, ArgFacts
  <2>2. /\ log[args[Turn]] \in Seq(Records) /\ base[args[Turn]] \in Nat
        /\ Position(Turn) \in Nat
    BY <2>1 DEF TypeOK, Position
  <2>3. pos' \in [Inputs -> Nat \cup {Begin}]
    <3>1. \E x \in Nat : pos' = [pos EXCEPT ![Turn] = x]
      <4>1. Len(log[args[Turn]]) \in Nat /\ Position(Turn) + 1 \in Nat BY <2>2
      <4> QED BY <1>6, <4>1 DEF Poll
    <3> QED BY <3>1 DEF TypeOK
  <2>4. Here
    <3>1. CASE held' = held /\ pc' \in {"read", "eof"}
      BY <1>6, <2>1, <2>3, <3>1 DEF Here, Poll, TypeOK, Labels
    <3>2. ASSUME NEW r \in Records, held' = Append(held, r),
                 pc' = IF Turn = Arity THEN "send" ELSE "read"
          PROVE  Here
      <4>1. held' \in Seq(Records) /\ Len(held') = Turn /\ Turn =< Arity
        BY <2>1, <3>2, AppendFacts DEF Turn
      <4> QED BY <1>6, <2>1, <2>3, <3>2, <4>1 DEF Here, Poll, TypeOK, Labels
    <3>3. Position(Turn) < Len(log[args[Turn]]) =>
            log[args[Turn]][Position(Turn) + 1] \in Records
      BY <2>2
    <3>4. pc = "read" BY <1>6 DEF Poll
    <3> QED BY <1>6, <3>1, <3>2, <3>3, <3>4 DEF Poll
  <2> QED BY <1>0, <1>a, <1>b, <1>d, <1>f, <1>6, <2>4 DEF Poll
<1>7. CASE PollExpires
  <2>1. Here BY <1>7, <1>e DEF PollExpires, Labels
  <2>2. Rest BY <1>7 DEF Rest, PollExpires, TypeOK, task
  <2> QED BY <1>0, <1>a, <1>b, <1>f, <1>7, <2>1, <2>2 DEF PollExpires
<1>8. CASE Send
  <2>1. CASE AllData
    <3>1. Outs
      <4>1. pc = "send" /\ out' = Append(out, NextSum) BY <1>8, <2>1 DEF Send
      <4>2. NextSum \in Sums \cup {Eof} BY <4>1, NextSumType
      <4>3. out \in Seq(Sums \cup {Eof}) BY DEF TypeOK
      <4> QED BY <4>1, <4>2, <4>3, AppendFacts DEF Outs
    <3>2. Here
      <4>1. <<>> \in Seq(Records) /\ Len(<<>>) = 0 OBVIOUS
      <4>2. Arity \in {1, 2} BY ArgFacts
      <4>3. /\ pos' \in [Inputs -> Nat \cup {Begin}] /\ key' \in Nat
            /\ held' = <<>> /\ pc' = "read"
        BY <1>8, <2>1 DEF Send, TypeOK
      <4> QED BY <4>1, <4>2, <4>3 DEF Here, Labels
    <3> QED BY <1>0, <1>a, <1>d, <1>f, <1>8, <3>1, <3>2 DEF Send
  <2>2. CASE ~ AllData
    <3>1. Here BY <1>8, <1>e, <2>2 DEF Send, Labels, run
    <3> QED BY <1>0, <1>a, <1>b, <1>d, <1>f, <1>8, <2>2, <3>1 DEF Send
  <2> QED BY <2>1, <2>2
<1>9. CASE SendEof
  <2>1. Here BY <1>9, <1>e DEF SendEof, Labels
  <2>2. Outs BY <1>9, AppendFacts DEF Outs, SendEof, TypeOK
  <2> QED BY <1>0, <1>a, <1>d, <1>f, <1>9, <2>1, <2>2 DEF SendEof
<1>10. CASE SendThrows \/ Crash
  <2>1. Here BY <1>10, <1>e DEF SendThrows, Crash, Labels
  <2>2. Rest
    <3>1. faults' \in 0 .. MaxFaults BY <1>10 DEF SendThrows, Crash, TypeOK
    <3>2. /\ UNCHANGED <<task, restarted, expired>>
          /\ threw' = threw \/ threw' = TRUE
      BY <1>10 DEF SendThrows, Crash
    <3> QED BY <3>1, <3>2 DEF Rest, TypeOK, task
  <2>3. Outs
    <3>1. out' = out \/ out' = Append(out, Eof) \/ (pc = "send" /\ out' = Append(out, NextSum))
      BY <1>10 DEF SendThrows, Crash
    <3>2. Eof \in Sums \cup {Eof} /\ (pc = "send" => NextSum \in Sums \cup {Eof})
      BY NextSumType
    <3>3. out \in Seq(Sums \cup {Eof}) BY DEF TypeOK
    <3> QED BY <3>1, <3>2, <3>3, AppendFacts DEF Outs
  <2> QED BY <1>0, <1>a, <1>f, <1>10, <2>1, <2>2, <2>3 DEF SendThrows, Crash
<1>11. CASE Ack
  <2>1. Here BY <1>11, <1>e DEF Ack, Labels
  <2>2. Rest BY <1>11 DEF Rest, Ack, TypeOK, harm
  <2> QED BY <1>0, <1>a, <1>b, <1>f, <1>11, <2>1, <2>2 DEF Ack
<1>12. CASE UNCHANGED vars
  BY <1>0, <1>a, <1>b, <1>c, <1>d, <1>f, <1>12 DEF vars
<1> QED BY <1>1, <1>2, <1>3, <1>4, <1>5, <1>6, <1>7, <1>8, <1>9, <1>10, <1>11, <1>12
        DEF Next, Work
-----------------------------------------------------------------------------
(* SideBySide is inductive. *)

Logs == \A i \in Inputs :
          /\ base[i] = 0 /\ Len(log[i]) =< len[i] + 1
          /\ \A n \in 1 .. Len(log[i]) : log[i][n] = Rec(i, n)
Loop ==
    /\ pc = "start" => out = <<>>
    /\ pc \in {"read", "send", "eof"} =>
         Len(out) = key /\ ~ Closed /\ \A i \in Args : key =< len[i]
    /\ pc \in {"read", "send"} =>
         /\ \A a \in ArgNumbers : Position(a) = key + (IF a =< Len(held) THEN 1 ELSE 0)
         /\ \A a \in 1 .. Len(held) :
              held[a] = Rec(args[a], key + 1) /\ held[a].tok # "eof"
    /\ pc = "eof" => \E i \in Args : key = len[i] /\ token[i] = "eof"

LEMMA InputsFixed == [Next]_vars => input' = input
BY DEF Next, vars, Produce, RestartInput, Work, Deliver, Restart, Start, Poll, PollExpires,
   Send, SendEof, Ack, SendThrows, Crash

LEMMA LogsKept ==
    ASSUME Inv, [Next]_vars, restarted' = {}
    PROVE  restarted = {} /\ Logs'
<1>1. restarted = {} /\ base' = base
  <2>1. ~ \E i \in Inputs : RestartInput(i) BY DEF RestartInput
  <2> QED BY <2>1 DEF Next, vars, Produce, Work, Deliver, Restart, Start, Poll, PollExpires,
             Send, SendEof, Ack, SendThrows, Crash, harm, topics
<1>2. Logs BY <1>1 DEF Inv, SideBySide, Logs
<1>3. input' = input BY InputsFixed
<1>4. ASSUME NEW i \in Inputs, Produce(i) PROVE Logs'
  <2>1. base[i] = 0 /\ log[i] \in Seq(Records) /\ len[i] \in Nat /\ Len(log[i]) \in Nat
    BY <1>2, AddAssumption DEF Logs, Inv, TypeOK
  <2>2. /\ Len(log[i]) =< len[i]
        /\ log' = [log EXCEPT ![i] = Append(@, Rec(i, Len(log[i]) + 1))]
    BY <1>4, <2>1 DEF Produce
  <2>3. Rec(i, Len(log[i]) + 1) \in Records BY <2>1, RecType DEF Inv
  <2>4. ASSUME NEW j \in Inputs
        PROVE  /\ base'[j] = 0 /\ Len(log'[j]) =< len[j] + 1
               /\ \A n \in 1 .. Len(log'[j]) : log'[j][n] = Rec(j, n)
    <3>1. CASE j = i
      <4> DEFINE q == Append(log[i], Rec(i, Len(log[i]) + 1))
      <4>1. log'[j] = q BY <2>2, <3>1 DEF Inv, TypeOK
      <4>2. /\ Len(q) = Len(log[i]) + 1
            /\ \A k \in 1 .. Len(log[i]) : q[k] = log[i][k]
            /\ q[Len(log[i]) + 1] = Rec(i, Len(log[i]) + 1)
            /\ \A k \in 1 .. Len(log[i]) + 1 : k \in 1 .. Len(log[i]) \/ k = Len(log[i]) + 1
        BY <2>1, <2>3, AppendFacts
      <4> HIDE DEF q
      <4>3. \A n \in 1 .. Len(q) : q[n] = Rec(i, n) BY <1>2, <4>2 DEF Logs
      <4> QED BY <1>1, <2>1, <2>2, <3>1, <4>1, <4>2, <4>3
    <3>2. CASE j # i
      <4>1. log'[j] = log[j] BY <2>2, <3>2 DEF Inv, TypeOK
      <4> QED BY <1>1, <1>2, <4>1 DEF Logs
    <3> QED BY <3>1, <3>2
  <2> QED BY <1>3, <2>4 DEF Logs, Rec, input
<1>5. log' = log => Logs' BY <1>1, <1>2, <1>3 DEF Logs, Rec, input
<1>6. log' = log \/ \E i \in Inputs : Produce(i)
  BY DEF Next, vars, RestartInput, Work, Deliver, Restart, Start, Poll, PollExpires,
     Send, SendEof, Ack, SendThrows, Crash, topics
<1> QED BY <1>1, <1>4, <1>5, <1>6

\* What the consumer whose turn it is finds.
LEMMA PollFacts ==
    ASSUME Inv, restarted = {}, Poll
    PROVE  \E r \in Records :
             /\ r = Rec(args[Turn], key + 1)
             /\ pos' = [pos EXCEPT ![Turn] = key + 1]
             /\ \/ r.tok = "eof" /\ pc' = "eof" /\ UNCHANGED held
                \/ /\ r.tok # "eof"
                   /\ held' = Append(held, r)
                   /\ pc' \in {"read", "send"}
<1>1. Logs /\ Loop /\ TypeOK /\ pc = "read" BY DEF Inv, SideBySide, Logs, Loop, Poll
<1>2. /\ held \in Seq(Records) /\ Len(held) < Arity /\ Arity \in {1, 2} /\ key \in Nat
  BY <1>1, ArgFacts DEF TypeOK
<1>3. /\ Turn \in ArgNumbers /\ Turn \in Inputs /\ Turn \in Nat
      /\ ~ (Turn =< Len(held)) /\ Len(held) \in Nat
  BY <1>2 DEF Turn, ArgNumbers, Inputs
<1>4. args[Turn] \in Inputs BY <1>1, <1>3, ArgFacts
<1>5. Position(Turn) = key
  BY <1>1, <1>2, <1>3 DEF Loop
<1> DEFINE i == args[Turn]
<1>6. base[i] = 0 /\ log[i] \in Seq(Records) /\ Len(log[i]) \in Nat
  BY <1>1, <1>4 DEF Logs, TypeOK
<1>7. ~ (Position(Turn) < base[i]) BY <1>2, <1>5, <1>6
<1>8. key < Len(log[i]) BY <1>5, <1>7 DEF Poll
<1>9. key + 1 \in 1 .. Len(log[i]) BY <1>2, <1>6, <1>8
<1>10. log[i][key + 1] = Rec(i, key + 1) /\ log[i][key + 1] \in Records
  BY <1>1, <1>4, <1>6, <1>9 DEF Logs
<1> DEFINE r == log[i][key + 1]
<1>11. /\ pos' = [pos EXCEPT ![Turn] = key + 1]
       /\ \/ r.tok = "eof" /\ pc' = "eof" /\ UNCHANGED held
          \/ /\ r.tok # "eof"
             /\ held' = Append(held, r)
             /\ pc' \in {"read", "send"}
  BY <1>5, <1>7 DEF Poll
<1> QED BY <1>10, <1>11

LEMMA LoopKept ==
    ASSUME Inv, [Next]_vars, restarted' = {}
    PROVE  Loop'
<1>1. restarted = {} /\ base' = base /\ input' = input
  <2>1. ~ \E i \in Inputs : RestartInput(i) BY DEF RestartInput
  <2> QED BY <2>1, LogsKept, InputsFixed DEF Next, vars, Produce, Work, Deliver, Restart, Start,
             Poll, PollExpires, Send, SendEof, Ack, SendThrows, Crash, topics
<1>2. Logs /\ Loop /\ TypeOK BY <1>1 DEF Inv, SideBySide, Logs, Loop
<1>3. /\ args' = args /\ len' = len /\ token' = token /\ Args' = Args /\ Arity' = Arity
      /\ ArgNumbers' = ArgNumbers
  BY <1>1 DEF input, Args, Arity, ArgNumbers
<1>4. /\ key \in Nat /\ out \in Seq(Sums \cup {Eof}) /\ held \in Seq(Records)
      /\ len \in [Inputs -> Nat] /\ pos \in [Inputs -> Nat \cup {Begin}]
      /\ Len(held) =< Arity /\ Len(held) \in Nat /\ Len(out) \in Nat /\ Arity \in {1, 2}
      /\ Args \subseteq Inputs /\ ArgNumbers \subseteq Inputs
  BY <1>2, AddAssumption, ArgFacts DEF TypeOK, ArgNumbers, Inputs
<1>5. ASSUME pc' \notin {"start", "read", "send", "eof"} PROVE Loop'
  BY <1>5 DEF Loop
<1>6. ASSUME UNCHANGED <<out, pc, run>> PROVE Loop'
  <2>1. out' = out /\ pc' = pc /\ pos' = pos /\ held' = held /\ key' = key /\ Closed' = Closed
    BY <1>6 DEF run, Closed
  <2>2. \A a \in Inputs : Position(a)' = Position(a) BY <1>1, <1>3, <2>1 DEF Position
  <2>3. \A i, n : Rec(i, n)' = Rec(i, n) BY <1>3 DEF Rec
  <2> QED BY <1>2, <1>3, <1>4, <2>1, <2>2, <2>3 DEF Loop
<1>7. CASE Deliver
  <2>1. pc' = "start" => out' = <<>> BY <1>7 DEF Deliver, Inv, SideBySide
  <2> QED BY <1>7, <2>1 DEF Deliver, Loop
<1>8. CASE Restart BY <1>8 DEF Restart, Loop
<1>9. CASE Start
  <2>1. out' = <<>> /\ pc' = "read" /\ key' = 0 /\ held' = <<>>
        /\ pos' = [k \in Inputs |-> Begin]
    BY <1>2, <1>9 DEF Start, Loop
  <2>2. Len(<<>>) = 0 OBVIOUS
  <2>3. \A a \in ArgNumbers : Position(a)' = 0
    <3>1. \A a \in ArgNumbers : args[a] \in Inputs BY <1>2, <1>4, ArgFacts
    <3>2. \A j \in Inputs : base[j] = 0 BY <1>2 DEF Logs
    <3> QED BY <1>1, <1>3, <1>4, <2>1, <3>1, <3>2 DEF Position
  <2>4. ~ Closed' BY <2>1, <2>2 DEF Closed
  <2>5. \A i \in Args : 0 =< len[i] BY <1>4
  <2>6. \A a \in ArgNumbers : ~ (a =< 0) BY DEF ArgNumbers
  <2> QED BY <1>3, <2>1, <2>2, <2>3, <2>4, <2>5, <2>6 DEF Loop
<1>10. CASE Poll
  <2>1. PICK r \in Records :
             /\ r = Rec(args[Turn], key + 1)
             /\ pos' = [pos EXCEPT ![Turn] = key + 1]
             /\ \/ r.tok = "eof" /\ pc' = "eof" /\ UNCHANGED held
                \/ /\ r.tok # "eof"
                   /\ held' = Append(held, r)
                   /\ pc' \in {"read", "send"}
    BY <1>1, <1>10, PollFacts
  <2>2. key' = key /\ out' = out /\ Closed' = Closed /\ pc = "read" /\ Len(held) < Arity
    BY <1>2, <1>10 DEF Poll, Closed, TypeOK
  <2>3. Len(out) = key /\ ~ Closed /\ \A i \in Args : key =< len[i] BY <1>2, <2>2 DEF Loop
  <2>4. Turn \in ArgNumbers /\ Turn = Len(held) + 1 BY <1>4, <2>2 DEF Turn, ArgNumbers
  <2>5. args[Turn] \in Args /\ args[Turn] \in Inputs BY <1>2, <1>4, <2>4, ArgFacts
  <2>6. CASE r.tok = "eof"
    <3>1. key + 1 > len[args[Turn]] /\ token[args[Turn]] = "eof"
      <4>1. key + 1 \in Nat \ {0} BY <1>4
      <4> QED BY <1>2, <2>1, <2>5, <2>6, <4>1, RecType
    <3>2. key = len[args[Turn]]
      <4>1. len[args[Turn]] \in Nat /\ key =< len[args[Turn]] BY <1>4, <2>3, <2>5
      <4> QED BY <1>4, <3>1, <4>1
    <3> QED BY <1>3, <2>1, <2>2, <2>3, <2>5, <2>6, <3>1, <3>2 DEF Loop
  <2>7. CASE r.tok # "eof"
    <3>1. held' = Append(held, r) /\ pc' \in {"read", "send"} BY <2>1, <2>7
    <3>2. /\ Len(held') = Len(held) + 1
          /\ \A a \in 1 .. Len(held) : held'[a] = held[a]
          /\ held'[Turn] = r
          /\ \A a \in 1 .. Len(held') : a \in 1 .. Len(held) \/ a = Turn
      BY <1>4, <2>4, <3>1, AppendFacts
    <3>3. \A i, n : Rec(i, n)' = Rec(i, n) BY <1>3 DEF Rec
    <3>4. \A a \in 1 .. Len(held') :
            held'[a] = Rec(args[a], key + 1) /\ held'[a].tok # "eof"
      BY <1>2, <2>1, <2>2, <2>7, <3>2 DEF Loop
    <3>5. \A a \in ArgNumbers : Position(a)' = key + (IF a =< Len(held') THEN 1 ELSE 0)
      <4> TAKE a \in ArgNumbers
      <4>1. a \in Nat BY DEF ArgNumbers
      <4>2. CASE a = Turn
        <5>1. pos'[a] = key + 1 /\ key + 1 # Begin BY <1>4, <2>1, <2>4, <4>2 DEF Begin
        <5>2. a =< Len(held') BY <1>4, <2>4, <3>2, <4>2
        <5> QED BY <5>1, <5>2 DEF Position
      <4>3. CASE a # Turn
        <5>1. pos'[a] = pos[a] BY <1>4, <2>1, <4>3
        <5>2. Position(a)' = Position(a) BY <1>1, <1>3, <5>1 DEF Position
        <5>3. Position(a) = key + (IF a =< Len(held) THEN 1 ELSE 0)
          BY <1>2, <2>2 DEF Loop
        <5>4. a =< Len(held) <=> a =< Len(held') BY <1>4, <2>4, <3>2, <4>1, <4>3
        <5> QED BY <5>2, <5>3, <5>4
      <4> QED BY <4>2, <4>3
    <3> QED BY <1>3, <2>2, <2>3, <3>1, <3>3, <3>4, <3>5 DEF Loop
  <2> QED BY <2>6, <2>7
<1>11. CASE Send
  <2>1. CASE ~ AllData BY <1>5, <1>11, <2>1 DEF Send
  <2>2. CASE AllData
    <3>0. /\ out' = Append(out, NextSum) /\ key' = key + 1 /\ held' = <<>>
          /\ pc' = "read" /\ pos' = pos
      BY <1>11, <2>2 DEF Send
    <3>1. /\ pc = "send" /\ Len(held) = Arity /\ Len(out) = key /\ ~ Closed
          /\ \A i \in Args : key =< len[i]
      BY <1>2, <1>11 DEF Send, Loop, TypeOK
    <3>2. ASSUME NEW a \in ArgNumbers
          PROVE  key + 1 =< len[args[a]] /\ Position(a) = key + 1
      <4>1. a \in 1 .. Len(held) /\ a =< Len(held) BY <3>1 DEF ArgNumbers
      <4>2. held[a] = Rec(args[a], key + 1) /\ Position(a) = key + 1
        BY <1>2, <3>1, <4>1 DEF Loop
      <4>3. args[a] \in Inputs /\ key + 1 \in Nat \ {0} BY <1>2, <1>4, ArgFacts
      <4> QED BY <1>2, <2>2, <4>2, <4>3, RecType DEF AllData
    <3>3. \A i \in Args : key + 1 =< len[i] BY <1>2, <3>2, ArgFacts
    <3> DEFINE e == NextSum
    <3>4. e \in Sums \cup {Eof} /\ e.tok # "eof" BY <1>2, <3>1, NextSumType
    <3>5. /\ Len(Append(out, e)) = Len(out) + 1
          /\ \A k \in 1 .. Len(out) : Append(out, e)[k] = out[k]
          /\ Append(out, e)[Len(out) + 1] = e
          /\ \A k \in 1 .. Len(out) + 1 : k \in 1 .. Len(out) \/ k = Len(out) + 1
      BY <1>4, <3>4, AppendFacts
    <3> HIDE DEF e
    <3>7. out' = Append(out, e) BY <3>0 DEF e
    <3>8. Len(out') = key' /\ ~ Closed'
      BY <3>0, <3>1, <3>4, <3>5, <3>7 DEF Closed
    <3>9. \A a \in ArgNumbers : Position(a)' = key' + (IF a =< Len(held') THEN 1 ELSE 0)
      <4> TAKE a \in ArgNumbers
      <4>1. Position(a)' = Position(a) BY <1>1, <1>3, <3>0 DEF Position
      <4>2. Len(held') = 0 /\ ~ (a =< 0) BY <3>0 DEF ArgNumbers
      <4> QED BY <1>4, <3>0, <3>2, <4>1, <4>2
    <3>10. Len(held') = 0 BY <3>0
    <3> QED BY <1>3, <3>0, <3>3, <3>8, <3>9, <3>10 DEF Loop
  <2> QED BY <2>1, <2>2
<1>12. CASE PollExpires \/ SendEof \/ SendThrows \/ Crash \/ Ack
  BY <1>5, <1>12 DEF PollExpires, SendEof, SendThrows, Crash, Ack
<1>13. ASSUME NEW i \in Inputs, Produce(i) PROVE Loop'
  BY <1>6, <1>13 DEF Produce
<1>14. ASSUME NEW i \in Inputs, RestartInput(i) PROVE Loop'
  BY <1>6, <1>14 DEF RestartInput
<1>15. CASE UNCHANGED vars BY <1>6, <1>15 DEF vars
<1> QED BY <1>7, <1>8, <1>9, <1>10, <1>11, <1>12, <1>13, <1>14, <1>15 DEF Next, Work

\* What Send is about to add, and where it stands.
LEMMA NextSumFits ==
    ASSUME Inv, restarted = {}, pc = "send", AllData
    PROVE  /\ Len(out) = key /\ key < Items
           /\ NextSum = Sum(key, [a \in ArgNumbers |-> key])
<1>1. Loop /\ TypeOK BY DEF Inv, SideBySide, Loop
<1>2. Len(out) = key /\ key \in Nat BY <1>1 DEF Loop, TypeOK
<1>3. ASSUME NEW a \in ArgNumbers
      PROVE  held[a].val = key /\ key + 1 =< len[args[a]]
  <2>1. held[a] = Rec(args[a], key + 1) BY <1>1, <1>3, NextSumType DEF Loop
  <2>2. args[a] \in Inputs /\ key + 1 \in Nat \ {0} BY <1>1, <1>2, ArgFacts
  <2>3. Rec(args[a], key + 1).tok = "data" BY <2>1 DEF AllData
  <2>4. Rec(args[a], key + 1).val = (key + 1) - 1 /\ key + 1 =< len[args[a]]
    BY <1>1, <2>2, <2>3, RecType
  <2>5. (key + 1) - 1 = key BY <1>2
  <2> QED BY <2>1, <2>4, <2>5
<1>4. \A i \in Args : key + 1 =< len[i] BY <1>1, <1>3, ArgFacts
<1>5. key < Items BY <1>1, <1>2, <1>4, ExpectedFacts
<1> QED BY <1>2, <1>3, <1>5 DEF NextSum

\* What SendEof adds, and where it stands.
LEMMA EofFits ==
    ASSUME Inv, restarted = {}, pc = "eof"
    PROVE  Len(out) = key /\ key = Items /\ EofIsRead
<1>1. Loop /\ TypeOK BY DEF Inv, SideBySide, Loop
<1>2. Len(out) = key /\ key \in Nat /\ \A i \in Args : key =< len[i]
  BY <1>1 DEF Loop, TypeOK
<1>3. PICK i \in Args : key = len[i] /\ token[i] = "eof" BY <1>1 DEF Loop
<1>4. key = Items BY <1>1, <1>2, <1>3, ExpectedFacts
<1> QED BY <1>2, <1>3, <1>4 DEF EofIsRead

LEMMA ExpectedFixed ==
    ASSUME [Next]_vars
    PROVE  /\ Items' = Items /\ EofIsRead' = EofIsRead /\ Expected' = Expected
           /\ args' = args /\ len' = len /\ token' = token
           /\ Args' = Args /\ ArgNumbers' = ArgNumbers
<1>1. args' = args /\ len' = len /\ token' = token BY InputsFixed DEF input
<1>2. Args' = Args /\ ArgNumbers' = ArgNumbers /\ Items' = Items
  BY <1>1 DEF Args, Arity, ArgNumbers, Items
<1>3. EofIsRead' = EofIsRead BY <1>1, <1>2 DEF EofIsRead
<1> QED BY <1>1, <1>2, <1>3 DEF Expected

LEMMA OutKept ==
    ASSUME Inv, [Next]_vars
    PROVE  OneRun'
<1> SUFFICES ASSUME restarted' = {}
             PROVE  /\ Len(out') =< Len(Expected)
                    /\ \A k \in 1 .. Len(out') : out'[k] = Expected[k]
  BY ExpectedFixed DEF OneRun
<1>1. restarted = {} BY LogsKept
<1>2. /\ TypeOK /\ Len(out) =< Len(Expected)
      /\ \A k \in 1 .. Len(out) : out[k] = Expected[k]
  BY <1>1 DEF Inv, SideBySide, OneRun
<1>3. out \in Seq(Sums \cup {Eof}) /\ Len(out) \in Nat /\ Len(Expected) \in Nat
  BY <1>2, ExpectedFacts DEF TypeOK
<1>4. CASE out' = out BY <1>2, <1>4
<1>5. CASE out' = <<>>
  <2>1. Len(out') = 0 BY <1>5
  <2> QED BY <1>3, <2>1
<1>6. ASSUME NEW e \in Sums \cup {Eof}, out' = Append(out, e),
             Len(out) + 1 =< Len(Expected), e = Expected[Len(out) + 1]
      PROVE  /\ Len(out') =< Len(Expected)
             /\ \A k \in 1 .. Len(out') : out'[k] = Expected[k]
  <2>1. /\ Len(out') = Len(out) + 1
        /\ \A k \in 1 .. Len(out) : out'[k] = out[k]
        /\ out'[Len(out) + 1] = e
        /\ \A k \in 1 .. Len(out') : k \in 1 .. Len(out) \/ k = Len(out) + 1
    BY <1>3, <1>6, AppendFacts
  <2> QED BY <1>2, <1>6, <2>1
<1>7. ASSUME pc = "send", AllData, out' = Append(out, NextSum)
      PROVE  /\ Len(out') =< Len(Expected)
             /\ \A k \in 1 .. Len(out') : out'[k] = Expected[k]
  <2>1. /\ Len(out) = key /\ key < Items /\ key \in Nat /\ Items \in Nat
        /\ NextSum = Sum(key, [a \in ArgNumbers |-> key]) /\ NextSum \in Sums
    BY <1>1, <1>2, <1>7, NextSumFits, NextSumType, ExpectedFacts DEF TypeOK
  <2>2. key + 1 \in 1 .. Items /\ (key + 1) - 1 = key BY <2>1
  <2>3. Expected[key + 1] = Sum(key, [a \in ArgNumbers |-> key])
    <3>1. Expected[key + 1] = Sum((key + 1) - 1, [a \in ArgNumbers |-> (key + 1) - 1])
      BY <1>2, <2>2, ExpectedFacts
    <3> QED BY <2>2, <3>1
  <2>4. Len(out) + 1 =< Len(Expected) BY <1>2, <2>1, ExpectedFacts
  <2> QED BY <1>6, <1>7, <2>1, <2>3, <2>4
<1>8. ASSUME pc = "eof", out' = Append(out, Eof)
      PROVE  /\ Len(out') =< Len(Expected)
             /\ \A k \in 1 .. Len(out') : out'[k] = Expected[k]
  <2>1. Len(out) = Items /\ EofIsRead BY <1>1, <1>8, EofFits
  <2>2. Len(out) + 1 =< Len(Expected) /\ Expected[Len(out) + 1] = Eof
    BY <1>2, <2>1, ExpectedFacts
  <2> QED BY <1>6, <1>8, <2>2
<1>9. out' = out \/ out' = <<>> \/ Send \/ SendEof \/ SendThrows
  BY DEF Next, vars, Produce, RestartInput, Work, Deliver, Restart, Start, Poll, PollExpires,
     Ack, Crash
<1>10. CASE Send BY <1>4, <1>7, <1>10 DEF Send
<1>11. CASE SendEof BY <1>8, <1>11 DEF SendEof
<1>12. CASE SendThrows BY <1>4, <1>7, <1>8, <1>12 DEF SendThrows
<1> QED BY <1>4, <1>5, <1>9, <1>10, <1>11, <1>12

\* A sequence that is as long as the expected one, and begins as it does.
LEMMA WholeResult ==
    ASSUME TypeOK, NEW q \in Seq(Sums \cup {Eof}), Len(q) = Len(Expected),
           \A k \in 1 .. Len(q) : q[k] = Expected[k]
    PROVE  q = Expected
<1>1. q = [k \in 1 .. Len(q) |-> q[k]] OBVIOUS
<1> QED BY <1>1, ExpectedFacts

LEMMA WholeKept ==
    ASSUME Inv, [Next]_vars
    PROVE  /\ ~ node' => out' = <<>> /\ pc' = "idle" /\ ~ acked'
           /\ acked' => pc' = "idle"
           /\ (acked' \/ pc' = "ack") /\ Undisturbed' => out' = Expected'
<1>1. /\ ~ node => out = <<>> /\ pc = "idle" /\ ~ acked
      /\ acked => pc = "idle"
      /\ (acked \/ pc = "ack") /\ Undisturbed => out = Expected
  BY DEF Inv, SideBySide
<1>2. Expected' = Expected BY ExpectedFixed
<1>3. TypeOK /\ TypeOK' BY NextType DEF Inv
<1>4. ~ node' => out' = <<>> /\ pc' = "idle" /\ ~ acked'
  BY <1>1 DEF Next, vars, Produce, RestartInput, Work, Deliver, Restart, Start, Poll,
     PollExpires, Send, SendEof, Ack, SendThrows, Crash, task
<1>5. acked' => pc' = "idle"
  BY <1>1 DEF Next, vars, Produce, RestartInput, Work, Deliver, Restart, Start, Poll,
     PollExpires, Send, SendEof, Ack, SendThrows, Crash, task
<1>6. ASSUME acked' \/ pc' = "ack", Undisturbed' PROVE out' = Expected
  <2>1. restarted = {} /\ OneRun' /\ restarted' = {}
    BY <1>6, LogsKept, OutKept DEF Undisturbed
  <2>2. /\ out' \in Seq(Sums \cup {Eof}) /\ out \in Seq(Sums \cup {Eof})
        /\ \A k \in 1 .. Len(out') : out'[k] = Expected[k]
    BY <1>2, <1>3, <2>1 DEF TypeOK, OneRun
  <2>3. ASSUME out' = out, restarted' = restarted, expired' = expired, threw' = threw,
               acked \/ pc = "ack"
        PROVE  out' = Expected
    BY <1>1, <1>6, <2>3 DEF Undisturbed
  <2>4. ~ PollExpires /\ ~ SendThrows
    BY <1>6 DEF PollExpires, SendThrows, Undisturbed
  <2>5. CASE SendEof
    <3>1. Len(out) = Items /\ EofIsRead BY <2>1, <2>5, EofFits DEF SendEof
    <3>2. Len(out') = Len(out) + 1
      BY <2>2, <2>5, AppendFacts DEF SendEof
    <3>3. Len(out') = Len(Expected) BY <1>3, <3>1, <3>2, ExpectedFacts
    <3> QED BY <1>3, <2>2, <3>3, WholeResult
  <2>6. CASE Send
    <3>1. pc = "send" /\ ~ AllData /\ out' = out BY <1>1, <1>6, <2>6 DEF Send, task
    <3>2. Loop BY <2>1 DEF Inv, SideBySide, Loop
    <3>3. /\ Len(out) = key /\ key \in Nat /\ key + 1 \in Nat \ {0}
          /\ \A i \in Args : key =< len[i]
      BY <1>3, <3>1, <3>2 DEF Loop, TypeOK
    <3>4. \A a \in ArgNumbers :
            /\ held[a] = Rec(args[a], key + 1) /\ held[a].tok # "eof"
            /\ args[a] \in Args /\ args[a] \in Inputs
      BY <1>3, <3>1, <3>2, NextSumType, ArgFacts DEF Loop
    <3>5. key = Items
      <4>1. PICK a \in ArgNumbers : held[a].tok # "data" BY <3>1 DEF AllData
      <4>2. key + 1 > len[args[a]] BY <1>3, <3>3, <3>4, <4>1, RecType
      <4>3. key =< len[args[a]] /\ len[args[a]] \in Nat /\ Items =< len[args[a]]
        BY <1>3, <3>3, <3>4, ExpectedFacts
      <4>4. key = len[args[a]] BY <3>3, <4>2, <4>3
      <4> QED BY <1>3, <3>3, <4>3, <4>4, ExpectedFacts
    <3>6. ~ EofIsRead
      <4> SUFFICES ASSUME NEW i \in Args, len[i] = Items, token[i] = "eof" PROVE FALSE
        BY DEF EofIsRead
      <4>1. PICK a \in ArgNumbers : args[a] = i BY <1>3, ArgFacts
      <4>2. ~ (key + 1 =< len[i]) BY <3>3, <3>5
      <4>3. Rec(i, key + 1) = Token("eof") BY <4>2 DEF Rec
      <4> QED BY <3>4, <4>1, <4>3 DEF Token
    <3>7. Len(out) = Len(Expected) BY <1>3, <3>3, <3>5, <3>6, ExpectedFacts
    <3> QED BY <1>3, <2>2, <3>1, <3>7, WholeResult
  <2>7. CASE \E i \in Inputs : Produce(i)
    BY <1>6, <2>3, <2>7 DEF Produce, task, harm
  <2>8. ~ \E i \in Inputs : RestartInput(i) BY <2>1 DEF RestartInput
  <2>9. CASE Ack \/ UNCHANGED vars
    BY <1>6, <2>3, <2>9 DEF Ack, vars, task, harm
  <2>10. CASE Deliver \/ Restart \/ Start \/ Poll \/ Crash
    BY <1>1, <1>6, <2>3, <2>10 DEF Deliver, Restart, Start, Poll, Crash, task
  <2> QED BY <2>4, <2>5, <2>6, <2>7, <2>8, <2>9, <2>10 DEF Next, Work
<1> QED BY <1>2, <1>4, <1>5, <1>6

\* The first part of the result: every sum is that of the items at its place.
LEMMA OneRunPairsUp == TypeOK /\ OneRun => SumsPairUp
<1> SUFFICES ASSUME TypeOK, OneRun, restarted = {},
                    NEW k \in 1 .. Len(out), out[k].tok = "data"
             PROVE  out[k] = Sum(k - 1, [a \in ArgNumbers |-> k - 1])
  BY DEF SumsPairUp
<1>1. out[k] = Expected[k] /\ k \in 1 .. Len(Expected)
  <2>1. Len(out) \in Nat /\ Len(Expected) \in Nat BY ExpectedFacts DEF TypeOK
  <2> QED BY <2>1 DEF OneRun
<1>2. k \in 1 .. Items \/ Expected[k] = Eof BY <1>1, ExpectedFacts
<1>3. Eof.tok # "data" BY DEF Eof
<1> QED BY <1>1, <1>2, <1>3, ExpectedFacts
-----------------------------------------------------------------------------
(* The theorems. *)

LEMMA InitInv == Init => Inv
<1> SUFFICES ASSUME Init PROVE Inv OBVIOUS
<1>1. TypeOK BY InitType
<1>2. /\ out = <<>> /\ pc = "idle" /\ ~ acked
      /\ \A i \in Inputs : base[i] = 0 /\ log[i] = <<>> /\ len[i] \in Nat
  BY AddAssumption DEF Init
<1>3. Len(<<>>) = 0 /\ \A n \in 1 .. 0 : FALSE OBVIOUS
<1>4. OneRun
  <2>1. Len(Expected) \in Nat BY <1>1, ExpectedFacts
  <2> QED BY <1>2, <1>3, <2>1 DEF OneRun
<1> QED BY <1>1, <1>2, <1>3, <1>4, OneRunPairsUp DEF Inv, SideBySide

LEMMA NextInv == Inv /\ [Next]_vars => Inv'
<1> SUFFICES ASSUME Inv, [Next]_vars PROVE Inv' OBVIOUS
<1>1. TypeOK' BY NextType DEF Inv
<1>2. restarted' = {} => Logs' /\ Loop' BY LogsKept, LoopKept
<1>3. SumsPairUp'
  <2>1. (TypeOK /\ OneRun => SumsPairUp)' BY OneRunPairsUp, PTL
  <2> QED BY <1>1, <2>1, OutKept
<1>4. SideBySide' BY <1>2, <1>3, OutKept, WholeKept DEF SideBySide, Logs, Loop
<1> QED BY <1>1, <1>4 DEF Inv

LEMMA SpecInv == Spec => []Inv
BY InitInv, NextInv, PTL DEF Spec

\* Every reachable state is well formed.
THEOREM AddTypeCorrect == Spec => []TypeOK
<1>1. Inv => TypeOK BY DEF Inv
<1> QED BY <1>1, SpecInv, PTL

\* The inductive invariant: both consumers are at the next key, or one behind
\* it, and what was read and not summed is held.
THEOREM ConsumersSideBySide == Spec => []SideBySide
<1>1. Inv => SideBySide BY DEF Inv
<1> QED BY <1>1, SpecInv, PTL

\* Add.run: sums are those of items at the same place.
THEOREM SumsArePairs == Spec => []SumsPairUp
<1>1. Inv => SumsPairUp BY DEF Inv, SideBySide
<1> QED BY <1>1, SpecInv, PTL

\* Add.run: what can be read of a result is how one execution begins.
THEOREM ResultsAreOneRun == Spec => []LooksLikeOneRun
<1>1. Inv => LooksLikeOneRun BY DEF Inv, SideBySide, LooksLikeOneRun
<1> QED BY <1>1, SpecInv, PTL

\* Crashes of its own worker never cut an acknowledged result short.
THEOREM AcknowledgedIsWhole == Spec => []AckedIsWhole
<1>1. Inv => AckedIsWhole BY DEF Inv, SideBySide, AckedIsWhole
<1> QED BY <1>1, SpecInv, PTL
=============================================================================
