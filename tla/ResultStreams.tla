---------------------------- MODULE ResultStreams ----------------------------
(***************************************************************************)
(* What Drift promises about its results, with the workers, the brokers    *)
(* and the task queue left out.  A result is a stream that grows by one    *)
(* item at a time and ends with a token; a source produces the items 0, 1, *)
(* 2, ... by itself, a reader passes on what stands at the same place in   *)
(* its input.  Nothing is ever skipped, repeated, reordered or added       *)
(* behind a token, so a stream looks like one execution of its call.       *)
(* Only the results in Resettable may start over, and only as a whole.     *)
(***************************************************************************)
EXTENDS Integers, Sequences

CONSTANTS Results, Kind, Input, Items, Resettable

VARIABLE stream   \* stream[r]: what a reader of result r sees

Item(n) == [tok |-> "data", key |-> n, val |-> n]
Token(t) == [tok |-> t, key |-> 0, val |-> 0]

Ended(r) == \E i \in 1 .. Len(stream[r]) : stream[r][i].tok # "data"

SInit == stream = [r \in Results |-> <<>>]

\* A source goes through its items and then sends its token.
Source(r) ==
    LET n == Len(stream[r]) IN
    /\ Kind[r] \in {"emitter", "errEmitter", "err"} /\ ~Ended(r)
    /\ \/ /\ Kind[r] # "err" /\ n < Items
          /\ stream' = [stream EXCEPT ![r] = Append(@, Item(n))]
       \/ /\ Kind[r] = "emitter" /\ n = Items
          /\ stream' = [stream EXCEPT ![r] = Append(@, Token("eof"))]
       \/ /\ Kind[r] = "errEmitter" /\ n = Items
          /\ stream' = [stream EXCEPT ![r] = Append(@, Token("err"))]
       \/ /\ Kind[r] = "err"
          /\ stream' = [stream EXCEPT ![r] = Append(@, Token("err"))]

\* A reader passes on the next record of its input, the token included.
Relay(r) ==
    LET n == Len(stream[r]) IN
    /\ Kind[r] \in {"cat", "square"} /\ ~Ended(r)
    /\ n < Len(stream[Input[r]])
    /\ stream' = [stream EXCEPT ![r] = Append(@, stream[Input[r]][n + 1])]

Reset(r) ==
    /\ r \in Resettable
    /\ stream' = [stream EXCEPT ![r] = <<>>]

SNext == \E r \in Results : Source(r) \/ Relay(r) \/ Reset(r)

SSpec == SInit /\ [][SNext]_stream
=============================================================================
