-------------------------------- MODULE MCDrift --------------------------------
(* Instances of Drift for TLC. *)
EXTENDS Drift, TLC

CONSTANTS w1, w2, s1, s2, e, c, s, x, y, A, B, C

Symmetry == Permutations(Workers)

Cmd(t, services, a) == [target |-> t, services |-> services, arg |-> a]

\* An emitter, its copy in a pipe, and the square of the copy.
PipeKind  == e :> "emitter" @@ c :> "cat" @@ s :> "square"
PipeInput == e :> None @@ c :> e @@ s :> c
PipeCommands ==
    {Cmd(A, <<"emitter">>, None), Cmd(B, <<"emitter", "cat">>, None),
     Cmd(C, <<"square">>, B), Cmd(None, <<"square">>, B)}

\* A failing emitter and its copy.
FailKind  == x :> "errEmitter" @@ y :> "cat"
FailInput == x :> None @@ y :> x
FailCommands ==
    {Cmd(A, <<"errEmitter">>, None), Cmd(B, <<"cat">>, A),
     Cmd(None, <<"errEmitter">>, None)}
=============================================================================
