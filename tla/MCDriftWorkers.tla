---------------------------- MODULE MCDriftWorkers ----------------------------
(* Instances of DriftWorkers for TLC: small networks of calls. *)
EXTENDS DriftWorkers, TLC

CONSTANTS w1, w2, e, c, d, s, x, y

Symmetry == Permutations(Workers)

\* An emitter with its square, and Err with its copy.
PairsKind  == e :> "emitter" @@ s :> "square" @@ x :> "err" @@ y :> "cat"
PairsInput == e :> None @@ s :> e @@ x :> None @@ y :> x

\* Err with its copy and its square.
FaultKind  == x :> "err" @@ c :> "cat" @@ s :> "square"
FaultInput == x :> None @@ c :> x @@ s :> x

\* An emitter, its copy, and the copy of the copy.
ChainKind  == e :> "emitter" @@ c :> "cat" @@ d :> "cat"
ChainInput == e :> None @@ c :> e @@ d :> c

\* An emitter and its copy.
CatKind  == e :> "emitter" @@ c :> "cat"
CatInput == e :> None @@ c :> e

\* An emitter.
SoloKind  == e :> "emitter"
SoloInput == e :> None
=============================================================================
