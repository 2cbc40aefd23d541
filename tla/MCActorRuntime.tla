---------------------------- MODULE MCActorRuntime ----------------------------
(* Every short program over two actors, or one.                            *)
EXTENDS ActorRuntime

Says(does, t, size) == [at |-> t, does |-> does, size |-> size]

Ends == {Says(does, t, 0) : does \in {"exit", "abort", "panic"}, t \in Thread}

UpTo(n, statements) == UNION {[1 .. k -> statements] : k \in 0 .. n}

(* One byte fits, three bytes are a block of two and a rest.               *)
Threes == UpTo(3, Ends \union {Says("print", t, n) : t \in Thread, n \in {1, 3}})
=============================================================================
