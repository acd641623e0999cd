---------------------------- MODULE MCGroupCommit ----------------------------
(* Small instances of GroupCommit: two commands, windows of two.           *)
EXTENDS GroupCommit, TLC

Unbatched == [items |-> 0, delay |-> FALSE]
WindowOfTwo == [items |-> 2, delay |-> TRUE]

\* A journal with windows of two and a timer, and one without a batcher.
BothSettings == {Unbatched, WindowOfTwo}
BatchedOnly == {WindowOfTwo}

\* Appenders (and closers) are interchangeable.
Symmetry == Permutations(Appender) \cup Permutations(Closer)
=============================================================================
