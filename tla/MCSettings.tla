------------------------------ MODULE MCSettings ------------------------------
(* Small instances of Settings for TLC: two options. *)
EXTENDS Settings

\* What a first launch, a user with an editor or a crash leaves that the
\* loading copes with.
RecoverableFiles == Files \ {Scalar}

WholeFile == {Object(Defaults)}
ScalarFile == {Scalar}
==============================================================================
