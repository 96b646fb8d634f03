------------------------------ MODULE MCHotReload ------------------------------
(***************************************************************************)
(* Instances of HotReload for TLC: two files that can define one pipeline, *)
(* the same one twice, or two, and a content that does not load.           *)
(***************************************************************************)
EXTENDS HotReload

CONSTANT c1

File(n, s) == [name |-> n, steps |-> s]

Build1 == File("build", <<"make">>)
Deploy == File("deploy", <<"push">>)
NoSteps == File("deploy", <<>>)
MCContents == {Build1, Deploy, NoSteps}

At(t, c) == [time |-> t, content |-> c]

\* The time left for a write is later than that of one file, earlier than that
\* of the other.
MCInitialFiles == {<<At(1, Build1), At(3, NoSteps)>>}
===============================================================================
