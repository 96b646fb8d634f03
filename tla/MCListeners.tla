------------------------------ MODULE MCListeners ------------------------------
(***************************************************************************)
(* Instances of Listeners for TLC.                                         *)
(***************************************************************************)
EXTENDS Listeners

CONSTANT q1

\* The time left for a change is later than that of a file, or earlier than
\* those of both.
MCInitialDirs == {<<1, 0>>, <<2, 2>>}
===============================================================================
