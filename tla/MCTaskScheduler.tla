-------------------------- MODULE MCTaskScheduler --------------------------
(* Two or three tasks, the root conversation and one a task may own, over  *)
(* the ownership trees that tell the rules apart.                          *)
EXTENDS TaskScheduler
CONSTANTS root, sub
TwoConvs == {root, sub}
OneConv == {root}

At(owner, conv, background) == [owner |-> owner, conv |-> conv, background |-> background]
Top == At(0, root, FALSE)

\* A task with a child, with work in a conversation it may own, and with such
\* work in the background.
Pairs == {<<Top, At(1, root, FALSE)>>, <<Top, At(0, sub, FALSE)>>, <<Top, At(0, sub, TRUE)>>}

\* A task with two children.
Families == {<<Top, At(1, root, FALSE), At(1, root, FALSE)>>}
=============================================================================
