----------------------------- MODULE MCDescriptors -----------------------------
(* Small instances of Descriptors for TLC.                                   *)
EXTENDS Descriptors

To(n, f)   == [kind |-> "file", fd |-> n, to |-> f]
Copy(n, m) == [kind |-> "dup", fd |-> n, to |-> m]
Shut(n)    == [kind |-> "close", fd |-> n, to |-> 0]
Here(n)    == [kind |-> "heredoc", fd |-> n, to |-> 0]

\* files and copies, a descriptor the shell's copies use, a failure after it,
\* closed streams, a heredoc
MCLists == {<<To(1, 1), Copy(2, 1)>>, <<To(3, 2), Copy(1, 3)>>,
            <<To(0, 2), Shut(1)>>, <<Here(0)>>, <<Shut(0)>>}

MCStageLists == {<<>>, <<Copy(2, 1)>>}
===============================================================================
