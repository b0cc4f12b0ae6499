------------------------------ MODULE MCMailbox -----------------------------
(***************************************************************************)
(* Small instances of GitHubMailbox: the bounds of seven kinds of          *)
(* behaviour, each large where its question is.                            *)
(***************************************************************************)
EXTENDS GitHubMailbox

Scope(role, revisions, comments, versions, humans, moves, letters, replies, deaths, faults) ==
    [role |-> role, revisions |-> revisions, comments |-> comments, versions |-> versions,
     humans |-> humans, bases |-> moves, notes |-> letters,
     remarks |-> replies, crashes |-> deaths, errors |-> faults]

Feedback == Scope("student", 2, 2, 1, 0, 0, 0, 0, 1, 1)
Edits    == Scope("student", 2, 1, 2, 0, 0, 0, 0, 1, 0)
Issues   == Scope("student", 1, 1, 1, 1, 0, 0, 0, 1, 1)
Edges    == Scope("advisor", 1, 0, 0, 0, 1, 1, 0, 0, 1)
Students == Scope("advisor", 2, 0, 0, 1, 0, 0, 0, 1, 0)

Threads  == Scope("student", 2, 0, 0, 1, 0, 0, 0, 0, 1)
Remarks  == Scope("advisor", 1, 0, 0, 0, 0, 0, 1, 1, 1)

AllScopes == {Feedback, Edits, Issues, Edges, Students, Threads, Remarks}
EdgeScopes == {Edges}
ThreadScopes == {Threads}
=============================================================================
