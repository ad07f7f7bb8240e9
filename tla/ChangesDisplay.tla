---------------------------- MODULE ChangesDisplay ----------------------------
(***************************************************************************)
(* What the admin "changes" command promises, with each of its effects one *)
(* atomic step: it prints the changes of the server's stream one at a time *)
(* in the order sent; it exits with status 0 only once the stream has     *)
(* ended normally (io.EOF) and everything sent has been printed; it may    *)
(* fail with status 1.  The server sends changes on an open stream and    *)
(* ends it normally or with an error.                                     *)
(*                                                                         *)
(* AdminChanges, where main, the reader goroutine and waitc share the work, *)
(* implements this specification (AdminChanges!DisplaySpec).              *)
(***************************************************************************)
EXTENDS Naturals, Sequences

CONSTANT MaxChanges   \* the most changes the server sends in one stream

VARIABLES
    stream,     \* "open", or how the server ended it: "eof" or "error"
    sent,       \* the changes the server has sent, in order
    printed,    \* the changes the command has printed, in order
    exitCode    \* "running", or how the process exited

vars == <<stream, sent, printed, exitCode>>

Init ==
    /\ stream = "open"
    /\ sent = <<>>
    /\ printed = <<>>
    /\ exitCode = "running"

\* The server sends the next change.
Send ==
    /\ stream = "open"
    /\ Len(sent) < MaxChanges
    /\ sent' = Append(sent, Len(sent) + 1)
    /\ UNCHANGED <<stream, printed, exitCode>>

\* The server ends the stream, normally or with an error.
End ==
    /\ stream = "open"
    /\ stream' \in {"eof", "error"}
    /\ UNCHANGED <<sent, printed, exitCode>>

\* The command prints the first change it has not printed yet.
PrintNext ==
    /\ exitCode = "running"
    /\ Len(printed) < Len(sent)
    /\ printed' = Append(printed, sent[Len(printed) + 1])
    /\ UNCHANGED <<stream, sent, exitCode>>

\* The command exits with status 0: the stream ended normally and every
\* change sent has been printed.
Succeed ==
    /\ exitCode = "running"
    /\ stream = "eof"
    /\ printed = sent
    /\ exitCode' = "exit0"
    /\ UNCHANGED <<stream, sent, printed>>

\* The command fails and exits with status 1.
Fail ==
    /\ exitCode = "running"
    /\ exitCode' = "exit1"
    /\ UNCHANGED <<stream, sent, printed>>

Next == Send \/ End \/ PrintNext \/ Succeed \/ Fail

Spec == Init /\ [][Next]_vars
=============================================================================
