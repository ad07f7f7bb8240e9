----------------------------- MODULE AdminChanges -----------------------------
(***************************************************************************)
(* The admin "changes" command (src/cmd/admin/changes/changes.go): main    *)
(* opens the server stream of Changes, starts a reader goroutine that      *)
(* prints every change until io.EOF, half-closes the stream with           *)
(* CloseSend, and waits for the reader to close waitc.  Every error ends   *)
(* the process through log.Fatalf (exit status 1).                         *)
(*                                                                         *)
(* The admin server is the environment: it sends changes in order over     *)
(* one gRPC stream (ordered, not lost), then ends the stream normally or   *)
(* with an error, or keeps it open.  A change is its index.                *)
(***************************************************************************)
EXTENDS Naturals, Sequences

CONSTANT MaxChanges   \* the most changes the server sends in one stream

ASSUME ChangesAssumption == MaxChanges \in Nat

\* What stream.Recv can return: a change, io.EOF, or another error.
Change(i) == [kind |-> "change", id |-> i]
EOF == [kind |-> "EOF", id |-> 0]
RecvErr == [kind |-> "error", id |-> 0]
Events == {Change(i) : i \in 1..MaxChanges} \cup {EOF, RecvErr}

VARIABLES
    mainPc,     \* where main is
    readerPc,   \* where the reader goroutine is
    waitc,      \* whether waitc has been closed
    server,     \* "open" while the server may still send, then "ended"
    sent,       \* the changes the server has sent, in order
    inflight,   \* what the stream holds and Recv has not returned yet
    printed,    \* the changes the reader has printed, in order
    exitCode    \* "running", or how the process exited

vars == <<mainPc, readerPc, waitc, server, sent, inflight, printed, exitCode>>

TypeOK ==
    /\ mainPc \in {"changes", "closeSend", "wait", "returned"}
    /\ readerPc \in {"notStarted", "recv", "returned"}
    /\ waitc \in BOOLEAN
    /\ server \in {"open", "ended"}
    /\ sent \in Seq(1..MaxChanges)
    /\ inflight \in Seq(Events)
    /\ printed \in Seq(1..MaxChanges)
    /\ exitCode \in {"running", "exit0", "exit1"}

Init ==
    /\ mainPc = "changes"
    /\ readerPc = "notStarted"
    /\ waitc = FALSE
    /\ server = "open"
    /\ sent = <<>>
    /\ inflight = <<>>
    /\ printed = <<>>
    /\ exitCode = "running"

\* log.Fatalf: the process exits with status 1 at once.
Fatal ==
    /\ exitCode' = "exit1"
    /\ UNCHANGED <<mainPc, readerPc, waitc, server, sent, inflight, printed>>

\* client.Changes: the request fails (log.Fatalf), or the stream is open,
\* waitc is made and the reader goroutine started (changes.go:33-52).
Changes ==
    /\ mainPc = "changes"
    /\ \/ Fatal
       \/ /\ mainPc' = "closeSend"
          /\ readerPc' = "recv"
          /\ UNCHANGED <<waitc, server, sent, inflight, printed, exitCode>>

\* stream.CloseSend: an error is fatal (changes.go:53-56).
CloseSend ==
    /\ mainPc = "closeSend"
    /\ \/ Fatal
       \/ /\ mainPc' = "wait"
          /\ UNCHANGED <<readerPc, waitc, server, sent, inflight, printed, exitCode>>

\* Mutant of Wait: main returns without waiting for the reader.
WaitNoBlock ==
    /\ mainPc = "wait"
    /\ mainPc' = "returned"
    /\ exitCode' = "exit0"
    /\ UNCHANGED <<readerPc, waitc, server, sent, inflight, printed>>

\* <-waitc, then main returns and the process exits with status 0.
Wait ==
    /\ mainPc = "wait"
    /\ waitc
    /\ mainPc' = "returned"
    /\ exitCode' = "exit0"
    /\ UNCHANGED <<readerPc, waitc, server, sent, inflight, printed>>

\* Mutant of Recv: io.EOF ends the loop without closing waitc.
RecvNoClose ==
    /\ readerPc = "recv"
    /\ inflight # <<>>
    /\ LET ev == Head(inflight) IN
        \/ /\ ev = EOF
           /\ readerPc' = "returned"
           /\ inflight' = Tail(inflight)
           /\ UNCHANGED <<mainPc, waitc, server, sent, printed, exitCode>>
        \/ /\ ev = RecvErr
           /\ Fatal
        \/ /\ ev.kind = "change"
           /\ inflight' = Tail(inflight)
           /\ printed' = Append(printed, ev.id)
           /\ UNCHANGED <<mainPc, readerPc, waitc, server, sent, exitCode>>

\* Mutant of Recv: a receive error is only logged, and the loop goes on
\* to print the nil response.
RecvLogOnly ==
    /\ readerPc = "recv"
    /\ inflight # <<>>
    /\ LET ev == Head(inflight) IN
        \/ /\ ev = EOF
           /\ readerPc' = "returned"
           /\ waitc' = TRUE
           /\ inflight' = Tail(inflight)
           /\ UNCHANGED <<mainPc, server, sent, printed, exitCode>>
        \/ /\ ev # EOF
           /\ inflight' = Tail(inflight)
           /\ printed' = Append(printed, ev.id)
           /\ UNCHANGED <<mainPc, readerPc, waitc, server, sent, exitCode>>

\* Mutant of Recv: any receive error is taken for the end of the stream,
\* as if the check were err != nil instead of err == io.EOF.
RecvErrAsEOF ==
    /\ readerPc = "recv"
    /\ inflight # <<>>
    /\ LET ev == Head(inflight) IN
        \/ /\ ev \in {EOF, RecvErr}
           /\ readerPc' = "returned"
           /\ waitc' = TRUE
           /\ inflight' = Tail(inflight)
           /\ UNCHANGED <<mainPc, server, sent, printed, exitCode>>
        \/ /\ ev.kind = "change"
           /\ inflight' = Tail(inflight)
           /\ printed' = Append(printed, ev.id)
           /\ UNCHANGED <<mainPc, readerPc, waitc, server, sent, exitCode>>

\* One iteration of the reader loop (changes.go:39-51): stream.Recv blocks
\* for the next event; io.EOF closes waitc and returns; another error is
\* fatal; a change is printed.
Recv ==
    /\ readerPc = "recv"
    /\ inflight # <<>>
    /\ LET ev == Head(inflight) IN
        \/ /\ ev = EOF
           /\ readerPc' = "returned"
           /\ waitc' = TRUE
           /\ inflight' = Tail(inflight)
           /\ UNCHANGED <<mainPc, server, sent, printed, exitCode>>
        \/ /\ ev = RecvErr
           /\ Fatal
        \/ /\ ev.kind = "change"
           /\ inflight' = Tail(inflight)
           /\ printed' = Append(printed, ev.id)
           /\ UNCHANGED <<mainPc, readerPc, waitc, server, sent, exitCode>>

\* The server sends the next change on an open stream.
ServerSend ==
    /\ mainPc # "changes"
    /\ server = "open"
    /\ Len(sent) < MaxChanges
    /\ sent' = Append(sent, Len(sent) + 1)
    /\ inflight' = Append(inflight, Change(Len(sent) + 1))
    /\ UNCHANGED <<mainPc, readerPc, waitc, server, printed, exitCode>>

\* The server ends the stream: normally (Recv returns io.EOF after the
\* changes) or with an error (the connection breaks).
ServerEnd ==
    /\ mainPc # "changes"
    /\ server = "open"
    /\ server' = "ended"
    /\ \E ev \in {EOF, RecvErr} : inflight' = Append(inflight, ev)
    /\ UNCHANGED <<mainPc, readerPc, waitc, sent, printed, exitCode>>

\* Once the process has exited nothing happens any more.
Exited ==
    /\ exitCode # "running"
    /\ UNCHANGED vars

Next ==
    \/ /\ exitCode = "running"
       /\ \/ Changes \/ CloseSend \/ Wait \/ Recv
          \/ ServerSend \/ ServerEnd
    \/ Exited

\* The process's own steps are fair: the Go scheduler runs main and the
\* reader whenever they can go on.  The server is not: it may keep the
\* stream open for ever.
Spec ==
    /\ Init /\ [][Next]_vars
    /\ WF_vars(exitCode = "running" /\ Changes)
    /\ WF_vars(exitCode = "running" /\ CloseSend)
    /\ WF_vars(exitCode = "running" /\ Wait)
    /\ WF_vars(exitCode = "running" /\ Recv)

-----------------------------------------------------------------------------
(***************************************************************************)
(* Properties                                                              *)
(***************************************************************************)

\* A process that exits with status 0 has printed every change the server
\* sent, once each and in the order sent: main's return cannot overtake the
\* reader goroutine, because it waits for waitc, which the reader closes
\* only after io.EOF, which the stream delivers after every change.
CleanExitPrintedAll ==
    exitCode = "exit0" => printed = sent

\* A step that prints appends exactly the change the server sent after the
\* last one printed.
PrintsNext ==
    printed' # printed =>
        /\ Len(printed) < Len(sent)
        /\ printed' = Append(printed, sent[Len(printed) + 1])

\* The reader prints the changes one at a time, in the order the server sent
\* them: while the server keeps sending and main half-closes the stream,
\* no step of the reader loop skips, repeats or reorders a change, nor
\* prints anything that is not a change.
PrintsNextInOrder == [][PrintsNext]_vars

\* Once the server has ended the stream the command terminates: the reader
\* reaches io.EOF or an error, main is released by waitc or Fatalf ends
\* the process; nobody waits for ever.
TerminatesWhenStreamEnds ==
    server = "ended" ~> exitCode # "running"

-----------------------------------------------------------------------------
(***************************************************************************)
(* Refinement: the command implements ChangesDisplay.                      *)
(***************************************************************************)

\* How the stream ended, as the abstract command sees it.  The end marker
\* stays last in the stream until the reader takes an io.EOF, and then the
\* reader has returned.
StreamBar ==
    IF server = "open" THEN "open"
    ELSE IF \/ readerPc = "returned"
            \/ inflight # <<>> /\ inflight[Len(inflight)] = EOF
         THEN "eof"
         ELSE "error"

Display == INSTANCE ChangesDisplay WITH stream <- StreamBar

\* main, the reader goroutine and waitc together behave as the atomic
\* command: a receive of a change is the print, main's return after <-waitc
\* is the exit with status 0 (after io.EOF and every change), each
\* log.Fatalf is the failure, every other step of the process a stutter.
DisplaySpec == Display!Spec

=============================================================================
