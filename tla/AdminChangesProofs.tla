------------------------- MODULE AdminChangesProofs -------------------------
(***************************************************************************)
(* Proof, for every MaxChanges, that the changes command exits with status *)
(* 0 only after printing every change the server sent, in order           *)
(* (CleanExitPrintedAll).  The inductive invariant describes the stream:   *)
(* the server has sent changes 1..n, the reader has printed 1..m, the      *)
(* stream holds m+1..n and, once the server has ended it, one end marker   *)
(* after them; the reader returns only on io.EOF, so only when it has      *)
(* printed everything, and main exits 0 only after waitc is closed.        *)
(***************************************************************************)
EXTENDS AdminChanges, SequenceTheorems, TLAPS

\* Changes received by the stream and not yet returned by Recv.
Backlog == Len(sent) - Len(printed)

\* The shape of the stream: sent holds 1..n, printed 1..m, the stream holds
\* m+1..n and, once the server has ended it, one end marker after them.
SeqShape ==
    /\ \A i \in 1..Len(sent) : sent[i] = i
    /\ \A i \in 1..Len(printed) : printed[i] = i
    /\ Len(printed) <= Len(sent)
    /\ Len(inflight) \in {Backlog, Backlog + 1}
    /\ \A i \in 1..Backlog : inflight[i] = Change(Len(printed) + i)
    /\ Len(inflight) = Backlog + 1 =>
           server = "ended" /\ inflight[Len(inflight)] \in {EOF, RecvErr}

\* The two goroutines' progress against the stream.
CtlShape ==
    /\ readerPc = "returned" => server = "ended" /\ Len(printed) = Len(sent)
    /\ waitc = TRUE => readerPc = "returned"
    /\ mainPc = "changes" => readerPc = "notStarted"
    /\ exitCode = "exit0" => waitc = TRUE

StreamShape == SeqShape /\ CtlShape

ACInv == TypeOK /\ StreamShape

USE ChangesAssumption

\* The events of the stream are distinct records.
LEMMA EventsDistinct ==
    /\ \A i \in Nat : Change(i) # EOF /\ Change(i) # RecvErr
    /\ EOF # RecvErr
    /\ \A i \in Nat : Change(i).kind = "change" /\ Change(i).id = i
    /\ EOF.kind = "EOF" /\ RecvErr.kind = "error"
    /\ \A i \in 1..MaxChanges : Change(i) \in Events
    /\ EOF \in Events /\ RecvErr \in Events
BY DEF Change, EOF, RecvErr, Events

\* An event that is a change carries a change id.
LEMMA ChangeEventId ==
    ASSUME NEW ev \in Events, ev.kind = "change"
    PROVE  ev.id \in 1..MaxChanges /\ ev = Change(ev.id)
BY DEF Events, Change, EOF, RecvErr

\* The types of the variables, each step on its own (waitc is a Boolean,
\* which the SMT backend handles apart from the sequences).
LEMMA NextTypeOK == TypeOK /\ [Next]_vars => TypeOK'
<1> SUFFICES ASSUME TypeOK, [Next]_vars PROVE TypeOK'
  OBVIOUS
<1>1. waitc' \in BOOLEAN
  BY Zenon DEF TypeOK, Next, Changes, CloseSend, Wait, Recv, ServerSend,
               ServerEnd, Exited, Fatal, vars
<1>2. /\ mainPc' \in {"changes", "closeSend", "wait", "returned"}
      /\ readerPc' \in {"notStarted", "recv", "returned"}
      /\ server' \in {"open", "ended"}
      /\ exitCode' \in {"running", "exit0", "exit1"}
  BY DEF TypeOK, Next, Changes, CloseSend, Wait, Recv, ServerSend,
         ServerEnd, Exited, Fatal, vars
<1>3. /\ sent' \in Seq(1..MaxChanges)
      /\ inflight' \in Seq(Events)
      /\ printed' \in Seq(1..MaxChanges)
  <2>1. CASE UNCHANGED <<sent, inflight, printed>>
    BY <2>1 DEF TypeOK
  <2>2. CASE ServerSend
    <3>1. Len(sent) + 1 \in 1..MaxChanges
      BY <2>2 DEF ServerSend, TypeOK
    <3>2. QED
      BY <2>2, <3>1, EventsDistinct, AppendProperties DEF ServerSend, TypeOK
  <2>3. CASE ServerEnd
    BY <2>3, EventsDistinct, AppendProperties DEF ServerEnd, TypeOK
  <2>4. CASE Recv
    <3>1. inflight # <<>> /\ Head(inflight) \in Events /\ Tail(inflight) \in Seq(Events)
      BY <2>4, HeadTailProperties DEF Recv, TypeOK
    <3>2. sent' = sent /\ (inflight' = inflight \/ inflight' = Tail(inflight))
      BY <2>4 DEF Recv, Fatal
    <3>3. \/ printed' = printed
          \/ Head(inflight).kind = "change" /\ printed' = Append(printed, Head(inflight).id)
      BY <2>4 DEF Recv, Fatal
    <3>4. printed' \in Seq(1..MaxChanges)
      <4>0. printed \in Seq(1..MaxChanges)
        BY DEF TypeOK
      <4>1. CASE printed' = printed
        BY <4>0, <4>1
      <4>2. CASE Head(inflight).kind = "change" /\ printed' = Append(printed, Head(inflight).id)
        <5>1. Head(inflight).id \in 1..MaxChanges
          BY <3>1, <4>2, ChangeEventId
        <5>2. QED
          BY <4>0, <4>2, <5>1, AppendProperties
      <4>3. QED
        BY <3>3, <4>1, <4>2
    <3>5. QED
      BY <3>1, <3>2, <3>4 DEF TypeOK
  <2>5. QED
    BY <2>1, <2>2, <2>3, <2>4 DEF Next, Changes, CloseSend, Wait, Exited, Fatal, vars
<1>4. QED
  BY <1>1, <1>2, <1>3 DEF TypeOK

LEMMA InitACInv == Init => ACInv
<1> SUFFICES ASSUME Init PROVE ACInv
  OBVIOUS
<1>1. waitc \in BOOLEAN
  BY DEF Init
<1>2. TypeOK
  BY <1>1 DEF Init, TypeOK
<1>3. Len(sent) = 0 /\ Len(printed) = 0 /\ Len(inflight) = 0
  BY DEF Init
<1>4. SeqShape
  BY <1>3 DEF Init, SeqShape, Backlog
<1>6. CtlShape
  BY DEF Init, CtlShape
<1>5. QED
  BY <1>2, <1>4, <1>6 DEF ACInv, StreamShape

\* log.Fatalf changes only the exit code, and not to 0.
LEMMA FatalShape == StreamShape /\ Fatal => StreamShape'
BY DEF Fatal, StreamShape, SeqShape, CtlShape, Backlog

\* Every step keeps the shape of the stream: one case per action.
LEMMA NextShape == ACInv /\ [Next]_vars => StreamShape'
<1> SUFFICES ASSUME ACInv, [Next]_vars PROVE StreamShape'
  OBVIOUS
<1>0. /\ StreamShape
      /\ sent \in Seq(1..MaxChanges) /\ inflight \in Seq(Events)
      /\ printed \in Seq(1..MaxChanges) /\ readerPc \in {"notStarted", "recv", "returned"}
  BY DEF ACInv, TypeOK
<1>1. CASE Changes
  <2>1. CASE Fatal
    BY <1>0, <2>1, FatalShape
  <2>2. CASE ~Fatal
    <3>1. /\ UNCHANGED <<waitc, server, sent, inflight, printed, exitCode>>
          /\ mainPc = "changes" /\ readerPc' = "recv" /\ mainPc' = "closeSend"
      BY <1>1, <2>2 DEF Changes
    <3>2. QED
      BY <1>0, <3>1 DEF StreamShape, SeqShape, CtlShape, Backlog
  <2>3. QED
    BY <2>1, <2>2
<1>2. CASE CloseSend
  <2>1. CASE Fatal
    BY <1>0, <2>1, FatalShape
  <2>2. CASE ~Fatal
    <3>1. /\ UNCHANGED <<readerPc, waitc, server, sent, inflight, printed, exitCode>>
          /\ mainPc' = "wait"
      BY <1>2, <2>2 DEF CloseSend
    <3>2. QED
      BY <1>0, <3>1 DEF StreamShape, SeqShape, CtlShape, Backlog
  <2>3. QED
    BY <2>1, <2>2
<1>3. CASE Wait
  <3>1. waitc = TRUE /\ exitCode' = "exit0" /\ mainPc' = "returned"
        /\ UNCHANGED <<readerPc, waitc, server, sent, inflight, printed>>
    BY <1>3 DEF Wait
  <3>2. QED
    BY <1>0, <3>1 DEF StreamShape, SeqShape, CtlShape, Backlog
<1>4. CASE Recv
  <2> DEFINE ev == Head(inflight)
  <2>1. /\ inflight # <<>> /\ readerPc = "recv"
        /\ inflight \in Seq(Events)
        /\ sent \in Seq(1..MaxChanges) /\ printed \in Seq(1..MaxChanges)
    BY <1>4, <1>0  DEF Recv
  <2>3. CASE ev = EOF
    <3>1. Backlog = 0
      <4>1. SUFFICES ASSUME Backlog # 0 PROVE FALSE
        OBVIOUS
      <4>2. ev = Change(Len(printed) + 1)
        BY <2>1, <4>1, <1>0 DEF StreamShape, SeqShape, CtlShape, Backlog
      <4>3. QED
        BY <2>3, <4>2, <2>1, EventsDistinct
    <3>2. Len(inflight) = 1 /\ server = "ended"
      BY <2>1, <3>1, <2>3, <1>0, EventsDistinct DEF StreamShape, SeqShape, CtlShape
    <3>3. /\ readerPc' = "returned" /\ waitc' = TRUE /\ inflight' = Tail(inflight)
          /\ UNCHANGED <<mainPc, server, sent, printed, exitCode>>
      BY <1>4, <2>3, EventsDistinct DEF Recv, Fatal
    <3>4. Len(inflight') = 0
      BY <2>1, <3>2, <3>3, HeadTailProperties
    <3>5. QED
      <4>1. SeqShape'
        BY <1>0, <3>1, <3>2, <3>3, <3>4 DEF StreamShape, SeqShape, CtlShape, Backlog
      <4>2. CtlShape'
        <5>1. Len(printed') = Len(sent') /\ server' = "ended" /\ mainPc' # "changes"
          BY <1>0, <2>1, <3>1, <3>2, <3>3 DEF StreamShape, CtlShape, Backlog
        <5>2. QED
          BY <1>0, <3>3, <5>1, Zenon DEF StreamShape, CtlShape
      <4>3. QED
        BY <4>1, <4>2 DEF StreamShape
  <2>4. CASE ev = RecvErr
    <3>1. Fatal
      BY <1>4, <2>4, EventsDistinct DEF Recv
    <3>2. QED
      BY <1>0, <3>1, FatalShape
  <2>5. CASE ev # EOF /\ ev # RecvErr
    <3>1. Backlog > 0
      <4>1. SUFFICES ASSUME Backlog <= 0 PROVE FALSE
        BY <2>1, <1>0 DEF StreamShape, SeqShape, CtlShape, Backlog
      <4>2. Len(inflight) # 0
        BY <2>1, EmptySeq
      <4>3. Backlog = 0
        BY <4>1, <1>0 DEF StreamShape, SeqShape, CtlShape, Backlog
      <4>4. Len(inflight) = 1
        BY <4>2, <4>3, <1>0 DEF StreamShape, SeqShape, CtlShape
      <4>5. inflight[1] \in {EOF, RecvErr}
        BY <4>3, <4>4, <1>0 DEF StreamShape, SeqShape, CtlShape
      <4>6. QED
        BY <2>1, <2>5, <4>4, <4>5
    <3>2. ev = Change(Len(printed) + 1)
      BY <2>1, <3>1, <1>0 DEF StreamShape, SeqShape, CtlShape, Backlog
    <3>3. /\ inflight' = Tail(inflight)
          /\ printed' = Append(printed, Len(printed) + 1)
          /\ UNCHANGED <<mainPc, readerPc, waitc, server, sent, exitCode>>
      BY <1>4, <2>5, <3>2 DEF Recv, Change
    <3>4. /\ Len(inflight') = Len(inflight) - 1
          /\ \A i \in 1..Len(inflight') : inflight'[i] = inflight[i + 1]
      BY <2>1, <3>3, HeadTailProperties
    <3>5. /\ Len(printed') = Len(printed) + 1
          /\ \A i \in 1..Len(printed) : printed'[i] = printed[i]
          /\ printed'[Len(printed) + 1] = Len(printed) + 1
      BY <2>1, <3>3
    <3>6. Backlog' = Backlog - 1
      BY <2>1, <3>3, <3>5 DEF Backlog
    <3>7. QED
      <4>0. SeqShape
        BY <1>0 DEF StreamShape
      <4>1. SeqShape'
        <5>1. \A i \in 1..Len(sent') : sent'[i] = i
          BY <3>3, <4>0 DEF SeqShape
        <5>2. \A i \in 1..Len(printed') : printed'[i] = i
          <6>1. SUFFICES ASSUME NEW i \in 1..Len(printed') PROVE printed'[i] = i
            OBVIOUS
          <6>2. CASE i \in 1..Len(printed)
            BY <3>5, <4>0, <6>2 DEF SeqShape
          <6>3. CASE i = Len(printed) + 1
            BY <3>5, <6>3
          <6>4. QED
            BY <2>1, <3>5, <6>2, <6>3
        <5>3. Len(printed') <= Len(sent')
          BY <2>1, <3>1, <3>3, <3>5 DEF Backlog
        <5>4. Len(inflight') \in {Backlog', Backlog' + 1}
          BY <2>1, <3>3, <3>4, <3>5, <4>0 DEF SeqShape, Backlog
        <5>5. \A i \in 1..Backlog' : inflight'[i] = Change(Len(printed') + i)
          <6>1. SUFFICES ASSUME NEW i \in 1..Backlog'
                         PROVE  inflight'[i] = Change(Len(printed') + i)
            OBVIOUS
          <6>2. i \in 1..Len(inflight') /\ i + 1 \in 1..Backlog
            BY <2>1, <3>3, <3>4, <3>5, <4>0 DEF SeqShape, Backlog
          <6>3. QED
            BY <2>1, <3>4, <3>5, <4>0, <6>2 DEF SeqShape
        <5>6. Len(inflight') = Backlog' + 1 =>
                  server' = "ended" /\ inflight'[Len(inflight')] \in {EOF, RecvErr}
          <6>1. SUFFICES ASSUME Len(inflight') = Backlog' + 1
                         PROVE  server' = "ended" /\ inflight'[Len(inflight')] \in {EOF, RecvErr}
            OBVIOUS
          <6>2. Len(inflight) = Backlog + 1 /\ Len(inflight') \in 1..Len(inflight')
            <7>1. Backlog \in Int /\ Len(inflight) \in Nat
              BY <2>1 DEF Backlog
            <7>2. QED
              BY <3>1, <3>4, <3>6, <6>1, <7>1
          <6>3. inflight'[Len(inflight')] = inflight[Len(inflight)]
            BY <2>1, <3>4, <6>2
          <6>4. QED
            BY <3>3, <4>0, <6>2, <6>3 DEF SeqShape
        <5>7. QED
          BY <5>1, <5>2, <5>3, <5>4, <5>5, <5>6 DEF SeqShape
      <4>2. CtlShape'
        BY <1>0, <2>1, <3>3, <3>5, Zenon DEF StreamShape, CtlShape
      <4>3. QED
        BY <4>1, <4>2 DEF StreamShape
  <2>6. QED
    BY <2>3, <2>4, <2>5
<1>5. CASE ServerSend
  <2>1. /\ server = "open" /\ Len(sent) < MaxChanges
        /\ sent' = Append(sent, Len(sent) + 1)
        /\ inflight' = Append(inflight, Change(Len(sent) + 1))
        /\ UNCHANGED <<mainPc, readerPc, waitc, server, printed, exitCode>>
    BY <1>5 DEF ServerSend
  <2>2. Len(inflight) = Backlog
    BY <2>1, <1>0 DEF StreamShape, SeqShape, CtlShape
  <2>3. /\ sent \in Seq(1..MaxChanges) /\ inflight \in Seq(Events)
        /\ printed \in Seq(1..MaxChanges)
    BY <1>0 DEF TypeOK
  <2>4. /\ Len(sent') = Len(sent) + 1
        /\ \A i \in 1..Len(sent) : sent'[i] = sent[i]
        /\ sent'[Len(sent) + 1] = Len(sent) + 1
        /\ Len(inflight') = Len(inflight) + 1
        /\ \A i \in 1..Len(inflight) : inflight'[i] = inflight[i]
        /\ inflight'[Len(inflight) + 1] = Change(Len(sent) + 1)
    BY <2>1, <2>3
  <2>5. SeqShape'
    <3>0. SeqShape
      BY <1>0 DEF StreamShape
    <3>1. \A i \in 1..Len(sent') : sent'[i] = i
      <4>1. SUFFICES ASSUME NEW i \in 1..Len(sent') PROVE sent'[i] = i
        OBVIOUS
      <4>2. CASE i \in 1..Len(sent)
        BY <2>4, <3>0, <4>2 DEF SeqShape
      <4>3. CASE i = Len(sent) + 1
        BY <2>4, <4>3
      <4>4. QED
        BY <2>3, <2>4, <4>2, <4>3
    <3>2. Len(inflight') = Backlog' /\ Len(printed') <= Len(sent')
      BY <2>1, <2>2, <2>3, <2>4, <3>0 DEF SeqShape, Backlog
    <3>3. \A i \in 1..Backlog' : inflight'[i] = Change(Len(printed') + i)
      <4>1. SUFFICES ASSUME NEW i \in 1..Backlog'
                     PROVE  inflight'[i] = Change(Len(printed') + i)
        OBVIOUS
      <4>2. CASE i \in 1..Backlog
        BY <2>1, <2>2, <2>4, <3>0, <4>2 DEF SeqShape
      <4>3. CASE i = Backlog + 1
        BY <2>1, <2>2, <2>3, <2>4, <4>3 DEF Backlog
      <4>4. Backlog' = Backlog + 1
        BY <2>1, <2>3, <2>4 DEF Backlog
      <4>5. i \in 1..Backlog \/ i = Backlog + 1
        BY <2>3, <4>4 DEF Backlog
      <4>6. QED
        BY <4>2, <4>3, <4>5
    <3>4. QED
      BY <2>1, <3>0, <3>1, <3>2, <3>3 DEF SeqShape
  <2>6. CtlShape'
    <3>1. readerPc # "returned"
      BY <1>0, <2>1 DEF StreamShape, CtlShape
    <3>2. QED
      BY <1>0, <2>1, <3>1, Zenon DEF StreamShape, CtlShape
  <2>7. QED
    BY <2>5, <2>6 DEF StreamShape
<1>6. CASE ServerEnd
  <2>1. PICK ev \in {EOF, RecvErr} :
          /\ server = "open" /\ server' = "ended"
          /\ inflight' = Append(inflight, ev)
          /\ UNCHANGED <<mainPc, readerPc, waitc, sent, printed, exitCode>>
    BY <1>6 DEF ServerEnd
  <2>2. Len(inflight) = Backlog
    BY <2>1, <1>0 DEF StreamShape, SeqShape, CtlShape
  <2>3. /\ inflight \in Seq(Events)
        /\ Len(inflight') = Len(inflight) + 1
        /\ \A i \in 1..Len(inflight) : inflight'[i] = inflight[i]
        /\ inflight'[Len(inflight) + 1] = ev
    BY <2>1, <1>0
  <2>4. QED
    <3>1. SeqShape'
      BY <1>0, <2>1, <2>2, <2>3 DEF StreamShape, SeqShape, CtlShape, Backlog
    <3>2. CtlShape'
      BY <1>0, <2>1, <2>2, <2>3 DEF StreamShape, SeqShape, CtlShape, Backlog
    <3>3. QED
      BY <3>1, <3>2 DEF StreamShape
<1>7. CASE Exited \/ UNCHANGED vars
  <2>1. UNCHANGED vars
    BY <1>7 DEF Exited
  <2>2. QED
    BY <1>0, <2>1 DEF vars, StreamShape, SeqShape, CtlShape, Backlog
<1>8. QED
  BY <1>1, <1>2, <1>3, <1>4, <1>5, <1>6, <1>7 DEF Next

LEMMA NextACInv == ACInv /\ [Next]_vars => ACInv'
BY NextTypeOK, NextShape DEF ACInv

LEMMA ACInvariant == Spec => []ACInv
BY InitACInv, NextACInv, PTL DEF Spec

\* Only a Recv that returns a change prints, and the change at the head of
\* the stream is then the one after the last printed.
LEMMA NextPrintsNext == ACInv /\ [Next]_vars => PrintsNext
<1> SUFFICES ASSUME ACInv, [Next]_vars, printed' # printed
             PROVE  /\ Len(printed) < Len(sent)
                    /\ printed' = Append(printed, sent[Len(printed) + 1])
  BY DEF PrintsNext
<1> DEFINE ev == Head(inflight)
<1>0. /\ SeqShape
      /\ sent \in Seq(1..MaxChanges) /\ inflight \in Seq(Events)
      /\ printed \in Seq(1..MaxChanges)
  BY DEF ACInv, TypeOK, StreamShape
<1>1. /\ inflight # <<>>
      /\ ev.kind = "change"
      /\ printed' = Append(printed, ev.id)
  BY Zenon DEF Next, Changes, CloseSend, Wait, Recv, ServerSend, ServerEnd,
               Exited, Fatal, vars
<1>2. Backlog > 0
  <2>1. SUFFICES ASSUME Backlog <= 0 PROVE FALSE
    BY <1>0 DEF Backlog
  <2>2. Backlog = 0 /\ Len(inflight) # 0
    BY <1>0, <1>1, <2>1, EmptySeq DEF SeqShape, Backlog
  <2>3. Len(inflight) = 1 /\ inflight[1] \in {EOF, RecvErr}
    BY <1>0, <2>2 DEF SeqShape
  <2>4. QED
    BY <1>0, <1>1, <2>3, EventsDistinct
<1>3. ev = Change(Len(printed) + 1)
  BY <1>0, <1>1, <1>2 DEF SeqShape, Backlog
<1>4. sent[Len(printed) + 1] = Len(printed) + 1 /\ Len(printed) < Len(sent)
  BY <1>0, <1>2 DEF SeqShape, Backlog
<1>5. QED
  BY <1>1, <1>3, <1>4, EventsDistinct

\* The reader prints the changes one at a time and in the order sent, for
\* every bound on the changes: no receive skips, repeats or reorders one.
THEOREM PrintsInOrder == Spec => PrintsNextInOrder
<1>1. ACInv /\ [Next]_vars => [PrintsNext]_vars
  BY NextPrintsNext
<1>2. QED
  BY <1>1, ACInvariant, PTL DEF Spec, PrintsNextInOrder

\* Every reachable state of the command and its stream is well typed.
THEOREM TypeCorrect == Spec => []TypeOK
BY ACInvariant, PTL DEF ACInv

\* A process that exits with status 0 has printed every change the server
\* sent, once each and in order, for every bound on the changes sent.
THEOREM CleanExit == Spec => []CleanExitPrintedAll
<1>1. ACInv => CleanExitPrintedAll
  <2> SUFFICES ASSUME ACInv, exitCode = "exit0" PROVE printed = sent
    BY DEF CleanExitPrintedAll
  <2>1. /\ sent \in Seq(1..MaxChanges) /\ printed \in Seq(1..MaxChanges)
        /\ Len(printed) = Len(sent)
        /\ \A i \in 1..Len(printed) : printed[i] = sent[i]
    BY DEF ACInv, TypeOK, StreamShape, SeqShape, CtlShape
  <2>2. QED
    BY <2>1, SeqEqual
<1>2. QED
  BY <1>1, InitACInv, NextACInv, PTL DEF Spec

-----------------------------------------------------------------------------
(***************************************************************************)
(* Refinement of ChangesDisplay.  The mapping reads how the stream ended   *)
(* from its last event, so it needs that the end marker stays last in an  *)
(* ended stream until the reader takes an io.EOF (EndMarker): log.Fatalf  *)
(* stops the process without consuming anything.                         *)
(***************************************************************************)

\* An ended stream keeps its end marker until the reader returns.
EndMarker ==
    server = "ended" /\ readerPc # "returned" => Len(inflight) = Backlog + 1

\* ACInv with the end marker.
DInv == ACInv /\ EndMarker

\* A stream whose next event is not a change holds only its end marker.
LEMMA HeadNotChange ==
    ASSUME ACInv, inflight # <<>>, Head(inflight).kind # "change"
    PROVE  /\ Backlog = 0 /\ Len(inflight) = 1 /\ server = "ended"
           /\ Head(inflight) = inflight[Len(inflight)]
<1>0. /\ SeqShape
      /\ sent \in Seq(1..MaxChanges) /\ inflight \in Seq(Events)
      /\ printed \in Seq(1..MaxChanges)
  BY DEF ACInv, TypeOK, StreamShape
<1>1. Len(inflight) \in Nat \ {0} /\ Backlog \in Nat
  BY <1>0, EmptySeq DEF SeqShape, Backlog
<1>2. Backlog = 0
  <2>1. SUFFICES ASSUME Backlog # 0 PROVE FALSE
    OBVIOUS
  <2>2. Head(inflight) = Change(Len(printed) + 1)
    BY <1>0, <1>1, <2>1 DEF SeqShape
  <2>3. QED
    BY <2>2, EventsDistinct
<1>3. QED
  BY <1>0, <1>1, <1>2 DEF SeqShape

\* The reader has returned only after printing every change sent.
LEMMA ReturnedPrintedAll ==
    ASSUME ACInv, readerPc = "returned"
    PROVE  printed = sent /\ server = "ended"
<1>1. /\ sent \in Seq(1..MaxChanges) /\ printed \in Seq(1..MaxChanges)
      /\ Len(printed) = Len(sent) /\ server = "ended"
      /\ \A i \in 1..Len(printed) : printed[i] = sent[i]
  BY DEF ACInv, TypeOK, StreamShape, SeqShape, CtlShape
<1>2. QED
  BY <1>1, SeqEqual

LEMMA NextEndMarker == DInv /\ [Next]_vars => EndMarker'
<1> SUFFICES ASSUME DInv, [Next]_vars, server' = "ended", readerPc' # "returned"
             PROVE  Len(inflight') = Backlog' + 1
  BY DEF EndMarker
<1>0. /\ ACInv /\ EndMarker /\ SeqShape
      /\ sent \in Seq(1..MaxChanges) /\ inflight \in Seq(Events)
      /\ printed \in Seq(1..MaxChanges)
  BY DEF DInv, ACInv, TypeOK, StreamShape
<1>1. CASE UNCHANGED <<server, readerPc, inflight, sent, printed>>
  BY <1>0, <1>1 DEF EndMarker, Backlog
<1>2. CASE ServerEnd
  <2>1. PICK ev \in {EOF, RecvErr} :
          /\ server = "open" /\ inflight' = Append(inflight, ev)
          /\ UNCHANGED <<sent, printed>>
    BY <1>2 DEF ServerEnd
  <2>2. Len(inflight) = Backlog
    BY <1>0, <2>1 DEF SeqShape
  <2>3. Len(inflight') = Len(inflight) + 1
    BY <1>0, <2>1, EventsDistinct, AppendProperties
  <2>4. QED
    BY <2>1, <2>2, <2>3 DEF Backlog
<1>3. CASE Recv /\ Head(inflight).kind = "change"
  <2>1. /\ inflight # <<>> /\ server = "ended" /\ readerPc = "recv"
        /\ inflight' = Tail(inflight) /\ printed' = Append(printed, Head(inflight).id)
        /\ sent' = sent
    BY <1>3, EventsDistinct DEF Recv, Fatal
  <2>2. Len(inflight) = Backlog + 1
    BY <1>0, <2>1 DEF EndMarker
  <2>3. Len(inflight') = Len(inflight) - 1
    BY <1>0, <2>1, HeadTailProperties
  <2>4. Len(printed') = Len(printed) + 1
    <3>1. Head(inflight) \in Events
      BY <1>0, <2>1, HeadTailProperties
    <3>2. Head(inflight).id \in 1..MaxChanges
      BY <1>3, <3>1, ChangeEventId
    <3>3. QED
      BY <1>0, <2>1, <3>2, AppendProperties
  <2>5. QED
    BY <1>0, <2>1, <2>2, <2>3, <2>4 DEF Backlog
<1>4. QED
  <2>1. CASE Recv
    <3>1. CASE Head(inflight).kind = "change"
      BY <1>3, <2>1, <3>1
    <3>2. CASE Head(inflight).kind # "change"
      <4>1. \/ readerPc' = "returned"
            \/ UNCHANGED <<server, readerPc, inflight, sent, printed>>
        BY <2>1, <3>2 DEF Recv, Fatal
      <4>2. QED
        BY <1>1, <4>1
    <3>3. QED
      BY <3>1, <3>2
  <2>2. CASE ServerSend
    BY <2>2 DEF ServerSend
  <2>3. CASE Changes \/ CloseSend \/ Wait \/ Exited \/ UNCHANGED vars
    <3>1. UNCHANGED <<server, inflight, sent, printed>>
      BY <2>3 DEF Changes, CloseSend, Wait, Exited, Fatal, vars
    <3>2. readerPc' # "returned" => readerPc # "returned"
      <4>1. mainPc = "changes" => readerPc = "notStarted"
        BY <1>0 DEF ACInv, StreamShape, CtlShape
      <4>2. QED
        BY <2>3, <4>1, Zenon DEF Changes, CloseSend, Wait, Exited, Fatal, vars
    <3>3. server = "ended" /\ readerPc # "returned"
      BY <3>1, <3>2
    <3>4. Len(inflight) = Backlog + 1
      BY <1>0, <3>3 DEF EndMarker
    <3>5. QED
      BY <3>1, <3>4 DEF Backlog
  <2>4. QED
    BY <1>2, <2>1, <2>2, <2>3 DEF Next

LEMMA DInvariant == Spec => []DInv
<1>1. Init => DInv
  BY InitACInv DEF DInv, EndMarker, Init
<1>2. DInv /\ [Next]_vars => DInv'
  BY NextACInv, NextEndMarker DEF DInv
<1>3. QED
  BY <1>1, <1>2, PTL DEF Spec

\* A Recv that returns a change leaves the stream's end as it was: in an
\* ended stream the end marker comes after the change, so it is still last.
LEMMA RecvChangeKeepsEnd ==
    ASSUME DInv, Recv, Head(inflight).kind = "change"
    PROVE  StreamBar' = StreamBar
<1>0. /\ ACInv /\ EndMarker /\ SeqShape
      /\ sent \in Seq(1..MaxChanges) /\ inflight \in Seq(Events)
      /\ printed \in Seq(1..MaxChanges)
  BY DEF DInv, ACInv, TypeOK, StreamShape
<1>1. /\ inflight # <<>> /\ readerPc = "recv"
      /\ inflight' = Tail(inflight)
      /\ UNCHANGED <<server, readerPc>>
  BY EventsDistinct DEF Recv, Fatal
<1>2. CASE server = "open"
  BY <1>1, <1>2 DEF StreamBar
<1>3. CASE server = "ended"
  <2>1. Len(inflight) = Backlog + 1
    BY <1>0, <1>1, <1>3 DEF EndMarker
  <2>2. Backlog \in Nat \ {0}
    <3>1. Backlog \in Nat
      BY <1>0 DEF SeqShape, Backlog
    <3>2. SUFFICES ASSUME Backlog = 0 PROVE FALSE
      BY <3>1
    <3>3. Len(inflight) = 1 /\ inflight[1] \in {EOF, RecvErr}
      BY <1>0, <2>1, <3>2 DEF SeqShape
    <3>4. Head(inflight) = inflight[1]
      BY <1>1
    <3>5. QED
      BY <3>3, <3>4, EventsDistinct
  <2>3. /\ Len(Tail(inflight)) = Len(inflight) - 1
        /\ \A i \in 1..Len(Tail(inflight)) : Tail(inflight)[i] = inflight[i + 1]
    BY <1>0, <1>1, HeadTailProperties
  <2>4. /\ inflight' # <<>>
        /\ inflight'[Len(inflight')] = inflight[Len(inflight)]
    <3>1. Len(inflight') = Len(inflight) - 1 /\ Len(inflight) - 1 \in Nat \ {0}
      BY <1>1, <2>1, <2>2, <2>3
    <3>2. inflight' # <<>>
      BY <3>1
    <3>3. QED
      BY <1>1, <2>3, <3>1, <3>2
  <2>5. QED
    BY <1>1, <1>3, <2>4 DEF StreamBar
<1>4. QED
  BY <1>2, <1>3, <1>0 DEF ACInv, TypeOK

\* The initial state is the abstract command's.
LEMMA InitRefines == Init => Display!Init
BY DEF Init, Display!Init, StreamBar

\* Each step of main, the reader or the server is a step of the abstract
\* command or leaves its state alone.
LEMMA NextRefines == DInv /\ [Next]_vars => [Display!Next]_Display!vars
<1> SUFFICES ASSUME DInv, [Next]_vars PROVE [Display!Next]_Display!vars
  OBVIOUS
<1>0. /\ ACInv /\ EndMarker
      /\ sent \in Seq(1..MaxChanges) /\ inflight \in Seq(Events)
      /\ printed \in Seq(1..MaxChanges)
  BY DEF DInv, ACInv, TypeOK
<1>1. CASE exitCode = "running" /\ Fatal
  <2>1. StreamBar' = StreamBar
    BY <1>1 DEF Fatal, StreamBar
  <2>2. Display!Fail
    BY <1>1, <2>1 DEF Fatal, Display!Fail
  <2>3. QED
    BY <2>2 DEF Display!Next
<1>2. CASE (Changes \/ CloseSend) /\ ~Fatal
  <2>1. UNCHANGED <<server, inflight, sent, printed, exitCode>>
    BY <1>2 DEF Changes, CloseSend
  <2>2. \/ readerPc' # "returned" /\ readerPc # "returned"
        \/ readerPc' = readerPc
    <3>1. mainPc = "changes" => readerPc = "notStarted"
      BY <1>0 DEF ACInv, StreamShape, CtlShape
    <3>2. QED
      BY <1>2, <3>1, Zenon DEF Changes, CloseSend
  <2>3. StreamBar' = StreamBar
    BY <2>1, <2>2 DEF StreamBar
  <2>4. QED
    BY <2>1, <2>3 DEF Display!vars
<1>3. CASE exitCode = "running" /\ Wait
  <2>1. readerPc = "returned"
    BY <1>0, <1>3, Zenon DEF Wait, ACInv, StreamShape, CtlShape
  <2>2. printed = sent /\ server = "ended"
    BY <1>0, <2>1, ReturnedPrintedAll
  <2>3. StreamBar = "eof" /\ StreamBar' = StreamBar
    BY <1>3, <2>1, <2>2 DEF Wait, StreamBar
  <2>4. Display!Succeed
    BY <1>3, <2>2, <2>3 DEF Wait, Display!Succeed
  <2>5. QED
    BY <2>4 DEF Display!Next
<1>4. CASE exitCode = "running" /\ Recv /\ Head(inflight).kind = "change"
  <2>1. printed' = Append(printed, Head(inflight).id) /\ UNCHANGED <<sent, exitCode>>
    BY <1>4, EventsDistinct DEF Recv, Fatal
  <2>2. printed' # printed
    <3>1. Head(inflight) \in Events
      BY <1>0, <1>4, HeadTailProperties DEF Recv
    <3>2. Head(inflight).id \in 1..MaxChanges
      BY <1>4, <3>1, ChangeEventId
    <3>3. Len(printed') = Len(printed) + 1
      BY <1>0, <2>1, <3>2, AppendProperties
    <3>4. QED
      BY <1>0, <3>3
  <2>3. PrintsNext
    BY <1>0, NextPrintsNext
  <2>4. StreamBar' = StreamBar
    BY <1>4, RecvChangeKeepsEnd
  <2>5. Display!PrintNext
    BY <1>4, <2>1, <2>2, <2>3, <2>4 DEF PrintsNext, Display!PrintNext
  <2>6. QED
    BY <2>5 DEF Display!Next
<1>5. CASE Recv /\ Head(inflight) = EOF
  <2>1. /\ inflight # <<>> /\ readerPc' = "returned"
        /\ UNCHANGED <<server, sent, printed, exitCode>>
    BY <1>5, EventsDistinct DEF Recv, Fatal
  <2>2. Head(inflight).kind # "change"
    BY <1>5, EventsDistinct
  <2>3. server = "ended" /\ inflight[Len(inflight)] = EOF
    BY <1>0, <1>5, <2>1, <2>2, HeadNotChange
  <2>4. StreamBar = "eof" /\ StreamBar' = "eof"
    BY <2>1, <2>3 DEF StreamBar
  <2>5. QED
    BY <2>1, <2>4 DEF Display!vars
<1>6. CASE ServerSend
  <2>1. server = "open" /\ server' = "open"
    BY <1>6 DEF ServerSend
  <2>2. StreamBar = "open" /\ StreamBar' = "open"
    BY <2>1 DEF StreamBar
  <2>3. Display!Send
    BY <1>6, <2>2 DEF ServerSend, Display!Send
  <2>4. QED
    BY <2>3 DEF Display!Next
<1>7. CASE ServerEnd
  <2>1. server = "open" /\ server' = "ended"
    BY <1>7 DEF ServerEnd
  <2>2. StreamBar = "open" /\ StreamBar' \in {"eof", "error"}
    BY <2>1 DEF StreamBar
  <2>3. Display!End
    BY <1>7, <2>2 DEF ServerEnd, Display!End
  <2>4. QED
    BY <2>3 DEF Display!Next
<1>8. CASE Exited \/ UNCHANGED vars
  <2>1. UNCHANGED vars
    BY <1>8 DEF Exited
  <2>2. QED
    BY <2>1 DEF vars, StreamBar, Display!vars
<1>9. QED
  <2>1. CASE exitCode = "running" /\ Recv
    <3>1. \/ Head(inflight) = EOF
          \/ Fatal
          \/ Head(inflight).kind = "change"
      BY <2>1 DEF Recv
    <3>2. QED
      BY <1>1, <1>4, <1>5, <2>1, <3>1
  <2>2. CASE exitCode = "running" /\ (Changes \/ CloseSend)
    <3>1. CASE Fatal
      BY <1>1, <2>2, <3>1
    <3>2. CASE ~Fatal
      BY <1>2, <2>2, <3>2
    <3>3. QED
      BY <3>1, <3>2
  <2>3. QED
    BY <1>3, <1>6, <1>7, <1>8, <2>1, <2>2 DEF Next

\* The changes command implements its promise for every bound on the
\* changes: the receive of a change is the print of the next change sent,
\* main's return after <-waitc is the exit with status 0 once the stream
\* ended with io.EOF and every change was printed, every log.Fatalf the
\* exit with status 1, and every other step changes nothing the command
\* promises (changes.go:33-58).
THEOREM DisplayRefinement == Spec => DisplaySpec
<1>1. Init => Display!Init
  BY InitRefines
<1>2. DInv /\ [Next]_vars => [Display!Next]_Display!vars
  BY NextRefines
<1>3. QED
  BY <1>1, <1>2, DInvariant, PTL DEF Spec, DisplaySpec, Display!Spec
=============================================================================
