---------------------------- MODULE RouterProofs ----------------------------
(***************************************************************************)
(* Proofs about Router, for any number of actions and any capacity of the  *)
(* channel: for a client that waits for "connected" before it writes, what *)
(* is submitted is a gapless prefix of what it wrote.                      *)
(***************************************************************************)
EXTENDS Router, SequenceTheorems, TLAPS

(***************************************************************************)
(* Why it holds.  While ServeConn serves, the actions that were written are*)
(* all somewhere, in order: submitted, in the channel, held by the reader, *)
(* or in the socket.  Nothing is Torn, because the handshake finds nothing *)
(* in the socket that it could read too much of.  A line that is too long  *)
(* ends the reading, and what follows it stays in the socket.  When        *)
(* ServeConn has left, what is still on its way is lost, and submitted does*)
(* not change.                                                             *)
(***************************************************************************)
Held == IF reader = "sending" THEN 1 ELSE 0
Past == Len(submitted) + Len(ch) + Held    \* actions that left the socket

NothingYet == serve = "handshake" => socket = << >> /\ ch = << >> /\ submitted = << >>
                                        /\ written = 0 /\ reader = "none"
InOrder ==
    serve = "serving" =>
        /\ \A i \in 1 .. Len(ch) : ch[i] = Len(submitted) + i
        /\ reader = "sending" => holding = Len(submitted) + Len(ch) + 1
        /\ reader # "closed" => /\ \A i \in 1 .. Len(socket) : socket[i] = Past + i
                                /\ written = Past + Len(socket)

IInv == TypeOK /\ NothingYet /\ InOrder /\ SubmittedIsPrefix

-----------------------------------------------------------------------------
LEMMA TypeOKInit == Init => TypeOK
<1>1. ASSUME Init PROVE socket \in Seq(Lines) /\ ch \in Seq(Lines) /\ submitted \in Seq(Lines)
  BY <1>1, EmptySeq DEF Init
<1>2. ASSUME Init PROVE Len(ch) <= Capacity
  BY <1>2, EmptySeq, RouterAssumption DEF Init
<1>3. ASSUME Init PROVE {hungUp, known, wantsEvents, ctxDone, subscribed, sendErr} \subseteq BOOLEAN
  BY <1>3, Zenon DEF Init
<1>4. ASSUME Init
      PROVE  written \in 0 .. MaxActions /\ long \in 1 .. MaxActions + 1 /\ serve = "handshake" /\ reader = "none" /\ holding \in Lines
  BY <1>4, RouterAssumption DEF Init, Lines
<1>. QED
  BY <1>1, <1>2, <1>3, <1>4 DEF TypeOK

\* What the handshake leaves in the socket is the rest, its first line perhaps torn.
LEMMA ReadConnectTypes ==
  ASSUME TypeOK, ReadConnect
  PROVE  socket' \in Seq(Lines)
<1>1. PICK n \in 0 .. Len(socket) :
        LET rest == SubSeq(socket, n + 1, Len(socket))
        IN  socket' \in {rest} \union
                (IF rest = << >> THEN {} ELSE {[rest EXCEPT ![1] = Torn]})
  BY DEF ReadConnect
<1>. DEFINE rest == SubSeq(socket, n + 1, Len(socket))
<1>2. Len(socket) \in Nat /\ \A i \in 1 .. Len(socket) : socket[i] \in Lines
  BY ElementOfSeq, LenProperties DEF TypeOK
<1>3. rest \in Seq(Lines)
  BY <1>2, SubSeqProperties
<1>4. CASE socket' = rest
  BY <1>3, <1>4
<1>5. CASE rest # << >> /\ socket' = [rest EXCEPT ![1] = Torn]
  <2>1. Len(rest) \in Nat /\ Len(rest) # 0
    BY <1>3, <1>5, EmptySeq, LenProperties
  <2>2. 1 \in 1 .. Len(rest) /\ Torn \in Lines
    BY <2>1, RouterAssumption DEF Torn, Lines
  <2>. QED
    BY <1>3, <1>5, <2>2, ExceptSeq
<1>. QED
  BY <1>1, <1>4, <1>5

LEMMA TypeOKStep == TypeOK /\ [Next]_vars => TypeOK'
<1>. SUFFICES ASSUME TypeOK, [Next]_vars
              PROVE  TypeOK'
  OBVIOUS
<1>. USE RouterAssumption
<1>1. CASE ClientWrites
  <2>1. written + 1 \in Lines
    BY <1>1 DEF ClientWrites, TypeOK, Lines
  <2>2. socket' \in Seq(Lines)
    BY <1>1, <2>1, AppendProperties DEF ClientWrites, TypeOK
  <2>. QED
    BY <1>1, <2>1, <2>2 DEF ClientWrites, TypeOK, loop, pump, Lines
<1>2. CASE ClientHangsUp \/ DaemonStops
  BY <1>2 DEF ClientHangsUp, DaemonStops, TypeOK, loop, pump
<1>3. CASE ReadConnect
  BY <1>3, ReadConnectTypes DEF ReadConnect, TypeOK, peer
<1>4. CASE Reads
  <2>1. Head(socket) \in Lines /\ socket' \in Seq(Lines)
    BY <1>4, HeadTailProperties DEF Reads, TypeOK
  <2>. QED
    BY <1>4, <2>1 DEF Reads, TypeOK, peer, loop
<1>5. CASE Sends
  <2>1. ch' \in Seq(Lines) /\ Len(ch') = Len(ch) + 1 /\ Len(ch) \in Nat
    BY <1>5, AppendProperties, LenProperties DEF Sends, TypeOK
  <2>2. Len(ch') <= Capacity
    BY <1>5, <2>1 DEF Sends
  <2>. QED
    BY <1>5, <2>1, <2>2 DEF Sends, TypeOK, peer, loop
<1>6. CASE Submits \/ LeavesOnUnknown
  <2>1. ch # << >>
    BY <1>6 DEF Submits, LeavesOnUnknown
  <2>2. Head(ch) \in Lines /\ Tail(ch) \in Seq(Lines) /\ Len(Tail(ch)) = Len(ch) - 1
    BY <2>1, HeadTailProperties DEF TypeOK
  <2>3. ch' = Tail(ch) /\ Len(ch') <= Capacity
    BY <1>6, <2>2, LenProperties DEF Submits, LeavesOnUnknown, TypeOK
  <2>4. Append(submitted, Head(ch)) \in Seq(Lines) /\ submitted \in Seq(Lines)
    BY <2>2, AppendProperties DEF TypeOK
  <2>5. submitted' \in {submitted, Append(submitted, Head(ch))}
    BY <1>6 DEF Submits, LeavesOnUnknown
  <2>6. submitted' \in Seq(Lines)
    BY <2>4, <2>5
  <2>. QED
    BY <1>6, <2>2, <2>3, <2>6 DEF Submits, LeavesOnUnknown, TypeOK, peer
<1>7. CASE HandshakeFails \/ ReadsEnd \/ Leaves \/ LeavesOnSendErr \/ LeavesOnStop \/ SendEventFails
  BY <1>7
  DEF HandshakeFails, ReadsEnd, Leaves, LeavesOnSendErr, LeavesOnStop, SendEventFails,
      TypeOK, peer, loop, pump
<1>8. CASE UNCHANGED vars
  BY <1>8 DEF vars, TypeOK, peer, loop, pump
<1>. QED
  BY <1>1, <1>2, <1>3, <1>4, <1>5, <1>6, <1>7, <1>8 DEF Next, Serve, Read

\* The variables keep their types, for any number of actions and any capacity.
THEOREM TypeCorrect == Spec => []TypeOK
BY TypeOKInit, TypeOKStep, PTL DEF Spec

-----------------------------------------------------------------------------
LEMMA IInvInit == Init => IInv
<1>. SUFFICES ASSUME Init PROVE IInv
  OBVIOUS
<1>1. Len(submitted) = 0
  BY EmptySeq DEF Init
<1>. QED
  BY <1>1, TypeOKInit DEF Init, IInv, NothingYet, InOrder, SubmittedIsPrefix

\* Lengths are numbers.
LEMMA Lengths ==
  ASSUME TypeOK
  PROVE  Len(submitted) \in Nat /\ Len(ch) \in Nat /\ Len(socket) \in Nat /\ written \in Nat
BY LenProperties DEF TypeOK

LEMMA IInvStep == ASSUME Waits PROVE IInv /\ [Next]_vars => IInv'
<1>. SUFFICES ASSUME IInv, [Next]_vars
              PROVE  NothingYet' /\ InOrder' /\ SubmittedIsPrefix'
  BY TypeOKStep DEF IInv
<1>0. TypeOK /\ TypeOK'
  BY TypeOKStep DEF IInv
<1>a. /\ Len(submitted) \in Nat /\ Len(ch) \in Nat /\ Len(socket) \in Nat /\ written \in Nat
  BY <1>0, Lengths
<1>. USE DEF IInv, NothingYet, InOrder, SubmittedIsPrefix, Past, Held
<1>1. CASE ClientWrites
  <2>1. serve = "serving" /\ UNCHANGED <<loop, pump>>
    BY <1>1 DEF ClientWrites
  <2>2. written + 1 \in Lines
    BY <1>0, <1>1 DEF ClientWrites, TypeOK, Lines
  <2>3. /\ Len(socket') = Len(socket) + 1
        /\ \A i \in 1 .. Len(socket) : socket'[i] = socket[i]
        /\ socket'[Len(socket) + 1] = written + 1
    BY <1>0, <1>1, <2>2, AppendProperties DEF ClientWrites, TypeOK
  <2>4. ASSUME reader # "closed", NEW i \in 1 .. Len(socket') PROVE socket'[i] = Past + i
    <3>1. i \in 1 .. Len(socket) \/ i = Len(socket) + 1
      BY <1>a, <2>3
    <3>2. written = Past + Len(socket) /\ \A j \in 1 .. Len(socket) : socket[j] = Past + j
      BY <2>1, <2>4
    <3>. QED
      BY <1>a, <2>3, <3>1, <3>2
  <2>5. ASSUME reader # "closed" PROVE written' = Past + Len(socket')
    BY <1>1, <1>a, <2>1, <2>3, <2>5 DEF ClientWrites
  <2>. QED
    BY <2>1, <2>4, <2>5 DEF loop, pump
<1>2. CASE ClientHangsUp \/ DaemonStops
  BY <1>2 DEF ClientHangsUp, DaemonStops, loop, pump
<1>3. CASE ReadConnect
  <2>1. socket = << >> /\ ch = << >> /\ submitted = << >> /\ written = 0
    BY <1>3 DEF ReadConnect
  <2>2. Len(socket) = 0 /\ Len(ch) = 0 /\ Len(submitted) = 0
    BY <2>1, EmptySeq
  <2>3. \A n \in 0 .. Len(socket) : SubSeq(socket, n + 1, Len(socket)) = << >>
    BY <2>2, SubSeqEmpty
  <2>4. socket' = << >>
    BY <1>3, <2>3 DEF ReadConnect
  <2>. QED
    BY <1>3, <2>1, <2>2, <2>4 DEF ReadConnect, peer
<1>4. CASE HandshakeFails
  BY <1>4 DEF HandshakeFails, peer, pump
<1>5. CASE Reads
  <2>1. /\ Len(socket') = Len(socket) - 1
        /\ \A i \in 1 .. Len(socket') : socket'[i] = socket[i + 1]
        /\ Head(socket) = socket[1]
    BY <1>0, <1>5, HeadTailProperties DEF Reads, TypeOK
  <2>2. Len(socket') \in Nat
    BY <1>0, LenProperties DEF TypeOK
  <2>3. UNCHANGED <<serve, submitted, ch, written>> /\ reader = "reading"
    BY <1>5 DEF Reads, peer, loop
  <2>4. CASE serve = "serving"
    <3>1. Head(socket) = Len(submitted) + Len(ch) + 1
      BY <1>a, <2>1, <2>2, <2>3, <2>4
    <3>2. CASE reader' = "sending"
      <4>1. holding' = Head(socket)
        BY <1>5, <3>2 DEF Reads
      <4>. QED
        BY <1>a, <2>1, <2>2, <2>3, <2>4, <3>1, <3>2, <4>1
    <3>3. CASE reader' = "closed"
      BY <1>a, <2>1, <2>2, <2>3, <2>4, <3>3
    <3>. QED
      BY <1>5, <3>2, <3>3 DEF Reads
  <2>5. CASE serve # "serving"
    BY <1>5, <2>3, <2>5
  <2>. QED
    BY <2>4, <2>5
<1>6. CASE ReadsEnd
  BY <1>6 DEF ReadsEnd, peer, loop
<1>7. CASE Sends
  <2>1. /\ Len(ch') = Len(ch) + 1
        /\ \A i \in 1 .. Len(ch) : ch'[i] = ch[i]
        /\ ch'[Len(ch) + 1] = holding
    BY <1>0, <1>7, AppendProperties DEF Sends, TypeOK
  <2>2. UNCHANGED <<serve, submitted, socket, written>> /\ reader = "sending" /\ reader' = "reading"
    BY <1>7 DEF Sends, peer, loop
  <2>3. Past' = Past
    BY <1>a, <2>1, <2>2
  <2>4. ASSUME serve = "serving", NEW i \in 1 .. Len(ch')
        PROVE  ch'[i] = Len(submitted) + i
    <3>1. holding = Len(submitted) + Len(ch) + 1 /\ \A j \in 1 .. Len(ch) : ch[j] = Len(submitted) + j
      BY <2>2, <2>4
    <3>2. i \in 1 .. Len(ch) \/ i = Len(ch) + 1
      BY <1>a, <2>1
    <3>3. CASE i \in 1 .. Len(ch)
      BY <2>1, <3>1, <3>3
    <3>4. CASE i = Len(ch) + 1
      <4>1. ch'[i] = holding
        BY <2>1, <3>4
      <4>. QED
        BY <1>a, <3>1, <3>4, <4>1
    <3>. QED
      BY <3>2, <3>3, <3>4
  <2>5. InOrder'
    BY <2>2, <2>3, <2>4
  <2>. QED
    BY <2>2, <2>5
<1>8. CASE Submits
  <2>1. /\ Len(ch') = Len(ch) - 1
        /\ \A i \in 1 .. Len(ch') : ch'[i] = ch[i + 1]
        /\ Head(ch) = ch[1] /\ Head(ch) \in Lines
    BY <1>0, <1>8, HeadTailProperties DEF Submits, TypeOK
  <2>2. Len(ch') \in Nat
    BY <1>0, LenProperties DEF TypeOK
  <2>3. /\ Len(submitted') = Len(submitted) + 1
        /\ \A i \in 1 .. Len(submitted) : submitted'[i] = submitted[i]
        /\ submitted'[Len(submitted) + 1] = Head(ch)
    BY <1>0, <1>8, <2>1, AppendProperties DEF Submits, TypeOK
  <2>4. serve = "serving" /\ UNCHANGED <<serve, socket, written, reader, holding>>
    BY <1>8 DEF Submits, peer
  <2>5. Head(ch) = Len(submitted) + 1
    BY <1>a, <2>1, <2>2, <2>4
  <2>6. SubmittedIsPrefix'
    BY <1>a, <2>3, <2>5
  <2>7. Past' = Past
    BY <1>a, <2>1, <2>3, <2>4
  <2>8. InOrder'
    BY <1>a, <2>1, <2>2, <2>3, <2>4, <2>7
  <2>. QED
    BY <2>4, <2>6, <2>8
<1>9. CASE Leaves \/ LeavesOnUnknown \/ LeavesOnSendErr \/ LeavesOnStop
  BY <1>9 DEF Leaves, LeavesOnUnknown, LeavesOnSendErr, LeavesOnStop, peer, pump
<1>10. CASE SendEventFails
  BY <1>10 DEF SendEventFails, peer, pump
<1>11. CASE UNCHANGED vars
  BY <1>11 DEF vars, peer, loop, pump
<1>. QED
  BY <1>1, <1>2, <1>3, <1>4, <1>5, <1>6, <1>7, <1>8, <1>9, <1>10, <1>11
  DEF Next, Serve, Read

\* For a client that waits for the answer to its connect line: what reaches
\* the session is what it wrote, from the first action on and without a gap,
\* whenever it hangs up and whichever way ServeConn leaves (router.go:59-101).
THEOREM SubmittedInOrder == ASSUME Waits PROVE Spec => []SubmittedIsPrefix
<1>1. Init => IInv
  BY IInvInit
<1>2. IInv /\ [Next]_vars => IInv'
  BY IInvStep
<1>3. IInv => SubmittedIsPrefix
  BY DEF IInv
<1>. QED
  BY <1>1, <1>2, <1>3, PTL DEF Spec
=============================================================================
