---------------------------- MODULE StdinGateProofs ----------------------------
(***************************************************************************)
(* What holds of the keyboard's two consumers for any number of lines,     *)
(* sprints and gates.                                                      *)
(***************************************************************************)
EXTENDS StdinGate, SequenceTheorems, TLAPS

(***************************************************************************)
(* The numeric part of TypeOK.                                             *)
(***************************************************************************)
CountersOK == sprints \in Nat /\ gates \in Nat /\ taken \in Nat /\ acked \in Nat

LEMMA InitTypeOK == Init => TypeOK
<1>1. Init => CountersOK
  BY DEF Init, CountersOK
<1>2. Init => /\ stdin \in Seq(Lines) /\ typed \in Seq(Lines) /\ read \in Seq(Lines)
              /\ queue \in Seq(Lines \cup {EOF})
  BY DEF Init
<1>3. Init => /\ closed \in BOOLEAN
              /\ pump \in {"reading", "returned"}
              /\ driver \in {"repl", "oneshot", "loop"}
              /\ main \in {"prompt", "sprint", "gate", "finally", "over"}
              /\ ack \in {"none", "reading", "cancelled", "returned"}
              /\ gate_event \in BOOLEAN
  BY DEF Init
<1> QED BY <1>1, <1>2, <1>3 DEF TypeOK, CountersOK

(***************************************************************************)
(* readline leaves a queue of lines and end marks, and hands out lines.    *)
(***************************************************************************)
LEMMA ReadLineTyped ==
  ASSUME TypeOK, NEW item \in Lines \cup {EOF}, ReadLine(item)
  PROVE  /\ queue' \in Seq(Lines \cup {EOF})
         /\ read' \in Seq(Lines)
         /\ pump' = pump
<1>1. queue \in Seq(Lines \cup {EOF}) /\ read \in Seq(Lines)
  BY DEF TypeOK
<1>2. queue # <<>> /\ pump' = pump
  BY DEF ReadLine
<1>3. Tail(queue) \in Seq(Lines \cup {EOF})
  BY <1>1, <1>2
<1>4. CASE item = EOF
  <2>1. queue' = Append(Tail(queue), EOF) /\ read' = read
    BY <1>4 DEF ReadLine
  <2> QED BY ONLY SMTT(30), <1>1, <1>2, <1>3, <2>1
<1>5. CASE item # EOF
  <2>1. item \in Lines
    BY <1>5
  <2>2. queue' = Tail(queue) /\ read' = Append(read, item)
    BY <1>5 DEF ReadLine
  <2> QED BY <1>1, <1>2, <1>3, <2>1, <2>2
<1> QED BY <1>4, <1>5

LEMMA NextTypeOK == TypeOK /\ [Next]_vars => TypeOK'
<1> SUFFICES ASSUME TypeOK, [Next]_vars PROVE TypeOK'
  OBVIOUS
<1>1. CASE Type
  BY <1>1 DEF TypeOK, Type, broker, gate
<1>2. CASE Close
  BY <1>2 DEF TypeOK, Close, broker, gate
<1>3. CASE Pump
  <2>1. CASE stdin # <<>> /\ queue' = Append(queue, Head(stdin))
             /\ stdin' = Tail(stdin) /\ UNCHANGED pump
    <3>1. Head(stdin) \in Lines /\ Tail(stdin) \in Seq(Lines)
      BY <2>1 DEF TypeOK
    <3> QED BY <1>3, <2>1, <3>1 DEF TypeOK, Pump, gate
  <2>2. CASE queue' = Append(queue, EOF) /\ pump' = "returned" /\ UNCHANGED stdin
    BY <1>3, <2>2 DEF TypeOK, Pump, gate
  <2> QED BY <1>3, <2>1, <2>2 DEF Pump
<1>4. CASE Acknowledge
  <2>1. PICK item \in Lines \cup {EOF} :
          ReadLine(item) /\ ack' = IF item = EOF THEN "returned" ELSE "reading"
    BY <1>4 DEF Acknowledge
  <2> QED BY <1>4, <2>1, ReadLineTyped DEF TypeOK, Acknowledge, terminal
<1>5. CASE Prompt
  <2>1. PICK item \in Lines \cup {EOF} :
          /\ ReadLine(item)
          /\ \/ item = "objective" /\ StartSprint
             \/ item \in {"exit", EOF} /\ main' = "over" /\ NoSprint
             \/ item \in {"blank", "objective"} /\ UNCHANGED main /\ NoSprint
    BY <1>5 DEF Prompt
  <2>2. UNCHANGED <<terminal, driver>>
    BY <1>5 DEF Prompt
  <2>3. CountersOK'
    BY <2>1 DEF TypeOK, CountersOK, StartSprint, NoSprint, gate
  <2> QED BY <2>1, <2>2, <2>3, ReadLineTyped
          DEF TypeOK, CountersOK, terminal, StartSprint, NoSprint, gate
<1>6. CASE Unattended
  <2>1. CountersOK'
    BY <1>6 DEF TypeOK, CountersOK, Unattended, StartSprint, NoSprint, gate
  <2> QED BY <1>6, <2>1 DEF TypeOK, CountersOK, Unattended, terminal, broker,
                            StartSprint, NoSprint, gate
<1>7. CASE GateOpens
  <2>1. CountersOK'
    BY <1>7 DEF TypeOK, CountersOK, GateOpens, UseEvent
  <2> QED BY <1>7, <2>1 DEF TypeOK, CountersOK, GateOpens, UseEvent, terminal, broker
<1>8. CASE GateAcknowledged
  <2>1. CountersOK'
    BY <1>8 DEF TypeOK, CountersOK, GateAcknowledged, UseEvent
  <2> QED BY <1>8, <2>1
          DEF TypeOK, CountersOK, GateAcknowledged, UseEvent, terminal, broker
<1>9. CASE GateTimesOut
  BY <1>9 DEF TypeOK, GateTimesOut, terminal, broker, gate
<1>10. CASE SprintEnds
  BY <1>10 DEF TypeOK, SprintEnds, terminal, broker, gate
<1>11. CASE SprintCancels
  BY <1>11 DEF TypeOK, SprintCancels, terminal, broker, gate
<1>12. CASE AckDies
  BY <1>12 DEF TypeOK, AckDies, terminal, broker, gate
<1>13. CASE UNCHANGED vars
  BY <1>13 DEF TypeOK, vars, terminal, broker, gate
<1> QED BY <1>1, <1>2, <1>3, <1>4, <1>5, <1>6, <1>7, <1>8, <1>9, <1>10, <1>11,
           <1>12, <1>13
        DEF Next, AckTask, Main, Over

(***************************************************************************)
(* Every variable keeps its type.                                          *)
(***************************************************************************)
THEOREM GateTypeCorrect == Spec => []TypeOK
BY InitTypeOK, NextTypeOK, PTL DEF Spec

-----------------------------------------------------------------------------
(***************************************************************************)
(* Moving an item from one end of the pipe to the next loses nothing.      *)
(***************************************************************************)
LEMMA MoveHead ==
  ASSUME NEW S, NEW a \in Seq(S), NEW b \in Seq(S), b # <<>>
  PROVE  Append(a, Head(b)) \o Tail(b) = a \o b
<1>1. /\ Head(b) \in S /\ Tail(b) \in Seq(S)
      /\ Len(Tail(b)) = Len(b) - 1
      /\ \A i \in 1..Len(Tail(b)) : Tail(b)[i] = b[i + 1]
      /\ Len(b) \in Nat /\ Len(b) > 0 /\ Head(b) = b[1]
  OBVIOUS
<1>2. /\ Append(a, Head(b)) \in Seq(S)
      /\ Len(Append(a, Head(b))) = Len(a) + 1
      /\ Append(a, Head(b))[Len(a) + 1] = Head(b)
      /\ \A i \in 1..Len(a) : Append(a, Head(b))[i] = a[i]
  BY <1>1
<1> DEFINE left == Append(a, Head(b)) \o Tail(b)
           right == a \o b
<1>3. left \in Seq(S) /\ right \in Seq(S)
  BY <1>1, <1>2
<1>4. Len(left) = Len(right)
  BY <1>1, <1>2
<1>5. ASSUME NEW i \in 1..Len(left) PROVE left[i] = right[i]
  <2>1. CASE i <= Len(a)
    BY <1>1, <1>2, <2>1
  <2>2. CASE i = Len(a) + 1
    BY <1>1, <1>2, <2>2
  <2>3. CASE i > Len(a) + 1
    BY <1>1, <1>2, <1>4, <2>3
  <2> QED BY <2>1, <2>2, <2>3
<1> HIDE DEF left, right
<1>6. left = right
  BY <1>3, <1>4, <1>5, SeqEqual
<1> QED BY <1>6 DEF left, right

LEMMA EOFIsNoLine == EOF \notin Lines
BY DEF EOF, Lines

(***************************************************************************)
(* Behind the end mark there is nothing, and before it only lines.         *)
(***************************************************************************)
LEMMA MarkIsLast ==
  ASSUME NEW r \in Seq(Lines), NEW t \in Seq(Lines),
         NEW q \in Seq(Lines \cup {EOF}), q # <<>>, Head(q) = EOF,
         r \o q = t \o <<EOF>>
  PROVE  q = <<EOF>>
<1>1. /\ Len(r) \in Nat /\ Len(t) \in Nat /\ Len(q) \in Nat
      /\ Len(q) >= 1 /\ q[1] = EOF
  OBVIOUS
<1>2. Len(r) + Len(q) = Len(t) + 1
  <2>1. Len(r \o q) = Len(r) + Len(q)
    OBVIOUS
  <2>2. Len(t \o <<EOF>>) = Len(t) + 1
    OBVIOUS
  <2> QED BY <2>1, <2>2
<1>3. (r \o q)[Len(r) + 1] = EOF
  BY <1>1
<1>4. ~(Len(r) + 1 <= Len(t))
  <2> SUFFICES ASSUME Len(r) + 1 <= Len(t) PROVE FALSE
    OBVIOUS
  <2>1. (t \o <<EOF>>)[Len(r) + 1] = t[Len(r) + 1] /\ t[Len(r) + 1] \in Lines
    BY <1>1
  <2> QED BY <1>3, <2>1, EOFIsNoLine
<1>5. Len(q) = 1
  BY <1>1, <1>2, <1>4
<1> QED BY <1>1, <1>5

LEMMA NoMarkInLines ==
  ASSUME NEW r \in Seq(Lines), NEW t \in Seq(Lines), NEW s \in Seq(Lines),
         NEW q \in Seq(Lines \cup {EOF}), q # <<>>, Head(q) = EOF
  PROVE  t # r \o q \o s
<1> SUFFICES ASSUME t = r \o q \o s PROVE FALSE
  OBVIOUS
<1>1. /\ Len(r) \in Nat /\ Len(q) \in Nat /\ Len(s) \in Nat
      /\ Len(q) >= 1 /\ q[1] = EOF
      /\ r \o q \in Seq(Lines \cup {EOF}) /\ Len(r \o q) = Len(r) + Len(q)
  OBVIOUS
<1>2. (r \o q)[Len(r) + 1] = EOF
  BY <1>1
<1>3. t[Len(r) + 1] = EOF /\ Len(r) + 1 \in 1..Len(t)
  BY <1>1, <1>2
<1>4. t[Len(r) + 1] \in Lines
  BY <1>3
<1> QED BY <1>3, <1>4, EOFIsNoLine

LEMMA AppendConcat ==
  ASSUME NEW S, NEW a \in Seq(S), NEW b \in Seq(S), NEW e \in S
  PROVE  a \o Append(b, e) = Append(a \o b, e)
<1> DEFINE left == a \o Append(b, e)
           right == Append(a \o b, e)
<1>1. /\ Append(b, e) \in Seq(S) /\ a \o b \in Seq(S)
      /\ Len(a) \in Nat /\ Len(b) \in Nat
      /\ Len(Append(b, e)) = Len(b) + 1 /\ Len(a \o b) = Len(a) + Len(b)
  OBVIOUS
<1>2. left \in Seq(S) /\ right \in Seq(S) /\ Len(left) = Len(right)
  BY <1>1
<1>3. ASSUME NEW i \in 1..Len(left) PROVE left[i] = right[i]
  <2>1. CASE i <= Len(a)
    BY <1>1, <2>1
  <2>2. CASE i > Len(a) /\ i <= Len(a) + Len(b)
    BY <1>1, <2>2
  <2>3. CASE i = Len(a) + Len(b) + 1
    BY <1>1, <2>3
  <2> QED BY <1>1, <2>1, <2>2, <2>3
<1> HIDE DEF left, right
<1>4. left = right
  BY <1>2, <1>3, SeqEqual
<1> QED BY <1>4 DEF left, right

(***************************************************************************)
(* readline moves a line from the queue to its reader, or leaves the queue *)
(* as it is.                                                               *)
(***************************************************************************)
LEMMA ReadLineKeepsAll ==
  ASSUME TypeOK, NoLineLost, NEW item \in Lines \cup {EOF}, ReadLine(item),
         UNCHANGED <<stdin, typed, closed>>
  PROVE  NoLineLost'
<1> DEFINE Items == Lines \cup {EOF}
<1>1. /\ read \in Seq(Items) /\ queue \in Seq(Items) /\ queue # <<>>
      /\ read \in Seq(Lines) /\ typed \in Seq(Lines) /\ stdin \in Seq(Lines)
      /\ item = Head(queue) /\ pump' = pump
  BY DEF TypeOK, ReadLine
<1>2. CASE item # EOF
  <2>1. read' = Append(read, item) /\ queue' = Tail(queue)
    BY <1>2 DEF ReadLine
  <2>2. read' \o queue' = read \o queue
    BY <1>1, <2>1, MoveHead
  <2>3. /\ pump' = pump /\ stdin' = stdin
        /\ typed' = typed /\ closed' = closed
    BY <1>1
  <2>4. read' \o queue' \o stdin = read \o queue \o stdin
    BY ONLY Zenon, <2>2
  <2>5. CASE pump = "reading" /\ typed = read \o queue \o stdin
    <3>1. typed' = read' \o queue' \o stdin'
      BY ONLY Zenon, <2>3, <2>4, <2>5
    <3> QED BY ONLY Zenon, <2>3, <2>5, <3>1 DEF NoLineLost
  <2>6. CASE /\ pump = "returned" /\ closed
             /\ stdin = <<>> /\ typed \o <<EOF>> = read \o queue
    BY ONLY Zenon, <2>2, <2>3, <2>6 DEF NoLineLost
  <2> QED BY ONLY Zenon, NoLineLost, <2>5, <2>6 DEF NoLineLost
<1>3. CASE item = EOF
  <2>1. read' = read /\ queue' = Append(Tail(queue), EOF)
    BY <1>3 DEF ReadLine
  <2>2. typed # read \o queue \o stdin
    BY <1>1, <1>3, NoMarkInLines
  <2>3. /\ pump = "returned" /\ closed
        /\ stdin = <<>> /\ typed \o <<EOF>> = read \o queue
    BY <2>2 DEF NoLineLost
  <2>4. queue = <<EOF>>
    BY <1>1, <1>3, <2>3, MarkIsLast
  <2>5. queue' = queue
    BY <2>1, <2>4
  <2>6. /\ read' = read /\ pump' = pump /\ stdin' = stdin
        /\ typed' = typed /\ closed' = closed
    BY <1>1, <2>1
  <2>7. /\ pump' = "returned" /\ closed'
        /\ stdin' = <<>> /\ typed' \o <<EOF>> = read' \o queue'
    BY <2>3, <2>5, <2>6
  <2> QED BY <2>7 DEF NoLineLost
<1> QED BY <1>2, <1>3

LEMMA NextNoLineLost == TypeOK /\ NoLineLost /\ [Next]_vars => NoLineLost'
<1> SUFFICES ASSUME TypeOK, NoLineLost, [Next]_vars PROVE NoLineLost'
  OBVIOUS
<1> DEFINE Items == Lines \cup {EOF}
<1>0. /\ read \in Seq(Items) /\ queue \in Seq(Items) /\ stdin \in Seq(Items)
      /\ read \o queue \in Seq(Items)
      /\ stdin \in Seq(Lines)
  BY DEF TypeOK
<1>1. CASE Type
  <2>1. PICK line \in Lines : stdin' = Append(stdin, line) /\ typed' = Append(typed, line)
    BY <1>1 DEF Type
  <2>2. UNCHANGED <<queue, pump, read>> /\ ~closed
    BY <1>1 DEF Type, broker
  <2>3. (read \o queue) \o Append(stdin, line) = Append((read \o queue) \o stdin, line)
    BY <1>0, AppendConcat
  <2> QED BY <2>1, <2>2, <2>3 DEF NoLineLost
<1>2. CASE Close
  BY <1>2 DEF NoLineLost, Close, broker
<1>3. CASE Pump
  <2>1. UNCHANGED <<read, typed, closed>> /\ pump = "reading"
    BY <1>3 DEF Pump
  <2>2. typed = (read \o queue) \o stdin
    BY <2>1 DEF NoLineLost
  <2>3. CASE /\ stdin # <<>> /\ queue' = Append(queue, Head(stdin))
             /\ stdin' = Tail(stdin) /\ pump' = pump
    <3>1. Head(stdin) \in Items
      BY <1>0, <2>3
    <3>2. read \o queue' = Append(read \o queue, Head(stdin))
      BY <1>0, <2>3, <3>1, AppendConcat
    <3>3. (read \o queue') \o stdin' = (read \o queue) \o stdin
      BY <1>0, <2>3, <3>2, MoveHead
    <3> QED BY <2>1, <2>2, <2>3, <3>3 DEF NoLineLost
  <2>4. CASE /\ stdin = <<>> /\ closed /\ queue' = Append(queue, EOF)
             /\ pump' = "returned" /\ stdin' = stdin
    <3>1. typed = read \o queue
      BY <1>0, <2>2, <2>4
    <3>2. read \o queue' = Append(typed, EOF)
      BY <1>0, <2>4, <3>1, AppendConcat
    <3>3. Append(typed, EOF) = typed \o <<EOF>>
      BY <1>0, <3>1
    <3> QED BY <2>1, <2>4, <3>2, <3>3 DEF NoLineLost
  <2> QED BY <1>3, <2>3, <2>4 DEF Pump
<1>4. CASE Acknowledge
  <2>1. PICK item \in Items : ReadLine(item)
    BY <1>4 DEF Acknowledge
  <2>2. UNCHANGED <<stdin, typed, closed>>
    BY <1>4 DEF Acknowledge, terminal
  <2> QED BY <2>1, <2>2, ReadLineKeepsAll
<1>5. CASE Prompt
  <2>1. PICK item \in Items : ReadLine(item)
    BY <1>5 DEF Prompt
  <2>2. UNCHANGED <<stdin, typed, closed>>
    BY <1>5 DEF Prompt, terminal
  <2> QED BY <2>1, <2>2, ReadLineKeepsAll
<1>6. ASSUME UNCHANGED <<terminal, broker>> PROVE NoLineLost'
  BY <1>6 DEF NoLineLost, terminal, broker
<1> QED BY <1>1, <1>2, <1>3, <1>4, <1>5, <1>6
        DEF Next, AckTask, Main, Over, vars, Unattended, GateOpens, GateAcknowledged,
            GateTimesOut, SprintCancels, AckDies, SprintEnds

(***************************************************************************)
(* Whatever the thread, the prompt and the acknowledgement tasks do, each  *)
(* line is handed out once and in order, and the end of input stays.       *)
(***************************************************************************)
THEOREM EveryLineIsRead == Spec => []NoLineLost
<1>1. Init => NoLineLost
  BY DEF Init, NoLineLost
<1> QED BY <1>1, GateTypeCorrect, NextNoLineLost, PTL DEF Spec

-----------------------------------------------------------------------------
(***************************************************************************)
(* A keypress opens one gate: the event is cleared where it is used, a     *)
(* sprint starts without one, and the timer leaves it alone.               *)
(***************************************************************************)
THEOREM EveryAckIsEarned == Spec => []AcksAreEarned
<1>1. Init => AcksAreEarned
  BY DEF Init, AcksAreEarned
<1>2. TypeOK /\ AcksAreEarned /\ [Next]_vars => AcksAreEarned'
  <2> SUFFICES ASSUME TypeOK, AcksAreEarned, [Next]_vars PROVE AcksAreEarned'
    OBVIOUS
  <2>0. acked \in Nat /\ taken \in Nat /\ gate_event \in BOOLEAN
    BY DEF TypeOK
  <2>1. CASE Acknowledge
    BY <2>0, <2>1 DEF AcksAreEarned, Acknowledge
  <2>2. CASE Prompt \/ Unattended
    <3>1. StartSprint \/ NoSprint
      BY <2>2 DEF Prompt, Unattended
    <3> QED BY <2>0, <3>1 DEF AcksAreEarned, StartSprint, NoSprint, gate
  <2>3. CASE GateOpens
    BY <2>0, <2>3 DEF AcksAreEarned, GateOpens, UseEvent
  <2>4. CASE GateAcknowledged
    BY <2>0, <2>4 DEF AcksAreEarned, GateAcknowledged, UseEvent
  <2>5. ASSUME UNCHANGED <<gate, taken>> PROVE AcksAreEarned'
    BY <2>5 DEF AcksAreEarned, gate
  <2> QED BY <2>1, <2>2, <2>3, <2>4, <2>5
          DEF Next, AckTask, Main, Over, vars, Type, Close, Pump, GateTimesOut,
              SprintCancels, AckDies, SprintEnds
<1> QED BY <1>1, <1>2, GateTypeCorrect, PTL DEF Spec

(***************************************************************************)
(* The task that reads for a gate is dead when its sprint is over, and     *)
(* reads no more once it is cancelled.                                     *)
(***************************************************************************)
THEOREM ThePromptOwnsInput == Spec => []PromptOwnsInput
<1>1. Init => PromptOwnsInput
  BY DEF Init, PromptOwnsInput
<1>2. PromptOwnsInput /\ [Next]_vars => PromptOwnsInput'
  <2> SUFFICES ASSUME PromptOwnsInput, [Next]_vars PROVE PromptOwnsInput'
    OBVIOUS
  <2>1. CASE Acknowledge \/ AckDies
    BY <2>1 DEF PromptOwnsInput, Acknowledge, AckDies
  <2>2. CASE Prompt \/ Unattended
    <3>1. \/ main' = "sprint"
          \/ ack' = ack /\ ack = "none"
      BY <2>2 DEF PromptOwnsInput, Prompt, Unattended, StartSprint, NoSprint
    <3> QED BY <3>1 DEF PromptOwnsInput
  <2>3. CASE GateOpens \/ GateAcknowledged \/ GateTimesOut
    BY <2>3 DEF PromptOwnsInput, GateOpens, GateAcknowledged, GateTimesOut
  <2>5. CASE SprintCancels \/ SprintEnds
    BY <2>5 DEF PromptOwnsInput, SprintCancels, SprintEnds
  <2>4. ASSUME UNCHANGED <<main, ack>> PROVE PromptOwnsInput'
    BY <2>4 DEF PromptOwnsInput
  <2> QED BY <2>1, <2>2, <2>3, <2>4, <2>5
          DEF Next, AckTask, Main, Over, vars, Type, Close, Pump
<1> QED BY <1>1, <1>2, PTL DEF Spec
=============================================================================
