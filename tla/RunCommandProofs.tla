---------------------------- MODULE RunCommandProofs ----------------------------
(* What holds of RunCommand for any number of lines and any size of the pipe.*)
EXTENDS RunCommand, Integers, TLAPS

LEMMA AppendIs ==
  ASSUME NEW S, NEW s \in Seq(S), NEW x \in S
  PROVE  /\ Append(s, x) \in Seq(S)
         /\ Len(Append(s, x)) = Len(s) + 1
         /\ \A i \in 1 .. Len(s) : Append(s, x)[i] = s[i]
         /\ Append(s, x)[Len(s) + 1] = x
OBVIOUS

LEMMA TailIs ==
  ASSUME NEW S, NEW s \in Seq(S), s # <<>>
  PROVE  /\ Head(s) = s[1] /\ Head(s) \in S
         /\ Tail(s) \in Seq(S)
         /\ Len(s) \in Nat \ {0}
         /\ Len(Tail(s)) = Len(s) - 1
         /\ \A i \in 1 .. Len(s) - 1 : Tail(s)[i] = s[i + 1]
OBVIOUS

-----------------------------------------------------------------------------
(* Where the lines are.  They are taken from the queue in the order of their *)
(* numbers; what is in the queue follows on those taken, what is in the pipe *)
(* follows on the queue.                                                     *)
Taken == Len(log) + IF item = 0 THEN 0 ELSE 1

ReaderEnded == reader \in {"done", "failed"}

(* The sentinel is in the queue, at its end, from the end of the reader      *)
(* until the loop has taken it.                                              *)
QueuedLines == IF ReaderEnded /\ ~finished THEN Len(queue) - 1 ELSE Len(queue)

Sentinel ==
  /\ ReaderEnded /\ ~finished => queue # <<>> /\ queue[Len(queue)] = EndOfOutput
  /\ finished => queue = <<>> /\ ReaderEnded

LinesInOrder ==
  /\ \A i \in 1 .. Len(log) : log[i] = i
  /\ item # 0 => item = Len(log) + 1
  /\ \A i \in 1 .. QueuedLines : queue[i] = Taken + i
  /\ ~ReaderEnded => \A i \in 1 .. Len(pipe) : pipe[i] = Taken + Len(queue) + i

NoLineLost ==
  /\ ~ReaderEnded => printed = Taken + Len(queue) + Len(pipe)
  /\ reader = "done" => printed = Taken + QueuedLines
  /\ reader = "failed" => printed >= Taken + QueuedLines

(* What the loop knows at its steps, and what the reader knows of the        *)
(* command when it has seen the end of the output.                           *)
LoopInv ==
  /\ pc = "start" => process = "none" /\ reader = "none" /\ outcome = "none" /\ printed = 0
  /\ pc \notin {"start", "ended"} => reader # "none"
  /\ reader = "none" => ~finished /\ ~helper /\ process = "none"
  /\ pc = "append" => item # 0
  /\ pc \in {"start", "loop", "get", "check"} => item = 0
  /\ pc \in {"loop", "get", "append", "check"} => outcome = "none"
  /\ pc \in {"terminate", "wait", "killed"} => outcome = "cancelled"
  /\ At("join") /\ outcome = "none" => finished /\ item = 0 /\ process # "running"
  /\ At("join") /\ outcome = "cancelled" => process # "running"
  /\ At("join") => outcome \in {"none", "cancelled", "error"}
  /\ At("ended") => outcome # "none"
  /\ At("ended") /\ outcome \in {"ok", "failed"} => finished /\ item = 0
  /\ At("ended") /\ outcome # "error" => process # "running"
  /\ reader = "done" => process # "running" /\ ~helper
  /\ printed <= total

LinesInv == Sentinel /\ LinesInOrder /\ NoLineLost

Inv == TypeOK /\ LoopInv /\ LinesInv

LEMMA InitInv == Init => Inv
<1> SUFFICES ASSUME Init PROVE Inv
  OBVIOUS
<1> USE ConstantsAssumption
<1>1. TypeOK
  <2>1. /\ queue \in Seq(0 .. MaxLines) /\ log \in Seq(Lines) /\ pipe \in Seq(Lines)
        /\ 0 \in 0 .. MaxLines
    BY DEF Init
  <2> QED
    BY <2>1 DEF Init, TypeOK
<1>2. LoopInv
  BY DEF Init, LoopInv, At
<1>3. LinesInv
  BY DEF Init, LinesInv, Sentinel, LinesInOrder, NoLineLost, Taken, ReaderEnded, QueuedLines
<1> QED
  BY <1>1, <1>2, <1>3 DEF Inv

LEMMA InvImplies == Inv => LogIsOutput /\ NothingLeftRunning
<1> SUFFICES ASSUME Inv PROVE LogIsOutput /\ NothingLeftRunning
  OBVIOUS
<1>1. /\ Len(log) \in Nat /\ Len(queue) \in Nat /\ Len(pipe) \in Nat /\ printed \in Nat
      /\ reader \in {"none", "reading", "done", "failed"}
      /\ Len(queue) = 0 <=> queue = <<>>
  BY ConstantsAssumption DEF Inv, TypeOK
<1>2. QueuedLines \in Nat /\ Taken \in Nat /\ Len(log) <= Taken
  BY <1>1 DEF QueuedLines, Taken, Inv, LinesInv, Sentinel
<1>3. printed >= Taken
  BY <1>1, <1>2 DEF Inv, LinesInv, NoLineLost, ReaderEnded
<1>4. Len(log) <= printed
  BY <1>1, <1>2, <1>3
<1>5. ASSUME Returned PROVE /\ finished /\ item = 0 /\ process # "running"
                            /\ ReaderEnded /\ queue = <<>>
  BY <1>5 DEF Returned, At, Inv, LoopInv, LinesInv, Sentinel
<1>6. ASSUME Returned, reader # "failed" PROVE Len(log) = printed /\ ~helper
  <2>1. reader = "done"
    BY <1>5, <1>6 DEF ReaderEnded
  <2>2. printed = Len(log)
    BY <1>1, <1>5, <1>6, <2>1 DEF Inv, LinesInv, NoLineLost, Taken, QueuedLines
  <2> QED
    BY <2>1, <2>2 DEF Inv, LoopInv
<1> QED
  BY <1>4, <1>6
  DEF Inv, LinesInv, LinesInOrder, LoopInv, LogIsOutput, NothingLeftRunning, At

(* Nothing moves: the steps that change neither queue nor log nor pipe.      *)
LEMMA StillLines ==
  ASSUME LinesInv, UNCHANGED <<item, finished, queue, log, reader, pipe, printed>>
  PROVE  LinesInv'
BY DEF LinesInv, Sentinel, LinesInOrder, NoLineLost, Taken, ReaderEnded, QueuedLines

LEMMA NextTypeOK == TypeOK /\ LoopInv /\ [Next]_vars => TypeOK'
<1> SUFFICES ASSUME TypeOK, LoopInv, [Next]_vars PROVE TypeOK'
  OBVIOUS
<1> USE ConstantsAssumption DEF At, processVars, runnerVars
<1>1. CASE RefuseStart \/ StartFails \/ TestLoop \/ GetTimesOut \/ CheckCancel \/ DatabaseError
           \/ WaitReturns \/ JoinReader
  BY <1>1 DEF RefuseStart, StartFails, TestLoop, GetTimesOut, CheckCancel, DatabaseError,
              WaitReturns, JoinReader, TypeOK
<1>2. CASE Start
  BY <1>2 DEF Start, TypeOK
<1>3. CASE GetItem
  <2>1. Tail(queue) \in Seq(0 .. MaxLines) /\ Head(queue) \in 0 .. MaxLines
    BY <1>3, TailIs DEF GetItem, TypeOK
  <2> QED
    BY <1>3, <2>1 DEF GetItem, TypeOK
<1>4. CASE AppendLog
  <2>1. item \in Lines
    BY <1>4 DEF AppendLog, LoopInv, TypeOK, Lines
  <2>2. Append(log, item) \in Seq(Lines)
    BY <2>1, AppendIs DEF TypeOK
  <2> QED
    BY <1>4, <2>2 DEF AppendLog, TypeOK
<1>5. CASE Terminate \/ KillProcess
  BY <1>5 DEF Terminate, KillProcess, TypeOK
<1>6. CASE ReadLine
  <2>1. Tail(pipe) \in Seq(Lines) /\ Head(pipe) \in 0 .. MaxLines
    BY <1>6, TailIs DEF ReadLine, TypeOK, Lines
  <2>2. Append(queue, Head(pipe)) \in Seq(0 .. MaxLines)
    BY <2>1, AppendIs DEF TypeOK
  <2> QED
    BY <1>6, <2>1, <2>2 DEF ReadLine, TypeOK
<1>7. CASE ReadEnd \/ ReaderFails
  <2>1. Append(queue, EndOfOutput) \in Seq(0 .. MaxLines)
    BY AppendIs DEF TypeOK, EndOfOutput
  <2>2. pipe' \in Seq(Lines)
    BY <1>7, TailIs DEF ReadEnd, ReaderFails, TypeOK
  <2>3. CASE ReadEnd
    BY <2>1, <2>2, <2>3 DEF ReadEnd, TypeOK
  <2>4. CASE ReaderFails
    BY <2>1, <2>2, <2>4 DEF ReaderFails, TypeOK
  <2> QED
    BY <1>7, <2>3, <2>4
<1>8. CASE PrintLine
  <2>1. printed + 1 \in Lines
    BY <1>8 DEF PrintLine, TypeOK, Lines
  <2>2. Append(pipe, printed + 1) \in Seq(Lines)
    BY <2>1, AppendIs DEF TypeOK
  <2> QED
    BY <1>8, <2>1, <2>2 DEF PrintLine, TypeOK, Lines
<1>9. CASE Exit
  BY <1>9 DEF Exit, TypeOK
<1>10. CASE DieOf("term") \/ DieOf("kill")
  BY <1>10 DEF DieOf, TypeOK
<1>11. CASE HelperEnds
  <2>1. helper' \in BOOLEAN
    BY <1>11 DEF HelperEnds
  <2>2. UNCHANGED <<runnerVars, queue, log, reader, process, code, signal, total, printed, pipe,
                    cancel>>
    BY <1>11 DEF HelperEnds
  <2> QED
    BY <2>1, <2>2 DEF TypeOK
<1>12. CASE RequestCancel
  BY <1>12 DEF RequestCancel, TypeOK
<1>13. CASE UNCHANGED vars
  BY <1>13 DEF vars, TypeOK
<1> QED
  BY <1>1, <1>2, <1>3, <1>4, <1>5, <1>6, <1>7, <1>8, <1>9, <1>10, <1>11, <1>12, <1>13
  DEF Next, Runner, Reader, Command

LEMMA NextLoopInv == TypeOK /\ LoopInv /\ [Next]_vars => LoopInv'
<1> SUFFICES ASSUME TypeOK, LoopInv, [Next]_vars PROVE LoopInv'
  OBVIOUS
<1> USE ConstantsAssumption DEF At, processVars, runnerVars, LoopInv
<1>1. CASE RefuseStart \/ StartFails
  BY <1>1 DEF RefuseStart, StartFails
<1>2. CASE Start
  BY <1>2 DEF Start, TypeOK
<1>3. CASE TestLoop
  BY <1>3 DEF TestLoop, LeavesLoop
<1>4. CASE GetItem
  BY <1>4 DEF GetItem, EndOfOutput
<1>5. CASE GetTimesOut \/ AppendLog
  BY <1>5 DEF GetTimesOut, AppendLog
<1>6. CASE CheckCancel
  BY <1>6 DEF CheckCancel
<1>7. CASE DatabaseError
  BY <1>7 DEF DatabaseError
<1>8. CASE Terminate
  BY <1>8 DEF Terminate
<1>9. CASE WaitReturns \/ KillProcess
  BY <1>9 DEF WaitReturns, KillProcess
<1>10. CASE JoinReader
  BY <1>10 DEF JoinReader
<1>11. CASE ReadLine \/ ReadEnd \/ ReaderFails
  BY <1>11 DEF ReadLine, ReadEnd, ReaderFails
<1>12. CASE PrintLine
  BY <1>12 DEF PrintLine, TypeOK
<1>13. CASE Exit \/ DieOf("term") \/ DieOf("kill") \/ HelperEnds
  BY <1>13 DEF Exit, DieOf, HelperEnds
<1>14. CASE RequestCancel \/ UNCHANGED vars
  BY <1>14 DEF RequestCancel, vars
<1> QED
  BY <1>1, <1>2, <1>3, <1>4, <1>5, <1>6, <1>7, <1>8, <1>9, <1>10, <1>11, <1>12, <1>13, <1>14
  DEF Next, Runner, Reader, Command

(* The steps that move a line.                                               *)
LEMMA GetKeepsLines == TypeOK /\ LoopInv /\ LinesInv /\ GetItem => LinesInv'
<1> SUFFICES ASSUME TypeOK, LoopInv, LinesInv, GetItem PROVE LinesInv'
  OBVIOUS
<1> USE DEF At, processVars
<1>1. /\ item = 0 /\ queue # <<>> /\ ~finished
      /\ log' = log /\ pipe' = pipe /\ reader' = reader /\ printed' = printed
      /\ queue' = Tail(queue)
  BY DEF GetItem, LoopInv, LinesInv, Sentinel
<1>2. /\ Head(queue) = queue[1] /\ Len(queue) \in Nat \ {0}
      /\ Len(queue') = Len(queue) - 1
      /\ \A i \in 1 .. Len(queue) - 1 : queue'[i] = queue[i + 1]
      /\ Len(log) \in Nat /\ Len(pipe) \in Nat /\ printed \in Nat
  <2>1. queue \in Seq(0 .. MaxLines) /\ log \in Seq(Lines) /\ pipe \in Seq(Lines)
        /\ printed \in Nat
    BY ConstantsAssumption DEF TypeOK
  <2> QED
    BY <1>1, <2>1, TailIs
<1>empty. queue' = <<>> <=> Len(queue) = 1
  <2>1. queue' \in Seq(0 .. MaxLines)
    BY <1>1, TailIs DEF TypeOK
  <2>2. queue' = <<>> <=> Len(queue') = 0
    BY <2>1
  <2> QED
    BY <1>2, <2>2
<1>3. CASE Head(queue) = EndOfOutput
  <2>1. finished' /\ item' = 0
    BY <1>1, <1>3 DEF GetItem
  <2>2. ReaderEnded /\ Len(queue) = 1
    <3>1. QueuedLines = 0
      BY <1>1, <1>2, <1>3 DEF LinesInv, LinesInOrder, QueuedLines, Taken, EndOfOutput
    <3> QED
      BY <1>1, <1>2, <3>1 DEF QueuedLines
  <2>3. queue' = <<>> /\ ReaderEnded' /\ Sentinel'
    BY <1>1, <1>2, <1>empty, <2>1, <2>2 DEF Sentinel, ReaderEnded
  <2>4. QueuedLines = 0 /\ QueuedLines' = 0 /\ Taken = Len(log) /\ Taken' = Len(log)
    BY <1>1, <1>2, <2>1, <2>2, <2>3 DEF QueuedLines, Taken
  <2>5. LinesInOrder'
    BY <1>1, <2>1, <2>3, <2>4 DEF LinesInv, LinesInOrder
  <2>6. NoLineLost'
    BY <1>1, <2>2, <2>3, <2>4 DEF LinesInv, NoLineLost
  <2> QED
    BY <2>3, <2>5, <2>6 DEF LinesInv
<1>4. CASE Head(queue) # EndOfOutput
  <2>1. finished' = finished /\ item' = Head(queue) /\ item' # 0
    BY <1>1, <1>4 DEF GetItem, EndOfOutput
  <2>2. ReaderEnded => Len(queue) > 1
    BY <1>1, <1>2, <1>4 DEF LinesInv, Sentinel
  <2>3. item' = Len(log) + 1 /\ QueuedLines' = QueuedLines - 1 /\ QueuedLines \in Nat \ {0}
    BY <1>1, <1>2, <2>1, <2>2 DEF LinesInv, LinesInOrder, QueuedLines, Taken, ReaderEnded
  <2>4. Taken = Len(log) /\ Taken' = Len(log) + 1
    BY <1>1, <1>2, <2>1 DEF Taken
  <2>5. Sentinel'
    BY <1>1, <1>2, <1>empty, <2>1, <2>2 DEF LinesInv, Sentinel, ReaderEnded
  <2>6. NoLineLost'
    BY <1>1, <1>2, <2>3, <2>4 DEF LinesInv, NoLineLost, ReaderEnded
  <2>7. \A i \in 1 .. QueuedLines' : queue'[i] = Taken' + i
    BY <1>2, <2>3, <2>4 DEF LinesInv, LinesInOrder, QueuedLines
  <2>8. ~ReaderEnded' => \A i \in 1 .. Len(pipe') : pipe'[i] = Taken' + Len(queue') + i
    <3> SUFFICES ASSUME ~ReaderEnded', NEW i \in 1 .. Len(pipe')
                 PROVE  pipe'[i] = Taken' + Len(queue') + i
      OBVIOUS
    <3>1. pipe[i] = Taken + Len(queue) + i
      BY <1>1 DEF LinesInv, LinesInOrder, ReaderEnded
    <3> QED
      BY <1>1, <1>2, <2>4, <3>1
  <2> QED
    BY <1>1, <2>3, <2>5, <2>6, <2>7, <2>8 DEF LinesInv, LinesInOrder
<1> QED
  BY <1>3, <1>4

LEMMA AppendKeepsLines == TypeOK /\ LoopInv /\ LinesInv /\ AppendLog => LinesInv'
<1> SUFFICES ASSUME TypeOK, LoopInv, LinesInv, AppendLog PROVE LinesInv'
  OBVIOUS
<1> USE DEF At, processVars
<1>1. /\ item = Len(log) + 1 /\ item # 0 /\ item' = 0
      /\ UNCHANGED <<queue, pipe, reader, printed, finished>>
      /\ log' = Append(log, item)
  BY DEF AppendLog, LoopInv, LinesInv, LinesInOrder
<1>2. item \in Lines
  BY <1>1 DEF TypeOK, Lines
<1>3. /\ Len(log) \in Nat /\ Len(log') = Len(log) + 1
      /\ \A i \in 1 .. Len(log) : log'[i] = log[i]
      /\ log'[Len(log) + 1] = item
  BY <1>1, <1>2, AppendIs DEF TypeOK
<1>4. Taken' = Taken /\ ReaderEnded' = ReaderEnded /\ QueuedLines' = QueuedLines
  BY <1>1, <1>3 DEF Taken, ReaderEnded, QueuedLines
<1>5. \A i \in 1 .. Len(log') : log'[i] = i
  BY <1>1, <1>3 DEF LinesInv, LinesInOrder
<1> QED
  BY <1>1, <1>4, <1>5 DEF LinesInv, Sentinel, LinesInOrder, NoLineLost

LEMMA ReadKeepsLines == TypeOK /\ LinesInv /\ ReadLine => LinesInv'
<1> SUFFICES ASSUME TypeOK, LinesInv, ReadLine PROVE LinesInv'
  OBVIOUS
<1> USE DEF processVars, runnerVars
<1>1. /\ pipe # <<>> /\ ~ReaderEnded /\ ~ReaderEnded'
      /\ UNCHANGED <<item, finished, log, reader, printed>>
      /\ queue' = Append(queue, Head(pipe)) /\ pipe' = Tail(pipe)
  BY DEF ReadLine, ReaderEnded
<1>2. /\ Head(pipe) = pipe[1] /\ Head(pipe) \in Lines
      /\ Len(pipe) \in Nat \ {0} /\ Len(pipe') = Len(pipe) - 1
      /\ \A i \in 1 .. Len(pipe) - 1 : pipe'[i] = pipe[i + 1]
  BY <1>1, TailIs DEF TypeOK
<1>3. Head(pipe) \in 0 .. MaxLines
  BY <1>2 DEF Lines
<1>4. /\ Len(queue) \in Nat /\ Len(queue') = Len(queue) + 1
      /\ \A i \in 1 .. Len(queue) : queue'[i] = queue[i]
      /\ queue'[Len(queue) + 1] = Head(pipe)
  BY <1>1, <1>3, AppendIs DEF TypeOK
<1>5. Taken' = Taken /\ Taken \in Nat /\ ~finished
  BY <1>1 DEF Taken, TypeOK, LinesInv, Sentinel
<1>6. Sentinel'
  BY <1>1, <1>5 DEF Sentinel
<1>7. QueuedLines = Len(queue) /\ QueuedLines' = Len(queue) + 1
  BY <1>1, <1>4 DEF QueuedLines
<1>8. Head(pipe) = Taken + Len(queue) + 1
  BY <1>1, <1>2 DEF LinesInv, LinesInOrder
<1>9. \A i \in 1 .. QueuedLines' : queue'[i] = Taken' + i
  BY <1>4, <1>5, <1>7, <1>8 DEF LinesInv, LinesInOrder
<1>10. \A i \in 1 .. Len(pipe') : pipe'[i] = Taken' + Len(queue') + i
  BY <1>1, <1>2, <1>4, <1>5 DEF LinesInv, LinesInOrder
<1>11. LinesInOrder'
  BY <1>1, <1>9, <1>10 DEF LinesInv, LinesInOrder
<1>12. NoLineLost'
  BY <1>1, <1>2, <1>4, <1>5 DEF LinesInv, NoLineLost, ReaderEnded, TypeOK
<1> QED
  BY <1>6, <1>11, <1>12 DEF LinesInv

LEMMA EndKeepsLines == TypeOK /\ LinesInv /\ (ReadEnd \/ ReaderFails) => LinesInv'
<1> SUFFICES ASSUME TypeOK, LinesInv, ReadEnd \/ ReaderFails PROVE LinesInv'
  OBVIOUS
<1> USE DEF processVars, runnerVars
<1>1. /\ ~ReaderEnded /\ ReaderEnded'
      /\ UNCHANGED <<item, finished, log, printed>>
      /\ queue' = Append(queue, EndOfOutput)
      /\ reader' = "done" => pipe = <<>>
  BY DEF ReadEnd, ReaderFails, ReaderEnded
<1>2. EndOfOutput \in 0 .. MaxLines
  BY ConstantsAssumption DEF EndOfOutput
<1>3. /\ Len(queue) \in Nat /\ Len(queue') = Len(queue) + 1 /\ queue' # <<>>
      /\ \A i \in 1 .. Len(queue) : queue'[i] = queue[i]
      /\ queue'[Len(queue) + 1] = EndOfOutput
  BY <1>1, <1>2, AppendIs DEF TypeOK
<1>4. Taken' = Taken /\ Taken \in Nat /\ ~finished
  BY <1>1 DEF Taken, TypeOK, LinesInv, Sentinel
<1>5. QueuedLines = Len(queue) /\ QueuedLines' = Len(queue)
  BY <1>1, <1>3, <1>4 DEF QueuedLines
<1>6. Sentinel'
  BY <1>1, <1>3, <1>4 DEF Sentinel
<1>7. LinesInOrder'
  BY <1>1, <1>3, <1>4, <1>5 DEF LinesInv, LinesInOrder
<1>8. NoLineLost'
  BY <1>1, <1>3, <1>4, <1>5 DEF LinesInv, NoLineLost, TypeOK
<1> QED
  BY <1>6, <1>7, <1>8 DEF LinesInv

LEMMA PrintKeepsLines == TypeOK /\ LoopInv /\ LinesInv /\ PrintLine => LinesInv'
<1> SUFFICES ASSUME TypeOK, LoopInv, LinesInv, PrintLine PROVE LinesInv'
  OBVIOUS
<1> USE DEF runnerVars
<1>1. /\ UNCHANGED <<item, finished, log, reader, queue>>
      /\ printed' = printed + 1 /\ pipe' = Append(pipe, printed + 1)
  BY DEF PrintLine
<1>2. printed + 1 \in Lines /\ printed \in Nat
  BY ConstantsAssumption DEF PrintLine, TypeOK, Lines
<1>3. /\ Len(pipe) \in Nat /\ Len(pipe') = Len(pipe) + 1
      /\ \A i \in 1 .. Len(pipe) : pipe'[i] = pipe[i]
      /\ pipe'[Len(pipe) + 1] = printed + 1
  BY <1>1, <1>2, AppendIs DEF TypeOK
<1>4. /\ Taken' = Taken /\ Taken \in Nat
      /\ ReaderEnded' = ReaderEnded
      /\ QueuedLines' = QueuedLines /\ QueuedLines \in Int
      /\ Len(queue') = Len(queue) /\ Len(queue) \in Nat
  BY <1>1 DEF Taken, ReaderEnded, QueuedLines, TypeOK
<1>5. Sentinel'
  BY <1>1, <1>4 DEF LinesInv, Sentinel
<1>6. \A i \in 1 .. QueuedLines' : queue'[i] = Taken' + i
  BY <1>1, <1>4 DEF LinesInv, LinesInOrder
<1>7. ~ReaderEnded => \A i \in 1 .. Len(pipe') : pipe'[i] = Taken' + Len(queue') + i
  <2> SUFFICES ASSUME ~ReaderEnded, NEW i \in 1 .. Len(pipe')
               PROVE  pipe'[i] = Taken' + Len(queue') + i
    OBVIOUS
  <2>1. CASE i \in 1 .. Len(pipe)
    BY <1>1, <1>3, <1>4, <2>1 DEF LinesInv, LinesInOrder
  <2>2. CASE i = Len(pipe) + 1
    BY <1>1, <1>2, <1>3, <1>4, <2>2 DEF LinesInv, NoLineLost
  <2> QED
    BY <1>3, <2>1, <2>2
<1>8. LinesInOrder'
  BY <1>1, <1>4, <1>6, <1>7 DEF LinesInv, LinesInOrder
<1>9. reader # "done"
  BY DEF PrintLine, LoopInv
<1>10. NoLineLost'
  BY <1>1, <1>2, <1>3, <1>4, <1>9 DEF LinesInv, NoLineLost
<1> QED
  BY <1>5, <1>8, <1>10 DEF LinesInv

LEMMA NextLinesInv == TypeOK /\ LoopInv /\ LinesInv /\ [Next]_vars => LinesInv'
<1> SUFFICES ASSUME TypeOK, LoopInv, LinesInv, [Next]_vars PROVE LinesInv'
  OBVIOUS
<1> USE DEF processVars, runnerVars
<1>1. CASE Start
  BY <1>1 DEF Start, At, LoopInv, LinesInv, Sentinel, LinesInOrder, NoLineLost, Taken,
              ReaderEnded, QueuedLines
<1>2. CASE UNCHANGED <<item, finished, queue, log, reader, pipe, printed>>
  BY <1>2, StillLines
<1> QED
  BY <1>1, <1>2, GetKeepsLines, AppendKeepsLines, ReadKeepsLines, EndKeepsLines,
     PrintKeepsLines
  DEF Next, Runner, Reader, Command, RefuseStart, StartFails, TestLoop, GetTimesOut,
      CheckCancel, DatabaseError, Terminate, WaitReturns, KillProcess, JoinReader, Exit,
      DieOf, HelperEnds, RequestCancel, vars

LEMMA Invariant == Spec => []Inv
<1>1. Inv /\ [Next]_vars => Inv'
  BY NextTypeOK, NextLoopInv, NextLinesInv DEF Inv
<1> QED
  BY <1>1, InitInv, PTL DEF Spec

(* The variables of run_command keep their types, whatever the limits.       *)
THEOREM TypeCorrect == Spec => []TypeOK
<1>1. Inv => TypeOK
  BY DEF Inv
<1> QED
  BY <1>1, Invariant, PTL

(* However the threads and the command interleave, the log is the output of  *)
(* the command in order, and all of it when run_command returns, unless the  *)
(* reader has failed.                                                        *)
THEOREM OutputLogged == Spec => []LogIsOutput
BY Invariant, InvImplies, PTL

(* run_command stops what it has started before it ends, unless the database *)
(* failed, and returns only when nothing holds its output open any more.     *)
THEOREM CommandStopped == Spec => []NothingLeftRunning
BY Invariant, InvImplies, PTL
=============================================================================
