------------------------------- MODULE RunCommand -------------------------------
(* run_command of the worker (src/app/worker.py): one external command, the  *)
(* thread that reads its output into a queue, and the loop that moves the    *)
(* output to the log, sends heartbeats and looks for a cancellation.         *)
EXTENDS Naturals, Sequences

CONSTANTS
  MaxLines,  \* bounds the lines a command prints
  PipeSize,  \* the lines the operating system keeps until they are read
  Faults     \* "helper": the command leaves a child that holds its output open
             \* "undecodable": a line is not valid UTF-8
             \* "db_error": a statement of the database fails

ASSUME ConstantsAssumption == MaxLines \in Nat /\ PipeSize \in Nat \ {0}

VARIABLES
  pc,        \* where run_command is
  outcome,   \* how it ends: "none" until that is decided
  item,      \* the line taken from the queue and not yet logged, 0 for none
  finished,  \* output_finished: the end of the output was taken
  queue,     \* output: lines, and EndOfOutput at the end
  log,       \* the lines appended to the log of the job
  reader,    \* the thread read_output
  process,   \* the command: "none", "running", "exited"
  code,      \* its exit code
  signal,    \* what was sent to it: "none", "term", "kill"
  helper,    \* a child of the command runs
  total,     \* the lines the command is going to print
  printed,   \* the lines it has printed; they are numbered from 1
  pipe,      \* the lines printed and not yet read
  cancel     \* cancel_requested of the job

runnerVars == <<pc, outcome, item, finished>>
processVars == <<process, code, signal, helper, total, printed>>
vars == <<runnerVars, queue, log, reader, processVars, pipe, cancel>>

EndOfOutput == 0  \* None in the code

At(step) == pc = step

Init ==
  /\ pc = "start" /\ outcome = "none" /\ item = 0 /\ finished = FALSE
  /\ queue = <<>> /\ log = <<>> /\ pipe = <<>>
  /\ reader = "none"
  /\ process = "none" /\ code = 0 /\ signal = "none" /\ helper = FALSE
  /\ total = 0 /\ printed = 0
  /\ cancel = FALSE

-----------------------------------------------------------------------------
(* The worker's thread.                                                      *)

(* ensure_not_cancelled before anything is started.                          *)
RefuseStart ==
  /\ At("start")
  /\ cancel
  /\ pc' = "ended" /\ outcome' = "cancelled"
  /\ UNCHANGED <<item, finished, queue, log, reader, processVars, pipe, cancel>>

(* The program cannot be started.                                            *)
StartFails ==
  /\ At("start")
  /\ ~cancel
  /\ pc' = "ended" /\ outcome' = "error"
  /\ UNCHANGED <<item, finished, queue, log, reader, processVars, pipe, cancel>>

Start ==
  /\ At("start")
  /\ ~cancel
  /\ pc' = "loop"
  /\ process' = "running"
  /\ reader' = "reading"
  /\ total' \in 0 .. MaxLines
  /\ helper' \in IF "helper" \in Faults THEN BOOLEAN ELSE {FALSE}
  /\ UNCHANGED <<outcome, item, finished, queue, log, code, signal, printed, pipe, cancel>>

(* The condition of the loop: process.poll() and output_finished.            *)
LeavesLoop == process # "running" /\ finished

TestLoop ==
  /\ At("loop")
  /\ pc' = IF LeavesLoop THEN "join" ELSE "get"
  /\ UNCHANGED <<outcome, item, finished, queue, log, reader, processVars, pipe, cancel>>

(* Seeded fault: the sentinel is taken for a line.                           *)
GetAnyItem ==
  /\ At("get")
  /\ queue # <<>>
  /\ queue' = Tail(queue)
  /\ item' = Head(queue)
  /\ pc' = "append"
  /\ finished' = (Head(queue) = EndOfOutput)
  /\ UNCHANGED <<outcome, log, reader, processVars, pipe, cancel>>

GetItem ==
  /\ At("get")
  /\ queue # <<>>
  /\ queue' = Tail(queue)
  /\ IF Head(queue) = EndOfOutput
       THEN /\ finished' = TRUE
            /\ pc' = "check"
            /\ UNCHANGED item
       ELSE /\ item' = Head(queue)
            /\ pc' = "append"
            /\ UNCHANGED finished
  /\ UNCHANGED <<outcome, log, reader, processVars, pipe, cancel>>

(* Seeded fault: get waits without a limit.                                  *)
WaitForItem == FALSE /\ UNCHANGED vars

(* No line for half a second.                                                *)
GetTimesOut ==
  /\ At("get")
  /\ queue = <<>>
  /\ pc' = "check"
  /\ UNCHANGED <<outcome, item, finished, queue, log, reader, processVars, pipe, cancel>>

AppendLog ==
  /\ At("append")
  /\ log' = Append(log, item)
  /\ item' = 0
  /\ pc' = "check"
  /\ UNCHANGED <<outcome, finished, queue, reader, processVars, pipe, cancel>>

(* ensure_not_cancelled in the loop, and the heartbeat.                      *)
CheckCancel ==
  /\ At("check")
  /\ IF cancel
       THEN pc' = "terminate" /\ outcome' = "cancelled"
       ELSE pc' = "loop" /\ UNCHANGED outcome
  /\ UNCHANGED <<item, finished, queue, log, reader, processVars, pipe, cancel>>

(* A statement of append_log or ensure_not_cancelled fails.  The handler of  *)
(* JobCancelled does not see it: nothing stops the command.                  *)
DatabaseError ==
  /\ "db_error" \in Faults
  /\ pc \in {"start", "append", "check"}
  /\ outcome' = "error"
  /\ pc' = IF At("start") THEN "ended" ELSE "join"
  /\ UNCHANGED <<item, finished, queue, log, reader, processVars, pipe, cancel>>

Terminate ==
  /\ At("terminate")
  /\ IF process = "running"
       THEN pc' = "wait" /\ signal' = "term"
       ELSE pc' = "join" /\ UNCHANGED signal
  /\ UNCHANGED <<outcome, item, finished, queue, log, reader, process, code, helper, total,
                 printed, pipe, cancel>>

(* process.wait returns, after terminate or after kill.                      *)
WaitReturns ==
  /\ pc \in {"wait", "killed"}
  /\ process # "running"
  /\ pc' = "join"
  /\ UNCHANGED <<outcome, item, finished, queue, log, reader, processVars, pipe, cancel>>

(* Seeded fault: a process that ignores the signal is left alone.            *)
GiveUpWaiting ==
  /\ At("wait")
  /\ process = "running"
  /\ pc' = "join"
  /\ UNCHANGED <<outcome, item, finished, queue, log, reader, processVars, pipe, cancel>>

(* It does not within ten seconds: process.kill().                           *)
KillProcess ==
  /\ At("wait")
  /\ process = "running"
  /\ signal' = "kill"
  /\ pc' = "killed"
  /\ UNCHANGED <<outcome, item, finished, queue, log, reader, process, code, helper, total,
                 printed, pipe, cancel>>

(* reader.join(timeout=1) comes back whether the reader has ended or not;    *)
(* then the exit code decides, unless an exception is on its way.            *)
JoinReader ==
  /\ At("join")
  /\ pc' = "ended"
  /\ outcome' = CASE outcome # "none" -> outcome
                  [] outcome = "none" -> IF code = 0 THEN "ok" ELSE "failed"
  /\ UNCHANGED <<item, finished, queue, log, reader, processVars, pipe, cancel>>

-----------------------------------------------------------------------------
(* The thread read_output.                                                   *)

ReadLine ==
  /\ reader = "reading"
  /\ pipe # <<>>
  /\ queue' = Append(queue, Head(pipe))
  /\ pipe' = Tail(pipe)
  /\ UNCHANGED <<runnerVars, log, reader, processVars, cancel>>

(* Seeded fault: the thread ends without putting the sentinel.               *)
ReadEndSilently ==
  /\ reader = "reading"
  /\ pipe = <<>>
  /\ process # "running" /\ ~helper
  /\ reader' = "done"
  /\ UNCHANGED <<runnerVars, queue, log, processVars, pipe, cancel>>

(* Seeded fault: the thread ends with the process and leaves the pipe.       *)
ReadEndWithProcess ==
  /\ reader = "reading"
  /\ process # "running" /\ ~helper
  /\ reader' = "done"
  /\ queue' = Append(queue, EndOfOutput)
  /\ UNCHANGED <<runnerVars, log, processVars, pipe, cancel>>

(* The end of the output: nobody holds the pipe open any more.               *)
ReadEnd ==
  /\ reader = "reading"
  /\ pipe = <<>>
  /\ process # "running" /\ ~helper
  /\ reader' = "done"
  /\ queue' = Append(queue, EndOfOutput)
  /\ UNCHANGED <<runnerVars, log, processVars, pipe, cancel>>

(* An exception ends the thread; the sentinel is put all the same.           *)
ReaderFails ==
  /\ "undecodable" \in Faults
  /\ reader = "reading"
  /\ pipe # <<>>
  /\ reader' = "failed"
  /\ pipe' = Tail(pipe)
  /\ queue' = Append(queue, EndOfOutput)
  /\ UNCHANGED <<runnerVars, log, processVars, cancel>>

-----------------------------------------------------------------------------
(* The command, its child and the user.                                      *)

(* A full pipe blocks the writer.                                            *)
PrintLine ==
  /\ process = "running" \/ helper
  /\ printed < total
  /\ Len(pipe) < PipeSize
  /\ printed' = printed + 1
  /\ pipe' = Append(pipe, printed + 1)
  /\ UNCHANGED <<runnerVars, queue, log, reader, process, code, signal, helper, total, cancel>>

(* The command has printed everything, or leaves the rest to its child; code *)
(* 0 stands for the allowed exit codes.                                      *)
Exit ==
  /\ process = "running"
  /\ printed = total \/ helper
  /\ process' = "exited"
  /\ code' \in {0, 1}
  /\ UNCHANGED <<runnerVars, queue, log, reader, signal, helper, total, printed, pipe, cancel>>

(* SIGTERM may be ignored, SIGKILL may not.                                  *)
DieOf(s) ==
  /\ process = "running"
  /\ signal = s
  /\ process' = "exited"
  /\ code' = 1
  /\ UNCHANGED <<runnerVars, queue, log, reader, signal, helper, total, printed, pipe, cancel>>

HelperEnds ==
  /\ helper
  /\ process = "running" \/ printed = total
  /\ helper' = FALSE
  /\ UNCHANGED <<runnerVars, queue, log, reader, process, code, signal, total, printed, pipe,
                 cancel>>

RequestCancel ==
  /\ ~cancel
  /\ cancel' = TRUE
  /\ UNCHANGED <<runnerVars, queue, log, reader, processVars, pipe>>

Runner ==
  \/ RefuseStart \/ StartFails \/ Start
  \/ TestLoop \/ GetItem \/ GetTimesOut \/ AppendLog \/ CheckCancel
  \/ DatabaseError
  \/ Terminate \/ WaitReturns \/ KillProcess \/ JoinReader

Reader == ReadLine \/ ReadEnd \/ ReaderFails

Command == PrintLine \/ Exit \/ DieOf("term") \/ DieOf("kill") \/ HelperEnds

Next == Runner \/ Reader \/ Command \/ RequestCancel

Spec == Init /\ [][Next]_vars

(* Both threads run, and SIGKILL works; the command itself may hang.         *)
FairSpec == Spec /\ WF_vars(Runner) /\ WF_vars(Reader) /\ WF_vars(DieOf("kill"))

-----------------------------------------------------------------------------
Lines == 1 .. MaxLines

(* The variables keep their types.                                           *)
TypeOK ==
  /\ pc \in {"start", "loop", "get", "append", "check", "terminate", "wait", "killed",
             "join", "ended"}
  /\ outcome \in {"none", "ok", "failed", "cancelled", "error"}
  /\ item \in 0 .. MaxLines
  /\ finished \in BOOLEAN
  /\ queue \in Seq(0 .. MaxLines)
  /\ log \in Seq(Lines)
  /\ reader \in {"none", "reading", "done", "failed"}
  /\ process \in {"none", "running", "exited"}
  /\ code \in {0, 1}
  /\ signal \in {"none", "term", "kill"}
  /\ helper \in BOOLEAN
  /\ total \in 0 .. MaxLines
  /\ printed \in 0 .. MaxLines
  /\ pipe \in Seq(Lines)
  /\ cancel \in BOOLEAN

(* The log holds the first lines of the command, in order, none twice and    *)
(* none left out; and all of them once run_command has returned or raised    *)
(* for the exit code, although the command may end long before its output    *)
(* is read (the loop of worker.py:102).                                      *)
Returned == At("ended") /\ outcome \in {"ok", "failed"}

LogIsOutput ==
  /\ Len(log) <= printed
  /\ \A i \in 1 .. Len(log) : log[i] = i
  /\ Returned /\ reader # "failed" => Len(log) = printed

(* run_command never leaves a running command behind, except when the        *)
(* database fails; and when it returns nothing prints into its output.       *)
NothingLeftRunning ==
  /\ At("ended") /\ outcome # "error" => process # "running"
  /\ Returned /\ reader # "failed" => ~helper

(* A cancellation ends any command, whether it prints, hangs, ignores        *)
(* SIGTERM, is blocked by a full pipe or has left a child behind.            *)
CancelEnds == cancel ~> At("ended")

(* A command that prints its lines and exits whenever it can ends            *)
(* run_command.  Only a reader that has failed can leave it blocked, at a    *)
(* pipe nobody reads.                                                        *)
CommandEnds ==
  WF_vars(PrintLine) /\ WF_vars(Exit) /\ WF_vars(HelperEnds)
    => <>(At("ended") \/ reader = "failed")
=============================================================================
