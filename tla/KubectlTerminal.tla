---------------------------- MODULE KubectlTerminal ----------------------------
(***************************************************************************)
(* The kubectl terminal of a cluster: the page (app/static/terminal.js),   *)
(* the websocket, the handler of the server with the task that receives    *)
(* its messages (kubectl_websocket in app/main.py), and kubectl.           *)
(***************************************************************************)
EXTENDS Integers, SequencesExt

CONSTANTS
  MaxCommands,     (* bound: commands of the session                         *)
  MaxLines,        (* bound: lines a command writes                          *)
  MaxInterrupts,   (* bound: times the user presses Ctrl-C                   *)
  Capacity         (* messages to the page the connection holds              *)

ASSUME BoundsAssumption ==
  {MaxCommands, MaxLines, MaxInterrupts, Capacity} \subseteq Nat \ {0}

VARIABLES
  page,         (* the page: busy, commands and interrupts sent, open        *)
  shown,        (* the lines the page shows of each command                  *)
  exits,        (* the commands whose exit the page shows                    *)
  up,           (* messages to the server on the connection                  *)
  down,         (* messages to the page on the connection                    *)
  messages,     (* the queue of the handler                                  *)
  receiving,    (* receive_messages runs                                     *)
  pc,           (* where the handler is                                      *)
  command,      (* number of the command it serves or has served last        *)
  stop,         (* the message that stopped it: interrupted, disconnected    *)
  failed,       (* the handler was ended by an exception                     *)
  process,      (* kubectl: its state, lines written, lines read             *)
  audits        (* the commands audited                                      *)

vars == <<page, shown, exits, up, down, messages, receiving, pc, command, stop, failed, process, audits>>

pageVars == <<page, shown, exits>>
serverVars == <<messages, receiving, pc, command, stop, failed, process, audits>>

Commands == 1 .. MaxCommands
Kinds == {"read", "change", "refused"}
Nothing == [type |-> "none"]
NoProcess == [state |-> "none", written |-> 0, read |-> 0]

Init ==
  /\ page = [open |-> TRUE, busy |-> TRUE, sent |-> 0, interrupts |-> 0]
  /\ shown = [n \in Commands |-> <<>>] /\ exits = {}
  /\ up = <<>> /\ down = <<>> /\ messages = <<>> /\ receiving = TRUE
  /\ pc = "accepted" /\ command = 0 /\ stop = Nothing /\ failed = FALSE
  /\ process = NoProcess /\ audits = <<>>

-----------------------------------------------------------------------------
(* The page.                                                                 *)

(* Seeded fault: the prompt is left open while a command is served.          *)
SendAnyway == \E kind \in Kinds :
  /\ page.open /\ page.sent < MaxCommands
  /\ page' = [page EXCEPT !.busy = TRUE, !.sent = @ + 1]
  /\ up' = Append(up, [type |-> "command", number |-> page.sent + 1, kind |-> kind,
                     confirmed |-> kind # "read"])
  /\ UNCHANGED <<shown, exits, down, serverVars>>

(* A command that reads, one that changes the cluster, which the page sends  *)
(* once it is confirmed, or one the server refuses to run.                   *)
SendCommand == \E kind \in Kinds :
  /\ page.open /\ ~page.busy /\ page.sent < MaxCommands
  /\ page' = [page EXCEPT !.busy = TRUE, !.sent = @ + 1]
  /\ up' = Append(up, [type |-> "command", number |-> page.sent + 1, kind |-> kind,
                     confirmed |-> kind # "read"])
  /\ UNCHANGED <<shown, exits, down, serverVars>>

SendInterrupt ==
  /\ page.open /\ page.busy /\ page.interrupts < MaxInterrupts
  /\ page' = [page EXCEPT !.interrupts = @ + 1]
  /\ up' = Append(up, [type |-> "interrupt", number |-> page.sent])
  /\ UNCHANGED <<shown, exits, down, serverVars>>

(* onmessage: ready, error and exit give the prompt back.                    *)
ShowMessage ==
  /\ page.open /\ down # <<>>
  /\ LET m == Head(down) IN
       /\ page' = [page EXCEPT !.busy = @ /\ m.type \notin {"ready", "error", "exit"}]
       /\ shown' = IF m.type = "output" THEN [shown EXCEPT ![m.number] = Append(@, m.line)] ELSE shown
       /\ exits' = IF m.type = "exit" THEN exits \union {m.number} ELSE exits
  /\ down' = Tail(down)
  /\ UNCHANGED <<up, serverVars>>

(* The page is left or the connection breaks, with what is on it or not.     *)
Disconnect ==
  /\ page.open
  /\ page' = [page EXCEPT !.open = FALSE, !.busy = TRUE]
  /\ \E k \in 0 .. Len(up) : up' = SubSeq(up, 1, k)
  /\ down' = <<>>
  /\ UNCHANGED <<shown, exits, serverVars>>

(* The handler has ended: the server closes the connection.                  *)
SeeClose ==
  /\ page.open /\ pc = "ended" /\ down = <<>>
  /\ page' = [page EXCEPT !.open = FALSE, !.busy = TRUE]
  /\ UNCHANGED <<shown, exits, up, down, serverVars>>

-----------------------------------------------------------------------------
(* The server.                                                               *)

(* Seeded fault: only a message ends the receiver, not a disconnect.         *)
ReceiveMessages ==
  /\ receiving /\ up # <<>>
  /\ messages' = Append(messages, Head(up)) /\ up' = Tail(up)
  /\ UNCHANGED <<pageVars, down, receiving, pc, command, stop, failed, process, audits>>

(* receive_messages.                                                         *)
Receive ==
  /\ receiving
  /\ \/ /\ up # <<>>
        /\ messages' = Append(messages, Head(up)) /\ up' = Tail(up)
        /\ UNCHANGED receiving
     \/ /\ up = <<>> /\ ~page.open
        /\ messages' = Append(messages, [type |-> "disconnect"]) /\ receiving' = FALSE
        /\ UNCHANGED up
  /\ UNCHANGED <<pageVars, down, pc, command, stop, failed, process, audits>>

Raise == pc' = "finally" /\ failed' = TRUE /\ down' = down
Go(next) == pc' = next /\ failed' = failed

(* send_json, then next: it waits while the connection is full; once the     *)
(* page is gone, it drops the message or raises.                             *)
Send(m, next) ==
  \/ page.open /\ Len(down) < Capacity /\ down' = Append(down, m) /\ Go(next)
  \/ ~page.open /\ (Raise \/ (Go(next) /\ down' = down))

SendReady ==
  /\ pc = "accepted"
  /\ Send([type |-> "ready"], "idle")
  /\ UNCHANGED <<pageVars, up, messages, receiving, command, stop, process, audits>>

(* Seeded fault: an interrupt that comes too late is kept in the queue.      *)
TakeCommandOnly ==
  /\ pc = "idle" /\ messages # <<>>
  /\ LET m == Head(messages) IN
       /\ messages' = IF m.type = "interrupt" THEN Append(Tail(messages), m) ELSE Tail(messages)
       /\ IF m.type = "command"
            THEN Send([type |-> "start"], "spawn") /\ command' = m.number /\ stop' = Nothing
            ELSE Go(IF m.type = "disconnect" THEN "finally" ELSE "idle") /\ UNCHANGED <<down, command, stop>>
  /\ UNCHANGED <<pageVars, up, receiving, process, audits>>

(* parse_kubectl_command                                                     *)
Accepted(m) == m.kind # "refused" /\ (m.kind = "change" => m.confirmed)

(* A message taken from the queue while no command runs.                     *)
TakeCommand ==
  /\ pc = "idle" /\ messages # <<>>
  /\ messages' = Tail(messages)
  /\ LET m == Head(messages) IN
       \/ m.type = "disconnect" /\ Go("finally") /\ UNCHANGED <<down, command, stop>>
       \/ m.type = "interrupt" /\ Go("idle") /\ UNCHANGED <<down, command, stop>>
       \/ m.type = "command" /\ ~Accepted(m)
            /\ Send([type |-> "error"], "idle") /\ UNCHANGED <<command, stop>>
       \/ m.type = "command" /\ Accepted(m)
            /\ Send([type |-> "start"], "spawn") /\ command' = m.number /\ stop' = Nothing
  /\ UNCHANGED <<pageVars, up, receiving, process, audits>>

(* create_subprocess_exec; it may fail.                                      *)
Spawn ==
  /\ pc = "spawn"
  /\ \/ process' = [NoProcess EXCEPT !.state = "runs"] /\ Go("loop") /\ UNCHANGED down
     \/ Raise /\ UNCHANGED process
  /\ UNCHANGED <<pageVars, up, messages, receiving, command, stop, audits>>

Exited == process.state = "exited"

(* while process.returncode is None                                          *)
Loop ==
  /\ pc = "loop"
  /\ Go(IF Exited THEN "audit" ELSE "wait")
  /\ UNCHANGED <<pageVars, up, down, messages, receiving, command, stop, process, audits>>

Readable == process.read < process.written \/ process.state \in {"closing", "exited"}

(* output_task and control_task: those that are done once the first of them  *)
(* has woken the handler.  What the other one waits for is left alone.       *)
Woken == {done \in SUBSET {"output", "control"} :
            /\ done # {}
            /\ "output" \in done => Readable
            /\ "control" \in done => messages # <<>>}

(* Seeded fault: the end of the output is taken for a line.                  *)
ReadOn(p) == [p EXCEPT !.read = @ + 1]

Read(p) == IF p.read < p.written THEN [p EXCEPT !.read = @ + 1] ELSE p

(* Seeded fault: the end of kubectl is not waited for.                       *)
ObeyAtOnce == \E done \in Woken :
  /\ pc = "wait" /\ "control" \in done
  /\ messages' = Tail(messages)
  /\ LET p == IF "output" \in done THEN Read(process) ELSE process IN
       process' = IF Exited THEN p ELSE [p EXCEPT !.state = "terminated"]
  /\ Go("loop") /\ stop' = Head(messages) /\ UNCHANGED down
  /\ UNCHANGED <<pageVars, up, receiving, command, audits>>

(* A line read together with a message is dropped.  terminate() may raise if *)
(* kubectl has ended meanwhile.                                              *)
ObeyControl == \E done \in Woken :
  /\ pc = "wait" /\ "control" \in done
  /\ messages' = Tail(messages)
  /\ LET m == Head(messages)
         p == IF "output" \in done THEN Read(process) ELSE process
     IN IF m.type = "command" THEN Go("loop") /\ process' = p /\ UNCHANGED <<down, stop>>
        ELSE /\ process' = IF Exited THEN p ELSE [p EXCEPT !.state = "terminated"]
             /\ \/ Go("reap") /\ stop' = m /\ UNCHANGED down
                \/ Exited /\ Raise /\ UNCHANGED stop
  /\ UNCHANGED <<pageVars, up, receiving, command, audits>>

(* Seeded fault: a line goes before the message that came with it.           *)
ForwardFirst == \E done \in Woken :
  /\ pc = "wait" /\ "output" \in done
  /\ process' = Read(process)
  /\ messages' = IF "control" \in done THEN Tail(messages) ELSE messages
  /\ IF process.read < process.written
       THEN Send([type |-> "output", number |-> command, line |-> process.read + 1], "loop")
       ELSE Go("reap") /\ UNCHANGED down
  /\ UNCHANGED <<pageVars, up, receiving, command, stop, audits>>

(* A line is sent; at the end of the output the end of kubectl is awaited.   *)
ForwardOutput == \E done \in Woken :
  /\ pc = "wait" /\ done = {"output"}
  /\ process' = Read(process)
  /\ IF process.read < process.written
       THEN Send([type |-> "output", number |-> command, line |-> process.read + 1], "loop")
       ELSE Go("reap") /\ UNCHANGED down
  /\ UNCHANGED <<pageVars, up, messages, receiving, command, stop, audits>>

(* process.wait()                                                            *)
Reap ==
  /\ pc = "reap" /\ Exited
  /\ Go("loop")
  /\ UNCHANGED <<pageVars, up, down, messages, receiving, command, stop, process, audits>>

(* Seeded fault: the handler leaves before the audit when the page has gone. *)
AuditConnected ==
  /\ pc = "audit"
  /\ IF stop.type = "disconnect" THEN Go("finally") /\ UNCHANGED <<audits, down>>
     ELSE audits' = Append(audits, command) /\ Go("exit") /\ UNCHANGED down
  /\ UNCHANGED <<pageVars, up, messages, receiving, command, stop, process>>

(* The audit event; the database may refuse it.                              *)
Audit ==
  /\ pc = "audit"
  /\ \/ /\ audits' = Append(audits, command)
        /\ Go(IF stop.type = "disconnect" THEN "finally" ELSE "exit") /\ UNCHANGED down
     \/ Raise /\ UNCHANGED audits
  /\ UNCHANGED <<pageVars, up, messages, receiving, command, stop, process>>

SendExit ==
  /\ pc = "exit"
  /\ Send([type |-> "exit", number |-> command, interrupted |-> stop.type = "interrupt"], "idle")
  /\ process' = IF pc' = "idle" THEN NoProcess ELSE process
  /\ UNCHANGED <<pageVars, up, messages, receiving, command, stop, audits>>

(* Seeded fault: kubectl is left to itself.                                  *)
FinallyAtOnce ==
  /\ pc = "finally"
  /\ receiving' = FALSE /\ Go("ended")
  /\ UNCHANGED <<pageVars, up, down, messages, command, stop, process, audits>>

(* finally: the receiver is cancelled, kubectl terminated and awaited.       *)
Finally ==
  /\ pc = "finally"
  /\ receiving' = FALSE
  /\ IF process.state \in {"none", "exited"} THEN Go("ended") /\ UNCHANGED process
     ELSE Go("leave") /\ process' = [process EXCEPT !.state = "terminated"]
  /\ UNCHANGED <<pageVars, up, down, messages, command, stop, audits>>

Leave ==
  /\ pc = "leave" /\ Exited
  /\ Go("ended")
  /\ UNCHANGED <<pageVars, up, down, messages, receiving, command, stop, process, audits>>

-----------------------------------------------------------------------------
(* kubectl, and its exit status as the event loop learns of it.              *)

Kubectl(p) ==
  /\ process' = p
  /\ UNCHANGED <<pageVars, up, down, messages, receiving, pc, command, stop, failed, audits>>

Write ==
  /\ process.state \in {"runs", "terminated"} /\ process.written < MaxLines
  /\ Kubectl([process EXCEPT !.written = @ + 1])

CloseOutput == process.state = "runs" /\ Kubectl([process EXCEPT !.state = "closing"])

Exit ==
  /\ process.state \in {"runs", "closing", "terminated"}
  /\ Kubectl([process EXCEPT !.state = "exited"])

Page == SendCommand \/ SendInterrupt \/ ShowMessage \/ Disconnect \/ SeeClose

Handler ==
  \/ SendReady \/ TakeCommand \/ Spawn \/ Loop \/ ObeyControl \/ ForwardOutput
  \/ Reap \/ Audit \/ SendExit \/ Finally \/ Leave

Next == Page \/ Receive \/ Handler \/ Write \/ CloseOutput \/ Exit

Spec == Init /\ [][Next]_vars

(* The event loop runs every task that can run, the connection delivers, and *)
(* kubectl ends once it is asked to or has closed its output.  Nothing makes *)
(* it end, write or close its output by itself.                              *)
ExitDue == process.state \in {"closing", "terminated"} /\ Exit

Fairness ==
  /\ WF_vars(Handler) /\ WF_vars(Receive)
  /\ WF_vars(ShowMessage) /\ WF_vars(SeeClose) /\ WF_vars(ExitDue)

FairSpec == Spec /\ Fairness

-----------------------------------------------------------------------------
Controls == [type : {"interrupt"}, number : 0 .. MaxCommands] \union {[type |-> "disconnect"]}
CommandMessages == [type : {"command"}, number : Commands, kind : Kinds, confirmed : BOOLEAN]

TypeOK ==
  /\ page \in [open : BOOLEAN, busy : BOOLEAN,
                sent : 0 .. MaxCommands, interrupts : 0 .. MaxInterrupts]
  /\ \A n \in Commands : shown[n] \in Seq(1 .. MaxLines)
  /\ exits \subseteq Commands
  /\ {up, messages} \subseteq Seq(Controls \union CommandMessages)
  /\ Len(down) <= Capacity
  /\ pc \in {"accepted", "idle", "spawn", "loop", "wait", "reap", "audit", "exit",
              "finally", "leave", "ended"}
  /\ command \in 0 .. MaxCommands /\ stop \in Controls \union {Nothing}
  /\ receiving \in BOOLEAN /\ failed \in BOOLEAN
  /\ process.state \in {"none", "runs", "closing", "terminated", "exited"}
  /\ process.read \in 0 .. process.written /\ process.written \in 0 .. MaxLines
  /\ audits \in Seq(Commands)

(* No kubectl runs on behind a connection that has ended, however it ended.  *)
NothingOutlives == pc = "ended" => process.state \in {"none", "exited"}

(* Ctrl-C stops the command it was pressed for and never a later one, though *)
(* it may arrive after the command has ended or before it has started.       *)
InterruptHitsItsCommand == stop.type = "interrupt" => stop.number = command

(* A command that was served is audited, once and in order, also when it was *)
(* interrupted or the page had gone, unless an exception ended the handler;  *)
(* and no exit is shown before it is audited.                                *)
ServedIsAudited ==
  /\ \A i, j \in DOMAIN audits : i < j => audits[i] < audits[j]
  /\ exits \subseteq ToSet(audits)
  /\ (pc = "idle" \/ (pc = "ended" /\ ~failed)) /\ command # 0 => command \in ToSet(audits)

(* What the page shows of a command is the beginning of what kubectl wrote:  *)
(* lines may be missing at the end, when it was stopped or its exit was      *)
(* noticed before its last lines were read, but never in between.            *)
ShownIsPrefix == \A n \in Commands : \A i \in DOMAIN shown[n] : shown[n][i] = i

(* Only what Ctrl-C and the page's end are for comes while a command runs:   *)
(* nothing the user has sent is thrown away unseen.                          *)
NoCommandWhileServing ==
  pc \in {"spawn", "loop", "wait", "reap", "audit"} =>
    \A i \in DOMAIN messages : messages[i].type # "command"

(* Whoever presses Ctrl-C gets the prompt back, or sees the connection end,  *)
(* even if kubectl would run and write forever.                              *)
InterruptIsAnswered ==
  \A n \in Commands :
    (up # <<>> /\ Last(up) = [type |-> "interrupt", number |-> n] /\ page.sent = n)
      ~> (~page.open \/ ~page.busy \/ n \in exits)

(* When the page is gone, the handler ends, and kubectl with it.             *)
SessionEnds == ~page.open ~> pc = "ended"
=============================================================================
