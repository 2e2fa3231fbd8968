------------------------- MODULE KubectlTerminalProofs -------------------------
(* What holds of KubectlTerminal for any number of commands, lines and       *)
(* interrupts and any capacity of the connection.                            *)
EXTENDS KubectlTerminal, TLAPS

(* Sequences, element by element.                                            *)
LEMMA AppendIs ==
  ASSUME NEW S, NEW s \in Seq(S), NEW x \in S
  PROVE  /\ Append(s, x) \in Seq(S)
         /\ Len(Append(s, x)) = Len(s) + 1
         /\ DOMAIN Append(s, x) = 1 .. Len(s) + 1
         /\ \A i \in 1 .. Len(s) : Append(s, x)[i] = s[i]
         /\ Append(s, x)[Len(s) + 1] = x
OBVIOUS

LEMMA TailIs ==
  ASSUME NEW S, NEW s \in Seq(S), s # <<>>
  PROVE  /\ Head(s) = s[1] /\ Head(s) \in S
         /\ Tail(s) \in Seq(S)
         /\ Len(s) \in Nat \ {0}
         /\ Len(Tail(s)) = Len(s) - 1
         /\ DOMAIN Tail(s) = 1 .. Len(s) - 1
         /\ \A i \in 1 .. Len(s) - 1 : Tail(s)[i] = s[i + 1]
OBVIOUS

LEMMA ConcatIs ==
  ASSUME NEW S, NEW s \in Seq(S), NEW t \in Seq(S)
  PROVE  /\ s \o t \in Seq(S)
         /\ Len(s) \in Nat /\ Len(t) \in Nat
         /\ Len(s \o t) = Len(s) + Len(t)
         /\ DOMAIN (s \o t) = 1 .. Len(s) + Len(t)
         /\ \A i \in 1 .. Len(s) : (s \o t)[i] = s[i]
         /\ \A i \in Len(s) + 1 .. Len(s) + Len(t) : (s \o t)[i] = t[i - Len(s)]
OBVIOUS

LEMMA PrefixIs ==
  ASSUME NEW S, NEW s \in Seq(S), NEW k \in 0 .. Len(s)
  PROVE  /\ SubSeq(s, 1, k) \in Seq(S)
         /\ Len(SubSeq(s, 1, k)) = k
         /\ \A i \in 1 .. k : SubSeq(s, 1, k)[i] = s[i]
OBVIOUS

LEMMA EmptyIs ==
  ASSUME NEW S, NEW s \in Seq(S)
  PROVE  /\ s = <<>> <=> Len(s) = 0
         /\ DOMAIN s = 1 .. Len(s) /\ Len(s) \in Nat
         /\ \A i \in DOMAIN s : s[i] \in S
         /\ <<>> \in Seq(S)
OBVIOUS

-----------------------------------------------------------------------------
(* The inductive invariant.                                                  *)

Requested == Controls \union CommandMessages

Answers ==
  [type : {"ready", "start", "error"}]
    \union [type : {"output"}, number : Commands, line : 1 .. MaxLines]
    \union [type : {"exit"}, number : Commands, interrupted : BOOLEAN]

Serving == {"spawn", "loop", "wait", "reap", "audit", "exit"}
Steps == Serving \union {"accepted", "idle", "finally", "leave", "ended"}

Pages ==
  [open : BOOLEAN, busy : BOOLEAN, sent : 0 .. MaxCommands, interrupts : 0 .. MaxInterrupts]

Processes ==
  {p \in [state : {"none", "runs", "closing", "terminated", "exited"},
          written : 0 .. MaxLines, read : 0 .. MaxLines] : p.read <= p.written}

Types ==
  /\ page \in Pages
  /\ shown \in [Commands -> Seq(1 .. MaxLines)] /\ exits \subseteq Commands
  /\ up \in Seq(Requested) /\ messages \in Seq(Requested) /\ down \in Seq(Answers)
  /\ Len(down) <= Capacity
  /\ pc \in Steps /\ receiving \in BOOLEAN /\ failed \in BOOLEAN
  /\ command \in 0 .. MaxCommands /\ stop \in Controls \union {Nothing}
  /\ process \in Processes
  /\ audits \in Seq(Commands)
  /\ pc \in Serving => command \in Commands

(* What the handler has still to take, in the order in which it was sent.    *)
Sent == messages \o up

Prompts == {"ready", "error", "exit"}

NoCommand == \A i \in DOMAIN Sent : Sent[i].type # "command"

(* The turn is in one place: the user has the prompt; or a command is on its *)
(* way; or the handler is at it; or the prompt is on its way back.           *)
Turn ==
  /\ ~page.busy => pc = "idle" /\ NoCommand /\ down = <<>>
  /\ \A i \in DOMAIN Sent : Sent[i].type = "command" =>
       /\ pc \notin Serving \union {"accepted"} /\ page.busy /\ down = <<>>
       /\ Sent[i].number = page.sent /\ command < page.sent
       /\ \A k \in DOMAIN Sent : Sent[k].type = "command" => k = i
  /\ \A i \in DOMAIN down : down[i].type \in Prompts => i = Len(down) /\ pc = "idle" /\ NoCommand
  /\ pc \in Serving \union {"accepted"} => page.busy /\ NoCommand
  /\ command <= page.sent
  /\ ~page.open => page.busy /\ down = <<>>
  /\ \A i \in DOMAIN Sent : Sent[i].type = "disconnect" => ~page.open

(* An interrupt sent behind a command, or while one is served, is for it.    *)
Interrupts ==
  /\ \A i, k \in DOMAIN Sent :
       Sent[i].type = "command" /\ Sent[k].type = "interrupt" /\ i < k => Sent[k].number = page.sent
  /\ pc \in Serving =>
       /\ command = page.sent
       /\ \A k \in DOMAIN Sent : Sent[k].type = "interrupt" => Sent[k].number = page.sent

(* What is audited when.                                                     *)
Audits ==
  /\ \A i, j \in DOMAIN audits : i < j => audits[i] < audits[j]
  /\ \A i \in DOMAIN audits : audits[i] <= command
  /\ pc \in Serving \ {"exit"} => \A i \in DOMAIN audits : audits[i] < command
  /\ failed => pc \in {"finally", "leave", "ended"}
  /\ pc \notin Serving \ {"exit"} /\ ~failed /\ command # 0 => command \in ToSet(audits)
  /\ exits \subseteq ToSet(audits)
  /\ \A i \in DOMAIN down : down[i].type = "exit" => down[i].number \in ToSet(audits)

(* The lines of the command that the page shows, those on their way to it,   *)
(* and those that have been read from kubectl.                               *)
StartOnTop == IF down # <<>> /\ down[1].type = "start" THEN 1 ELSE 0
ShownNow == IF command = 0 THEN 0 ELSE Len(shown[command])

Coming ==
  \A i \in DOMAIN down :
    /\ down[i].type = "start" => i = 1
    /\ down[i].type = "output" => /\ down[i].number = command
                                  /\ down[i].line = ShownNow + i - StartOnTop

Reading ==
  /\ pc = "spawn" => ShownNow = 0 /\ Len(down) = StartOnTop
  /\ pc \in {"loop", "wait", "reap"} /\ stop = Nothing /\ page.open =>
       process.read = ShownNow + Len(down) - StartOnTop
  /\ pc \in {"spawn", "wait"} => stop = Nothing
  /\ pc = "loop" /\ stop # Nothing => process.state = "exited"

Lines ==
  /\ \A n \in Commands : \A i \in DOMAIN shown[n] : shown[n][i] = i
  /\ \A n \in Commands : n > command => shown[n] = <<>>
  /\ Coming /\ Reading

Inv ==
  /\ Types /\ NothingOutlives /\ InterruptHitsItsCommand
  /\ Turn /\ Interrupts /\ Audits /\ Lines

-----------------------------------------------------------------------------
(* What the steps do to Sent.                                                *)

LEMMA SentIs ==
  ASSUME Types
  PROVE  /\ Sent \in Seq(Requested) /\ Len(Sent) \in Nat /\ DOMAIN Sent = 1 .. Len(Sent)
         /\ \A i \in DOMAIN Sent : Sent[i] \in Requested
         /\ DOMAIN messages \subseteq DOMAIN Sent
         /\ \A i \in DOMAIN messages : messages[i] = Sent[i]
         /\ messages # <<>> => Len(Sent) > 0 /\ Head(messages) = Sent[1]
<1>1. messages \in Seq(Requested) /\ up \in Seq(Requested)
  BY DEF Types
<1>2. /\ Sent \in Seq(Requested) /\ Len(messages) \in Nat /\ Len(up) \in Nat
      /\ Len(Sent) = Len(messages) + Len(up)
      /\ DOMAIN Sent = 1 .. Len(messages) + Len(up)
      /\ \A i \in 1 .. Len(messages) : Sent[i] = messages[i]
  BY <1>1, ConcatIs DEF Sent
<1>3. DOMAIN messages = 1 .. Len(messages) /\ (messages = <<>> <=> Len(messages) = 0)
  BY <1>1, EmptyIs
<1>4. \A i \in DOMAIN Sent : Sent[i] \in Requested
  BY <1>2, EmptyIs
<1>5. ASSUME messages # <<>> PROVE Head(messages) = messages[1]
  BY <1>1, <1>5, TailIs
<1> QED
  BY <1>2, <1>3, <1>4, <1>5

(* The page sends a message.                                                 *)
LEMMA SentGrows ==
  ASSUME Types, NEW m \in Requested, up' = Append(up, m), messages' = messages
  PROVE  /\ DOMAIN Sent' = 1 .. Len(Sent) + 1
         /\ \A i \in 1 .. Len(Sent) : Sent'[i] = Sent[i]
         /\ Sent'[Len(Sent) + 1] = m
<1>1. messages \in Seq(Requested) /\ up \in Seq(Requested)
  BY DEF Types
<1>2. /\ up' \in Seq(Requested) /\ Len(up') = Len(up) + 1
      /\ \A i \in 1 .. Len(up) : up'[i] = up[i]
      /\ up'[Len(up) + 1] = m
  BY <1>1, AppendIs
<1>3. /\ Len(messages) \in Nat /\ Len(up) \in Nat
      /\ Len(Sent) = Len(messages) + Len(up)
      /\ \A i \in 1 .. Len(messages) : Sent[i] = messages[i]
      /\ \A i \in Len(messages) + 1 .. Len(messages) + Len(up) : Sent[i] = up[i - Len(messages)]
  BY <1>1, ConcatIs DEF Sent
<1>4. /\ DOMAIN Sent' = 1 .. Len(messages) + Len(up')
      /\ \A i \in 1 .. Len(messages) : Sent'[i] = messages[i]
      /\ \A i \in Len(messages) + 1 .. Len(messages) + Len(up') : Sent'[i] = up'[i - Len(messages)]
  BY <1>1, <1>2, ConcatIs DEF Sent
<1>5. ASSUME NEW i \in 1 .. Len(Sent) PROVE Sent'[i] = Sent[i]
  <2>1. CASE i <= Len(messages)
    BY <1>3, <1>4, <2>1
  <2>2. CASE i > Len(messages)
    BY <1>2, <1>3, <1>4, <2>2
  <2> QED
    BY <2>1, <2>2, <1>3
<1> QED
  BY <1>2, <1>3, <1>4, <1>5

(* The handler takes a message.                                              *)
LEMMA SentTaken ==
  ASSUME Types, messages # <<>>, messages' = Tail(messages), up' = up
  PROVE  /\ Len(Sent) > 0 /\ DOMAIN Sent' = 1 .. Len(Sent) - 1
         /\ \A i \in 1 .. Len(Sent) - 1 : Sent'[i] = Sent[i + 1]
<1>1. messages \in Seq(Requested) /\ up \in Seq(Requested)
  BY DEF Types
<1>2. /\ messages' \in Seq(Requested) /\ Len(messages) > 0
      /\ Len(messages') = Len(messages) - 1
      /\ \A i \in 1 .. Len(messages) - 1 : messages'[i] = messages[i + 1]
  BY <1>1, TailIs
<1>3. /\ Len(messages) \in Nat /\ Len(up) \in Nat
      /\ Len(Sent) = Len(messages) + Len(up)
      /\ \A i \in 1 .. Len(messages) : Sent[i] = messages[i]
      /\ \A i \in Len(messages) + 1 .. Len(messages) + Len(up) : Sent[i] = up[i - Len(messages)]
  BY <1>1, ConcatIs DEF Sent
<1>4. /\ DOMAIN Sent' = 1 .. Len(messages') + Len(up)
      /\ \A i \in 1 .. Len(messages') : Sent'[i] = messages'[i]
      /\ \A i \in Len(messages') + 1 .. Len(messages') + Len(up) : Sent'[i] = up[i - Len(messages')]
  BY <1>1, <1>2, ConcatIs DEF Sent
<1>5. ASSUME NEW i \in 1 .. Len(Sent) - 1 PROVE Sent'[i] = Sent[i + 1]
  <2>1. CASE i <= Len(messages')
    BY <1>2, <1>3, <1>4, <2>1
  <2>2. CASE i > Len(messages')
    <3>1. Sent'[i] = up[i - Len(messages')]
      BY <1>2, <1>3, <1>4, <2>2
    <3>2. i + 1 \in Len(messages) + 1 .. Len(messages) + Len(up)
      BY <1>2, <1>3, <2>2
    <3>3. Sent[i + 1] = up[i + 1 - Len(messages)]
      BY <1>3, <3>2
    <3>4. i - Len(messages') = i + 1 - Len(messages)
      BY <1>2, <1>3
    <3> QED
      BY <3>1, <3>3, <3>4
  <2> QED
    BY <2>1, <2>2, <1>2, <1>3
<1> QED
  BY <1>2, <1>3, <1>4, <1>5

(* The receiver moves a message to the queue.                                *)
LEMMA SentMoved ==
  ASSUME Types, up # <<>>, messages' = Append(messages, Head(up)), up' = Tail(up)
  PROVE  DOMAIN Sent' = DOMAIN Sent /\ \A i \in DOMAIN Sent : Sent'[i] = Sent[i]
<1>1. messages \in Seq(Requested) /\ up \in Seq(Requested)
  BY DEF Types
<1>2. /\ up' \in Seq(Requested) /\ Len(up) > 0 /\ Len(up') = Len(up) - 1
      /\ Head(up) = up[1] /\ Head(up) \in Requested
      /\ \A i \in 1 .. Len(up) - 1 : up'[i] = up[i + 1]
  BY <1>1, TailIs
<1>3. /\ messages' \in Seq(Requested) /\ Len(messages') = Len(messages) + 1
      /\ \A i \in 1 .. Len(messages) : messages'[i] = messages[i]
      /\ messages'[Len(messages) + 1] = up[1]
  BY <1>1, <1>2, AppendIs
<1>4. /\ Len(messages) \in Nat /\ Len(up) \in Nat
      /\ DOMAIN Sent = 1 .. Len(messages) + Len(up)
      /\ \A i \in 1 .. Len(messages) : Sent[i] = messages[i]
      /\ \A i \in Len(messages) + 1 .. Len(messages) + Len(up) : Sent[i] = up[i - Len(messages)]
  BY <1>1, ConcatIs DEF Sent
<1>5. /\ DOMAIN Sent' = 1 .. Len(messages') + Len(up')
      /\ \A i \in 1 .. Len(messages') : Sent'[i] = messages'[i]
      /\ \A i \in Len(messages') + 1 .. Len(messages') + Len(up') : Sent'[i] = up'[i - Len(messages')]
  BY <1>2, <1>3, ConcatIs DEF Sent
<1>6. ASSUME NEW i \in DOMAIN Sent PROVE Sent'[i] = Sent[i]
  <2>1. CASE i <= Len(messages)
    BY <1>3, <1>4, <1>5, <2>1
  <2>2. CASE i = Len(messages) + 1
    BY <1>2, <1>3, <1>4, <1>5, <2>2
  <2>3. CASE i > Len(messages) + 1
    BY <1>2, <1>3, <1>4, <1>5, <2>3
  <2> QED
    BY <2>1, <2>2, <2>3, <1>4
<1> QED
  BY <1>2, <1>3, <1>4, <1>5, <1>6

(* The receiver notices that the page has gone.                              *)
LEMMA SentEnds ==
  ASSUME Types, up = <<>>, up' = up, NEW m \in Requested, messages' = Append(messages, m)
  PROVE  /\ DOMAIN Sent' = 1 .. Len(Sent) + 1
         /\ \A i \in 1 .. Len(Sent) : Sent'[i] = Sent[i]
         /\ Sent'[Len(Sent) + 1] = m
<1>1. messages \in Seq(Requested) /\ up \in Seq(Requested) /\ Len(up) = 0
  BY EmptyIs DEF Types
<1>2. /\ messages' \in Seq(Requested) /\ Len(messages') = Len(messages) + 1
      /\ \A i \in 1 .. Len(messages) : messages'[i] = messages[i]
      /\ messages'[Len(messages) + 1] = m
  BY <1>1, AppendIs
<1>3. /\ Len(messages) \in Nat
      /\ Len(Sent) = Len(messages)
      /\ \A i \in 1 .. Len(messages) : Sent[i] = messages[i]
  BY <1>1, ConcatIs DEF Sent
<1>4. /\ DOMAIN Sent' = 1 .. Len(messages')
      /\ \A i \in 1 .. Len(messages') : Sent'[i] = messages'[i]
  BY <1>1, <1>2, ConcatIs DEF Sent
<1> QED
  BY <1>2, <1>3, <1>4

(* The connection breaks.                                                    *)
LEMMA SentCut ==
  ASSUME Types, NEW k \in 0 .. Len(up), up' = SubSeq(up, 1, k), messages' = messages
  PROVE  /\ DOMAIN Sent' \subseteq DOMAIN Sent
         /\ \A i \in DOMAIN Sent' : Sent'[i] = Sent[i]
<1>1. messages \in Seq(Requested) /\ up \in Seq(Requested)
  BY DEF Types
<1>2. /\ up' \in Seq(Requested) /\ Len(up') = k
      /\ \A i \in 1 .. k : up'[i] = up[i]
  BY <1>1, PrefixIs
<1>3. /\ Len(messages) \in Nat /\ Len(up) \in Nat
      /\ DOMAIN Sent = 1 .. Len(messages) + Len(up)
      /\ \A i \in 1 .. Len(messages) : Sent[i] = messages[i]
      /\ \A i \in Len(messages) + 1 .. Len(messages) + Len(up) : Sent[i] = up[i - Len(messages)]
  BY <1>1, ConcatIs DEF Sent
<1>4. /\ DOMAIN Sent' = 1 .. Len(messages) + k
      /\ \A i \in 1 .. Len(messages) : Sent'[i] = messages[i]
      /\ \A i \in Len(messages) + 1 .. Len(messages) + k : Sent'[i] = up'[i - Len(messages)]
  BY <1>1, <1>2, ConcatIs DEF Sent
<1>5. ASSUME NEW i \in DOMAIN Sent' PROVE Sent'[i] = Sent[i]
  <2>1. CASE i <= Len(messages)
    BY <1>3, <1>4, <2>1
  <2>2. CASE i > Len(messages)
    BY <1>2, <1>3, <1>4, <2>2
  <2> QED
    BY <2>1, <2>2, <1>3, <1>4
<1> QED
  BY <1>3, <1>4, <1>5

-----------------------------------------------------------------------------
(* Types.                                                                    *)

LEMMA Bounds ==
  /\ MaxCommands \in Nat \ {0} /\ MaxLines \in Nat \ {0}
  /\ MaxInterrupts \in Nat \ {0} /\ Capacity \in Nat \ {0}
BY BoundsAssumption

(* A message to the page is put on the connection, dropped, or refused.      *)
LEMMA SendIs ==
  ASSUME Types, NEW m \in Answers, NEW next, Send(m, next)
  PROVE  /\ down' \in Seq(Answers) /\ Len(down') <= Capacity
         /\ \/ page.open /\ down' = Append(down, m) /\ pc' = next /\ failed' = failed
            \/ ~page.open /\ down' = down /\ pc' = next /\ failed' = failed
            \/ ~page.open /\ down' = down /\ pc' = "finally" /\ failed' = TRUE
<1>1. down \in Seq(Answers) /\ Len(down) <= Capacity
  BY DEF Types
<1>2. Append(down, m) \in Seq(Answers) /\ Len(Append(down, m)) = Len(down) + 1
  BY <1>1, AppendIs
<1> QED
  BY <1>1, <1>2, Bounds, EmptyIs DEF Send, Raise, Go

LEMMA PageFields ==
  ASSUME NEW p \in Pages
  PROVE  /\ p.sent \in 0 .. MaxCommands /\ p.interrupts \in 0 .. MaxInterrupts
         /\ p.open \in BOOLEAN /\ p.busy \in BOOLEAN
BY DEF Pages

LEMMA PagesIs ==
  ASSUME NEW p \in Pages
  PROVE  /\ \A b \in BOOLEAN : [p EXCEPT !.busy = b] \in Pages
         /\ [p EXCEPT !.open = FALSE, !.busy = TRUE] \in Pages
BY DEF Pages

LEMMA PageSends ==
  ASSUME NEW p \in Pages, p.sent < MaxCommands
  PROVE  [p EXCEPT !.busy = TRUE, !.sent = @ + 1] \in Pages /\ p.sent + 1 \in Commands
<1>1. p.sent + 1 \in 0 .. MaxCommands /\ p.sent + 1 \in Commands
  BY PageFields, Bounds DEF Commands
<1> QED
  BY <1>1 DEF Pages

LEMMA PageInterrupts ==
  ASSUME NEW p \in Pages, p.interrupts < MaxInterrupts
  PROVE  [p EXCEPT !.interrupts = @ + 1] \in Pages
<1>1. p.interrupts + 1 \in 0 .. MaxInterrupts
  BY PageFields, Bounds
<1> QED
  BY <1>1 DEF Pages

LEMMA ProcessFields ==
  ASSUME NEW p \in Processes
  PROVE  /\ p.read \in 0 .. MaxLines /\ p.written \in 0 .. MaxLines /\ p.read <= p.written
         /\ p.state \in {"none", "runs", "closing", "terminated", "exited"}
BY DEF Processes

LEMMA ProcessesAre ==
  /\ \A p \in Processes : [p EXCEPT !.state = "terminated"] \in Processes
  /\ \A p \in Processes : Read(p) \in Processes /\ Read(p).state = p.state
  /\ NoProcess \in Processes /\ [NoProcess EXCEPT !.state = "runs"] \in Processes
<1> USE Bounds
<1>1. \A p \in Processes : [p EXCEPT !.state = "terminated"] \in Processes
  BY DEF Processes
<1>2. \A p \in Processes : Read(p) \in Processes /\ Read(p).state = p.state
  BY DEF Processes, Read
<1>3. NoProcess \in Processes /\ [NoProcess EXCEPT !.state = "runs"] \in Processes
  BY DEF Processes, NoProcess
<1> QED
  BY <1>1, <1>2, <1>3

LEMMA InitTypes == Init => Types
<1> SUFFICES ASSUME Init PROVE Types
  OBVIOUS
<1>1. /\ <<>> \in Seq(1 .. MaxLines) /\ <<>> \in Seq(Requested) /\ <<>> \in Seq(Answers)
      /\ <<>> \in Seq(Commands) /\ Len(<<>>) = 0
  OBVIOUS
<1>2. page \in Pages /\ process \in Processes
  BY Bounds DEF Init, Pages, Processes, NoProcess
<1>3. shown \in [Commands -> Seq(1 .. MaxLines)]
  BY <1>1 DEF Init
<1>4. Len(down) <= Capacity /\ command \in 0 .. MaxCommands
  BY <1>1, Bounds DEF Init
<1> QED
  BY <1>1, <1>2, <1>3, <1>4 DEF Init, Types, Steps, Serving

LEMMA TypesImply == Types => TypeOK
<1> SUFFICES ASSUME Types PROVE TypeOK
  OBVIOUS
<1>1. page \in [open : BOOLEAN, busy : BOOLEAN,
                sent : 0 .. MaxCommands, interrupts : 0 .. MaxInterrupts]
  BY DEF Types, Pages
<1>2. /\ process.state \in {"none", "runs", "closing", "terminated", "exited"}
      /\ process.read \in 0 .. process.written /\ process.written \in 0 .. MaxLines
  BY ProcessFields, Bounds DEF Types
<1>3. /\ \A n \in Commands : shown[n] \in Seq(1 .. MaxLines)
      /\ {up, messages} \subseteq Seq(Controls \union CommandMessages)
  BY DEF Types, Requested
<1> QED
  BY <1>1, <1>2, <1>3 DEF Types, TypeOK, Steps, Serving

LEMMA PageTypes == Types /\ Page => Types'
<1> SUFFICES ASSUME Types, Page PROVE Types'
  OBVIOUS
<1> USE Bounds DEF serverVars
<1>1. CASE SendCommand
  <2>0. page' \in Pages /\ page.sent + 1 \in Commands
    <3>1. page \in Pages /\ page.sent < MaxCommands
      BY <1>1 DEF SendCommand, Types
    <3>2. page' = [page EXCEPT !.busy = TRUE, !.sent = @ + 1]
      BY <1>1 DEF SendCommand
    <3> QED
      BY <3>1, <3>2, PageSends
  <2>1. PICK kind \in Kinds : up' = Append(up, [type |-> "command", number |-> page.sent + 1,
                                         kind |-> kind, confirmed |-> kind # "read"])
    BY <1>1 DEF SendCommand
  <2>2. [type |-> "command", number |-> page.sent + 1, kind |-> kind, confirmed |-> kind # "read"]
          \in Requested
    BY <2>0 DEF Requested, CommandMessages
  <2>3. up' \in Seq(Requested)
    BY <2>1, <2>2, AppendIs DEF Types
  <2> QED
    BY <1>1, <2>0, <2>3 DEF SendCommand, Types
<1>2. CASE SendInterrupt
  <2>1. [type |-> "interrupt", number |-> page.sent] \in Requested
    BY PageFields DEF Types, Requested, Controls
  <2>2. up' \in Seq(Requested)
    BY <1>2, <2>1, AppendIs DEF Types, SendInterrupt
  <2> QED
    BY <1>2, <2>2, PageInterrupts DEF SendInterrupt, Types
<1>3. CASE ShowMessage
  <2>1. /\ Head(down) \in Answers /\ down' \in Seq(Answers) /\ Len(down') <= Capacity
    BY <1>3, TailIs DEF ShowMessage, Types
  <2>2. shown' \in [Commands -> Seq(1 .. MaxLines)]
    <3>1. CASE Head(down).type = "output"
      <4>1. Head(down).number \in Commands /\ Head(down).line \in 1 .. MaxLines
        BY <2>1, <3>1 DEF Answers
      <4>2. Append(shown[Head(down).number], Head(down).line) \in Seq(1 .. MaxLines)
        BY <4>1, AppendIs DEF Types
      <4> QED
        BY <1>3, <3>1, <4>1, <4>2 DEF ShowMessage, Types
    <3> QED
      BY <1>3, <3>1 DEF ShowMessage, Types
  <2>3. exits' \subseteq Commands
    BY <1>3, <2>1 DEF ShowMessage, Types, Answers
  <2>4. page' \in Pages
    BY <1>3, PagesIs DEF ShowMessage, Types
  <2> QED
    BY <1>3, <2>1, <2>2, <2>3, <2>4 DEF ShowMessage, Types
<1>4. CASE Disconnect
  <2>1. PICK k \in 0 .. Len(up) : up' = SubSeq(up, 1, k)
    BY <1>4 DEF Disconnect
  <2>2. up' \in Seq(Requested) /\ down' \in Seq(Answers) /\ Len(down') <= Capacity
    BY <1>4, <2>1, PrefixIs DEF Types, Disconnect
  <2> QED
    BY <1>4, <2>2, PagesIs DEF Disconnect, Types
<1>5. CASE SeeClose
  BY <1>5, PagesIs DEF SeeClose, Types
<1> QED
  BY <1>1, <1>2, <1>3, <1>4, <1>5 DEF Page

LEMMA ReceiveTypes == Types /\ Receive => Types'
<1> SUFFICES ASSUME Types, Receive PROVE Types'
  OBVIOUS
<1>1. [type |-> "disconnect"] \in Requested
  BY DEF Requested, Controls
<1>2. messages' \in Seq(Requested) /\ up' \in Seq(Requested) /\ receiving' \in BOOLEAN
  <2>1. CASE up # <<>>
    <3>1. Head(up) \in Requested /\ Tail(up) \in Seq(Requested)
      BY <2>1, TailIs DEF Types
    <3>2. messages' = Append(messages, Head(up)) /\ up' = Tail(up) /\ receiving' = receiving
      BY <2>1 DEF Receive
    <3>3. Append(messages, Head(up)) \in Seq(Requested)
      BY <3>1, AppendIs DEF Types
    <3> QED
      BY <3>1, <3>2, <3>3 DEF Types
  <2>2. CASE up = <<>>
    <3>1. messages' = Append(messages, [type |-> "disconnect"]) /\ up' = up /\ receiving' = FALSE
      BY <2>2 DEF Receive
    <3>2. Append(messages, [type |-> "disconnect"]) \in Seq(Requested)
      BY <1>1, AppendIs DEF Types
    <3> QED
      BY <3>1, <3>2 DEF Types
  <2> QED
    BY <2>1, <2>2
<1> QED
  BY <1>2 DEF Receive, Types, pageVars

LEMMA HandlerTypes == Types /\ Handler => Types'
<1> SUFFICES ASSUME Types, Handler PROVE Types'
  OBVIOUS
<1> USE Bounds DEF pageVars, Go, Raise, Steps, Serving
<1>1. CASE SendReady
  <2>1. [type |-> "ready"] \in Answers
    BY DEF Answers
  <2>2. /\ down' \in Seq(Answers) /\ Len(down') <= Capacity
        /\ pc' \in {"idle", "finally"} /\ failed' \in BOOLEAN
    BY <1>1, <2>1, SendIs DEF SendReady, Types
  <2> QED
    BY <1>1, <2>2 DEF SendReady, Types
<1>2. CASE TakeCommand
  <2>1. /\ Head(messages) \in Requested /\ messages' \in Seq(Requested)
    BY <1>2, TailIs DEF TakeCommand, Types
  <2>2. [type |-> "error"] \in Answers /\ [type |-> "start"] \in Answers
    BY DEF Answers
  <2>3. CASE (Go("finally") \/ Go("idle")) /\ UNCHANGED <<down, command, stop>>
    BY <1>2, <2>1, <2>3 DEF TakeCommand, Types
  <2>4. CASE Send([type |-> "error"], "idle") /\ UNCHANGED <<command, stop>>
    BY <1>2, <2>1, <2>2, <2>4, SendIs DEF TakeCommand, Types
  <2>5. CASE Head(messages).type = "command" /\ Send([type |-> "start"], "spawn")
             /\ command' = Head(messages).number /\ stop' = Nothing
    <3>1. command' \in Commands
      BY <2>1, <2>5 DEF Requested, Controls, CommandMessages
    <3>2. stop' \in Controls \union {Nothing} /\ command' \in 0 .. MaxCommands
      BY <2>5, <3>1 DEF Commands
    <3> QED
      BY <1>2, <2>1, <2>2, <2>5, <3>1, <3>2, SendIs DEF TakeCommand, Types
  <2> QED
    BY <1>2, <2>3, <2>4, <2>5 DEF TakeCommand
<1>3. CASE Spawn
  BY <1>3, ProcessesAre DEF Spawn, Types
<1>4. CASE Loop \/ Reap \/ Leave
  BY <1>4 DEF Loop, Reap, Leave, Types
<1>5. CASE ObeyControl
  <2>1. PICK done \in Woken : "control" \in done
    BY <1>5 DEF ObeyControl
  <2>2. messages # <<>>
    BY <2>1 DEF Woken
  <2>3. /\ Head(messages) \in Requested /\ messages' \in Seq(Requested)
    BY <1>5, <2>2, TailIs DEF ObeyControl, Types
  <2>4. process' \in Processes
    <3>1. process' \in {process, Read(process), [process EXCEPT !.state = "terminated"],
                        [Read(process) EXCEPT !.state = "terminated"]}
      BY <1>5 DEF ObeyControl
    <3> QED
      BY <3>1, ProcessesAre DEF Types
  <2>5. /\ pc' \in Steps /\ failed' \in BOOLEAN /\ down' = down
        /\ stop' \in Controls \union {Nothing}
        /\ pc' \in Serving => pc \in Serving
    BY <1>5, <2>3 DEF ObeyControl, Types, Requested, CommandMessages
  <2> QED
    BY <1>5, <2>3, <2>4, <2>5 DEF ObeyControl, Types
<1>6. CASE ForwardOutput
  <2>1. CASE process.read < process.written
    <3>1. [type |-> "output", number |-> command, line |-> process.read + 1] \in Answers
      BY <1>6, <2>1, ProcessFields, Bounds DEF ForwardOutput, Types, Answers, Serving
    <3> QED
      BY <1>6, <2>1, <3>1, SendIs, ProcessesAre DEF ForwardOutput, Types
  <2>2. CASE ~(process.read < process.written)
    BY <1>6, <2>2, ProcessesAre DEF ForwardOutput, Types
  <2> QED
    BY <2>1, <2>2
<1>7. CASE Audit
  <2>1. audits' \in Seq(Commands)
    <3>1. command \in Commands /\ audits \in Seq(Commands)
      BY <1>7 DEF Audit, Types
    <3>2. Append(audits, command) \in Seq(Commands)
      BY <3>1, AppendIs
    <3> QED
      BY <1>7, <3>1, <3>2 DEF Audit
  <2> QED
    BY <1>7, <2>1 DEF Audit, Types
<1>8. CASE SendExit
  <2>1. [type |-> "exit", number |-> command, interrupted |-> stop.type = "interrupt"] \in Answers
    BY <1>8 DEF SendExit, Types, Answers
  <2>2. process' \in Processes
    BY <1>8, ProcessesAre DEF SendExit, Types
  <2> QED
    BY <1>8, <2>1, <2>2, SendIs DEF SendExit, Types
<1>9. CASE Finally
  BY <1>9, ProcessesAre DEF Finally, Types
<1> QED
  BY <1>1, <1>2, <1>3, <1>4, <1>5, <1>6, <1>7, <1>8, <1>9 DEF Handler

LEMMA KubectlTypes == Types /\ (Write \/ CloseOutput \/ Exit) => Types'
<1> SUFFICES ASSUME Types, Write \/ CloseOutput \/ Exit PROVE Types'
  OBVIOUS
<1>1. process' \in Processes
  <2>1. process \in Processes
    BY DEF Types
  <2>2. CASE Write
    BY <2>1, <2>2, Bounds DEF Processes, Write, Kubectl
  <2>3. CASE CloseOutput
    BY <2>1, <2>3 DEF Processes, CloseOutput, Kubectl
  <2>4. CASE Exit
    BY <2>1, <2>4 DEF Processes, Exit, Kubectl
  <2> QED
    BY <2>2, <2>3, <2>4
<1>2. UNCHANGED <<pageVars, up, down, messages, receiving, pc, command, stop, failed, audits>>
  BY DEF Write, CloseOutput, Exit, Kubectl
<1> QED
  BY <1>1, <1>2 DEF Types, pageVars

LEMMA NextTypes == Types /\ [Next]_vars => Types'
<1>1. Types /\ UNCHANGED vars => Types'
  BY DEF Types, vars
<1> QED
  BY <1>1, PageTypes, ReceiveTypes, HandlerTypes, KubectlTypes DEF Next

(* Every variable keeps its type (TypeOK).                                   *)
THEOREM TypeCorrect == Spec => []TypeOK
<1>1. Spec => []Types
  BY InitTypes, NextTypes, PTL DEF Spec
<1> QED
  BY <1>1, TypesImply, PTL

-----------------------------------------------------------------------------
(* The end of kubectl.                                                       *)

LEMMA NextOutlives == Types /\ NothingOutlives /\ [Next]_vars => NothingOutlives'
<1> SUFFICES ASSUME Types, NothingOutlives, [Next]_vars, pc' = "ended"
             PROVE  process'.state \in {"none", "exited"}
  BY DEF NothingOutlives
<1> USE DEF Go, Raise, serverVars, pageVars
<1>1. CASE Page \/ Receive \/ UNCHANGED vars
  BY <1>1 DEF Page, SendCommand, SendInterrupt, ShowMessage, Disconnect, SeeClose, Receive, vars,
              NothingOutlives
<1>2. CASE Write \/ CloseOutput \/ Exit
  <2>1. Exit /\ process \in Processes
    BY <1>2 DEF Write, CloseOutput, Exit, Kubectl, NothingOutlives, Types
  <2> QED
    BY <2>1 DEF Exit, Kubectl, Processes
<1>3. CASE Handler
  <2>1. Finally \/ Leave
    BY <1>3 DEF Handler, SendReady, TakeCommand, Spawn, Loop, ObeyControl, ForwardOutput, Reap,
                Audit, SendExit, Send
  <2> QED
    BY <2>1 DEF Finally, Leave, Exited
<1> QED
  BY <1>1, <1>2, <1>3 DEF Next

-----------------------------------------------------------------------------
(* The turn.                                                                 *)

LEMMA RequestedAre ==
  ASSUME NEW m \in Requested
  PROVE  /\ m.type \in {"command", "interrupt", "disconnect"}
         /\ m.type = "command" => m.number \in Commands
         /\ m.type = "interrupt" => m.number \in 0 .. MaxCommands
BY DEF Requested, Controls, CommandMessages

LEMMA AnswersAre ==
  ASSUME NEW m \in Answers
  PROVE  /\ m.type \in {"ready", "start", "error", "output", "exit"}
         /\ m.type \in {"output", "exit"} => m.number \in Commands
BY DEF Answers

(* Steps in which nothing moves but the handler.                             *)
LEMMA TurnKept ==
  ASSUME Types, Turn, UNCHANGED <<page, up, down, messages, command>>,
         pc' \in Serving \union {"accepted"} => pc \in Serving \union {"accepted"},
         pc = "idle" => pc' = "idle"
  PROVE  Turn'
<1>1. Sent' = Sent
  BY DEF Sent
<1> QED
  BY <1>1 DEF Turn, NoCommand

LEMMA PageTurn == Types /\ Turn /\ Page => Turn'
<1> SUFFICES ASSUME Types, Turn, Page PROVE Turn'
  OBVIOUS
<1> USE DEF serverVars
<1>0. page \in Pages /\ page.sent \in Nat /\ command \in Nat /\ Len(Sent) \in Nat
  BY PageFields, SentIs, Bounds DEF Types
<1>1. CASE SendCommand
  <2>1. PICK kind \in Kinds : up' = Append(up, [type |-> "command", number |-> page.sent + 1,
                                         kind |-> kind, confirmed |-> kind # "read"])
    BY <1>1 DEF SendCommand
  <2> DEFINE m == [type |-> "command", number |-> page.sent + 1, kind |-> kind,
                   confirmed |-> kind # "read"]
  <2>2. m \in Requested
    BY <1>1, PageSends DEF SendCommand, Types, Requested, CommandMessages
  <2>3. /\ DOMAIN Sent' = 1 .. Len(Sent) + 1 /\ DOMAIN Sent = 1 .. Len(Sent)
        /\ \A i \in 1 .. Len(Sent) : Sent'[i] = Sent[i]
        /\ Sent'[Len(Sent) + 1].type = "command" /\ Sent'[Len(Sent) + 1].number = page.sent + 1
    BY <1>1, <2>1, <2>2, SentGrows, SentIs DEF SendCommand
  <2>4. /\ pc = "idle" /\ NoCommand /\ down = <<>> /\ page.open
        /\ page'.busy /\ page'.open /\ page'.sent = page.sent + 1
        /\ UNCHANGED <<pc, down, command>>
    BY <1>0, <1>1 DEF SendCommand, Turn, Pages
  <2>5. \A i \in DOMAIN Sent' : Sent'[i].type = "command" => i = Len(Sent) + 1
    BY <1>0, <2>3, <2>4 DEF NoCommand
  <2> QED
    BY <1>0, <2>3, <2>4, <2>5 DEF Turn, Serving
<1>2. CASE SendInterrupt
  <2>1. [type |-> "interrupt", number |-> page.sent] \in Requested
    BY PageFields DEF Types, Requested, Controls
  <2>2. /\ DOMAIN Sent' = 1 .. Len(Sent) + 1 /\ DOMAIN Sent = 1 .. Len(Sent)
        /\ \A i \in 1 .. Len(Sent) : Sent'[i] = Sent[i]
        /\ Sent'[Len(Sent) + 1].type = "interrupt"
    BY <1>2, <2>1, SentGrows, SentIs DEF SendInterrupt
  <2>3. /\ page.busy /\ page.open /\ page'.busy = page.busy /\ page'.open = page.open
        /\ page'.sent = page.sent /\ UNCHANGED <<pc, down, command>>
    BY <1>0, <1>2 DEF SendInterrupt, Pages
  <2>4. \A i \in DOMAIN Sent' : Sent'[i].type \in {"command", "disconnect"} =>
          i \in DOMAIN Sent /\ Sent'[i] = Sent[i]
    BY <1>0, <2>2
  <2> QED
    BY <2>2, <2>3, <2>4 DEF Turn, NoCommand
<1>3. CASE ShowMessage
  <2>1. Sent' = Sent /\ UNCHANGED <<pc, command>>
    BY <1>3 DEF ShowMessage, Sent
  <2>2. /\ down # <<>> /\ DOMAIN down = 1 .. Len(down) /\ Head(down) = down[1]
        /\ Len(down) \in Nat \ {0} /\ down' = Tail(down) /\ DOMAIN down' = 1 .. Len(down) - 1
        /\ \A i \in DOMAIN down' : down'[i] = down[i + 1]
        /\ down' \in Seq(Answers) /\ Len(down') = Len(down) - 1
    BY <1>3, TailIs, EmptyIs DEF ShowMessage, Types
  <2>3. /\ page.open /\ page'.open = page.open /\ page'.sent = page.sent
        /\ page'.busy = (page.busy /\ down[1].type \notin Prompts)
    BY <1>0, <1>3, <2>2 DEF ShowMessage, Pages, Prompts
  <2>4. page.busy
    BY <2>2 DEF Turn
  <2>5. CASE down[1].type \in Prompts
    <3>1. Len(down) = 1 /\ pc = "idle" /\ NoCommand /\ page.busy
      BY <2>2, <2>5 DEF Turn
    <3>2. down' = <<>>
      BY <2>2, <3>1, EmptyIs
    <3> QED
      BY <2>1, <2>3, <3>1, <3>2 DEF Turn, NoCommand, Serving
  <2>6. CASE down[1].type \notin Prompts
    <3>1. page'.busy = page.busy
      BY <2>3, <2>6, <2>4
    <3>2. \A i \in DOMAIN Sent : Sent[i].type # "command"
      BY <2>2 DEF Turn
    <3>3. \A i \in DOMAIN down' : down'[i].type \in Prompts =>
            i = Len(down') /\ pc = "idle" /\ NoCommand
      BY <2>2 DEF Turn
    <3> QED
      BY <2>1, <2>3, <2>4, <3>1, <3>2, <3>3 DEF Turn, NoCommand
  <2> QED
    BY <2>5, <2>6
<1>4. CASE Disconnect
  <2>1. PICK k \in 0 .. Len(up) : up' = SubSeq(up, 1, k)
    BY <1>4 DEF Disconnect
  <2>2. DOMAIN Sent' \subseteq DOMAIN Sent /\ \A i \in DOMAIN Sent' : Sent'[i] = Sent[i]
    BY <1>4, <2>1, SentCut DEF Disconnect
  <2>3. /\ page'.busy /\ ~page'.open /\ page'.sent = page.sent
        /\ down' = <<>> /\ UNCHANGED <<pc, command>>
    BY <1>0, <1>4 DEF Disconnect, Pages
  <2> QED
    BY <2>2, <2>3 DEF Turn, NoCommand
<1>5. CASE SeeClose
  <2>1. /\ page'.busy /\ ~page'.open /\ page'.sent = page.sent /\ Sent' = Sent
        /\ down' = <<>> /\ pc = "ended" /\ UNCHANGED <<pc, command>>
    BY <1>0, <1>5 DEF SeeClose, Pages, Sent
  <2> QED
    BY <2>1 DEF Turn, NoCommand
<1> QED
  BY <1>1, <1>2, <1>3, <1>4, <1>5 DEF Page

LEMMA ReceiveTurn == Types /\ Turn /\ Receive => Turn'
<1> SUFFICES ASSUME Types, Turn, Receive PROVE Turn'
  OBVIOUS
<1>0. UNCHANGED <<page, down, pc, command>> /\ Len(Sent) \in Nat /\ DOMAIN Sent = 1 .. Len(Sent)
  BY SentIs DEF Receive, pageVars
<1>1. CASE up # <<>>
  <2>1. DOMAIN Sent' = DOMAIN Sent /\ \A i \in DOMAIN Sent : Sent'[i] = Sent[i]
    BY <1>1, SentMoved DEF Receive
  <2> QED
    BY <1>0, <2>1 DEF Turn, NoCommand
<1>2. CASE up = <<>>
  <2>1. [type |-> "disconnect"] \in Requested
    BY DEF Requested, Controls
  <2>2. /\ DOMAIN Sent' = 1 .. Len(Sent) + 1 /\ \A i \in 1 .. Len(Sent) : Sent'[i] = Sent[i]
        /\ Sent'[Len(Sent) + 1] = [type |-> "disconnect"] /\ ~page.open
    BY <1>2, <2>1, SentEnds DEF Receive
  <2>3. \A i \in DOMAIN Sent' : Sent'[i].type = "command" => i \in DOMAIN Sent /\ Sent'[i] = Sent[i]
    BY <1>0, <2>2
  <2> QED
    <3>1. \A i \in DOMAIN Sent' : Sent'[i].type = "disconnect" => ~page'.open
      BY <1>0, <2>2
    <3> QED
      BY <1>0, <2>2, <2>3, <3>1 DEF Turn, NoCommand
<1> QED
  BY <1>1, <1>2

(* A message is put on an idle connection to the page, or on one that holds  *)
(* none that gives the prompt back.                                          *)
LEMMA HandlerTurn == Types /\ Turn /\ Handler => Turn'
<1> SUFFICES ASSUME Types, Turn, Handler PROVE Turn'
  OBVIOUS
<1> USE DEF pageVars, Go, Raise
<1>0. /\ page.sent \in Nat /\ command \in Nat /\ Len(Sent) \in Nat
      /\ DOMAIN Sent = 1 .. Len(Sent) /\ \A i \in DOMAIN Sent : Sent[i] \in Requested
      /\ DOMAIN down = 1 .. Len(down) /\ Len(down) \in Nat /\ down \in Seq(Answers)
  BY PageFields, SentIs, EmptyIs, Bounds DEF Types
<1>1. CASE Spawn \/ Loop \/ Reap \/ Audit \/ Finally \/ Leave
  BY <1>1, TurnKept DEF Spawn, Loop, Reap, Audit, Finally, Leave, Serving
<1>2. ASSUME pc \in Serving \union {"accepted"}, UNCHANGED <<page, up, messages, command>>,
             NEW m \in Answers, NEW next \in Steps, Send(m, next),
             m.type \in Prompts => next = "idle",
             next = "idle" \/ next \in Serving
      PROVE  Turn'
  <2>1. Sent' = Sent /\ NoCommand /\ page.busy
        /\ \A i \in DOMAIN down : down[i].type \notin Prompts
    BY <1>2 DEF Sent, Turn, Serving
  <2>2. CASE page.open
    <3>1. down' = Append(down, m) /\ pc' = next
      BY <1>2, <2>2, SendIs
    <3>2. /\ DOMAIN down' = 1 .. Len(down) + 1 /\ Len(down') = Len(down) + 1
          /\ \A i \in DOMAIN down : down'[i] = down[i]
          /\ down'[Len(down) + 1] = m
      BY <1>0, <3>1, AppendIs
    <3>3. \A i \in DOMAIN down' : down'[i].type \in Prompts => i = Len(down') /\ pc' = "idle"
      BY <1>0, <1>2, <2>1, <3>1, <3>2
    <3> QED
      BY <1>2, <2>1, <2>2, <3>3 DEF Turn, NoCommand
  <2>3. CASE ~page.open
    <3>1. down' = down
      BY <1>2, <2>3, SendIs
    <3> QED
      BY <1>2, <2>1, <2>3, <3>1 DEF Turn, NoCommand
  <2> QED
    BY <2>2, <2>3
<1>3. CASE SendReady
  <2>1. [type |-> "ready"] \in Answers /\ "idle" \in Steps
    BY DEF Answers, Steps
  <2> QED
    BY <1>3, <2>1, <1>2 DEF SendReady
<1>4. CASE SendExit
  <2>1. [type |-> "exit", number |-> command, interrupted |-> stop.type = "interrupt"] \in Answers
        /\ "idle" \in Steps
    BY <1>4 DEF SendExit, Types, Answers, Steps, Serving
  <2> QED
    BY <1>4, <2>1, <1>2 DEF SendExit, Serving
<1>5. CASE ForwardOutput
  <2>1. CASE process.read < process.written
    <3>1. [type |-> "output", number |-> command, line |-> process.read + 1] \in Answers
          /\ "loop" \in Steps /\ "loop" \in Serving
      BY <1>5, <2>1, ProcessFields, Bounds DEF ForwardOutput, Types, Answers, Serving, Steps
    <3> QED
      BY <1>5, <2>1, <3>1, <1>2 DEF ForwardOutput, Serving, Prompts
  <2>2. CASE ~(process.read < process.written)
    BY <1>5, <2>2, TurnKept DEF ForwardOutput, Serving
  <2> QED
    BY <2>1, <2>2
<1>6. ASSUME messages # <<>>, messages' = Tail(messages), UNCHANGED <<page, up, command>>,
             pc # "idle", UNCHANGED down,
             pc' \in Serving => pc \in Serving, pc' # "accepted"
      PROVE  Turn'
  <2>1. /\ DOMAIN Sent' = 1 .. Len(Sent) - 1
        /\ \A i \in DOMAIN Sent' : i + 1 \in DOMAIN Sent /\ Sent'[i] = Sent[i + 1]
    BY <1>0, <1>6, SentTaken
  <2>2. \A i \in DOMAIN Sent' : Sent'[i].type = "command" =>
          /\ Sent[i + 1].type = "command"
          /\ \A k \in DOMAIN Sent' : Sent'[k].type = "command" => k + 1 = i + 1
    BY <2>1 DEF Turn
  <2>3. \A i \in DOMAIN Sent' : Sent'[i].type = "command" =>
          \A k \in DOMAIN Sent' : Sent'[k].type = "command" => k = i
    BY <1>0, <2>1, <2>2
  <2>4. NoCommand => NoCommand'
    BY <2>1 DEF NoCommand
  <2> QED
    BY <1>6, <2>1, <2>3, <2>4 DEF Turn
<1>7. CASE ObeyControl
  <2>1. messages # <<>>
    BY <1>7 DEF ObeyControl, Woken
  <2> QED
    BY <1>6, <1>7, <2>1 DEF ObeyControl, Serving
<1>8. CASE TakeCommand
  <2>1. /\ pc = "idle" /\ messages # <<>> /\ messages' = Tail(messages)
        /\ UNCHANGED <<page, up>> /\ Head(messages) = Sent[1] /\ 1 \in DOMAIN Sent
    BY <1>0, <1>8, SentIs DEF TakeCommand
  <2>2. /\ DOMAIN Sent' = 1 .. Len(Sent) - 1
        /\ \A i \in DOMAIN Sent' : i + 1 \in DOMAIN Sent /\ Sent'[i] = Sent[i + 1]
    BY <1>0, <2>1, SentTaken
  <2>3. NoCommand => NoCommand'
    BY <2>2 DEF NoCommand
  <2>4. CASE Sent[1].type # "command"
    <3>1. pc' \in {"idle", "finally"} /\ UNCHANGED <<down, command>>
          /\ (pc' = "finally" => Sent[1].type = "disconnect")
      BY <1>8, <2>1, <2>4 DEF TakeCommand
    <3>2. \A i \in DOMAIN Sent' : Sent'[i].type = "command" =>
            /\ page.busy /\ down = <<>> /\ Sent'[i].number = page.sent /\ command < page.sent
            /\ \A k \in DOMAIN Sent' : Sent'[k].type = "command" => k + 1 = i + 1
      BY <2>2 DEF Turn
    <3>3. \A i \in DOMAIN Sent' : Sent'[i].type = "command" =>
            \A k \in DOMAIN Sent' : Sent'[k].type = "command" => k = i
      BY <1>0, <2>2, <3>2
    <3> QED
      BY <2>1, <2>2, <2>3, <3>1, <3>2, <3>3 DEF Turn, Serving
  <2>5. CASE Sent[1].type = "command"
    <3>1. /\ page.busy /\ down = <<>> /\ Sent[1].number = page.sent /\ Len(down) = 0
          /\ \A k \in DOMAIN Sent : Sent[k].type = "command" => k = 1
      BY <1>0, <2>1, <2>5, EmptyIs DEF Turn
    <3>2. NoCommand' /\ \A i \in DOMAIN Sent' : Sent'[i].type = "disconnect" => ~page.open
      <4>1. NoCommand'
        BY <1>0, <2>2, <3>1 DEF NoCommand
      <4> QED
        BY <2>2, <4>1 DEF Turn
    <3>3. PICK m \in Answers :
            /\ m.type \in {"start", "error"} /\ Send(m, IF m.type = "start" THEN "spawn" ELSE "idle")
            /\ command' = IF m.type = "start" THEN page.sent ELSE command
      <4>1. [type |-> "error"] \in Answers /\ [type |-> "start"] \in Answers
        BY DEF Answers
      <4>2. CASE Accepted(Head(messages))
        BY <1>8, <2>1, <2>5, <3>1, <4>1, <4>2 DEF TakeCommand
      <4>3. CASE ~Accepted(Head(messages))
        BY <1>8, <2>1, <2>5, <4>1, <4>3 DEF TakeCommand
      <4> QED
        BY <4>2, <4>3
    <3>4. CASE page.open
      <4>1. down' = Append(down, m) /\ pc' = IF m.type = "start" THEN "spawn" ELSE "idle"
        BY <3>3, <3>4, SendIs
      <4>2. DOMAIN down' = 1 .. 1 /\ Len(down') = 1 /\ down'[1] = m
        BY <1>0, <3>1, <4>1, AppendIs
      <4> QED
        BY <1>0, <2>1, <3>1, <3>2, <3>3, <3>4, <4>1, <4>2 DEF Turn, NoCommand, Prompts
    <3>5. CASE ~page.open
      <4>1. down' = down
        BY <3>3, <3>5, SendIs
      <4> QED
        BY <1>0, <2>1, <3>1, <3>2, <3>3, <3>5, <4>1 DEF Turn, NoCommand
    <3> QED
      BY <3>4, <3>5
  <2> QED
    BY <2>4, <2>5
<1> QED
  BY <1>1, <1>3, <1>4, <1>5, <1>7, <1>8 DEF Handler

LEMMA NextTurn == Types /\ Turn /\ [Next]_vars => Turn'
<1> SUFFICES ASSUME Types, Turn, [Next]_vars PROVE Turn'
  OBVIOUS
<1>1. CASE Write \/ CloseOutput \/ Exit \/ UNCHANGED vars
  BY <1>1, TurnKept DEF Write, CloseOutput, Exit, Kubectl, vars, pageVars
<1> QED
  BY <1>1, PageTurn, ReceiveTurn, HandlerTurn DEF Next

-----------------------------------------------------------------------------
(* Interrupts.                                                               *)

(* Nothing is sent or served; some of what was sent may have been taken.     *)
LEMMA InterruptsKept ==
  ASSUME Types, Interrupts, page'.sent = page.sent, command' = command,
         pc' \in Serving => pc \in Serving,
         NEW d \in Nat, DOMAIN Sent' \subseteq Nat,
         \A i \in DOMAIN Sent' : i + d \in DOMAIN Sent /\ Sent'[i] = Sent[i + d]
  PROVE  Interrupts'
<1>1. ASSUME NEW i \in DOMAIN Sent', NEW k \in DOMAIN Sent', Sent'[i].type = "command",
             Sent'[k].type = "interrupt", i < k
      PROVE  Sent'[k].number = page.sent
  <2>1. Sent[i + d].type = "command" /\ Sent[k + d].type = "interrupt" /\ i + d < k + d
    BY <1>1
  <2> QED
    BY <1>1, <2>1 DEF Interrupts
<1>2. ASSUME pc' \in Serving, NEW k \in DOMAIN Sent', Sent'[k].type = "interrupt"
      PROVE  Sent'[k].number = page.sent
  BY <1>2 DEF Interrupts
<1>3. pc' \in Serving => command' = page.sent
  BY DEF Interrupts
<1> QED
  BY <1>1, <1>2, <1>3 DEF Interrupts

LEMMA NextInterrupts == Types /\ Turn /\ Interrupts /\ [Next]_vars => Interrupts'
<1> SUFFICES ASSUME Types, Turn, Interrupts, [Next]_vars PROVE Interrupts'
  OBVIOUS
<1> USE DEF pageVars, serverVars, Go, Raise
<1>0. /\ page \in Pages /\ page.sent \in Nat /\ command \in Nat /\ Len(Sent) \in Nat
      /\ DOMAIN Sent = 1 .. Len(Sent)
      /\ \A i \in DOMAIN Sent : i + 0 \in DOMAIN Sent /\ Sent[i] = Sent[i + 0]
  BY PageFields, SentIs, Bounds DEF Types
<1>1. ASSUME Sent' = Sent, page'.sent = page.sent, command' = command,
             pc' \in Serving => pc \in Serving
      PROVE  Interrupts'
  BY <1>1 DEF Interrupts
<1>2. CASE SendCommand
  <2>1. PICK kind \in Kinds : up' = Append(up, [type |-> "command", number |-> page.sent + 1,
                                         kind |-> kind, confirmed |-> kind # "read"])
    BY <1>2 DEF SendCommand
  <2> DEFINE m == [type |-> "command", number |-> page.sent + 1, kind |-> kind,
                   confirmed |-> kind # "read"]
  <2>2. m \in Requested
    BY <1>2, PageSends DEF SendCommand, Types, Requested, CommandMessages
  <2>3. /\ DOMAIN Sent' = 1 .. Len(Sent) + 1
        /\ \A i \in 1 .. Len(Sent) : Sent'[i] = Sent[i]
    BY <1>2, <2>1, <2>2, SentGrows DEF SendCommand
  <2>4. pc' = "idle" /\ NoCommand
    BY <1>2 DEF SendCommand, Turn
  <2>5. \A i, k \in DOMAIN Sent' : Sent'[i].type = "command" => ~(i < k)
    BY <1>0, <2>3, <2>4 DEF NoCommand
  <2> QED
    BY <2>4, <2>5 DEF Interrupts, Serving
<1>3. CASE SendInterrupt
  <2>1. [type |-> "interrupt", number |-> page.sent] \in Requested
    BY PageFields DEF Types, Requested, Controls
  <2>2. /\ DOMAIN Sent' = 1 .. Len(Sent) + 1
        /\ \A i \in 1 .. Len(Sent) : Sent'[i] = Sent[i]
        /\ Sent'[Len(Sent) + 1] = [type |-> "interrupt", number |-> page.sent]
    BY <1>3, <2>1, SentGrows DEF SendInterrupt
  <2>3. page'.sent = page.sent /\ UNCHANGED <<pc, command>>
    BY <1>0, <1>3 DEF SendInterrupt, Pages
  <2>4. ASSUME NEW i \in DOMAIN Sent', NEW k \in DOMAIN Sent', Sent'[i].type = "command",
               Sent'[k].type = "interrupt", i < k
        PROVE  Sent'[k].number = page.sent
    <3>1. CASE k = Len(Sent) + 1
      BY <2>2, <3>1
    <3>2. CASE k \in DOMAIN Sent
      <4>1. i \in DOMAIN Sent
        BY <1>0, <2>2, <2>4, <3>2
      <4>2. Sent[i].type = "command" /\ Sent[k].type = "interrupt" /\ Sent'[k] = Sent[k]
        BY <1>0, <2>2, <2>4, <3>2, <4>1
      <4> QED
        BY <2>4, <3>2, <4>1, <4>2 DEF Interrupts
    <3> QED
      BY <1>0, <2>2, <3>1, <3>2
  <2>5. pc \in Serving => \A k \in DOMAIN Sent' :
          Sent'[k].type = "interrupt" => Sent'[k].number = page.sent
    BY <1>0, <2>2 DEF Interrupts
  <2> QED
    BY <2>3, <2>4, <2>5 DEF Interrupts
<1>4. CASE ShowMessage \/ SeeClose
  <2>1. Sent' = Sent /\ page'.sent = page.sent /\ UNCHANGED <<command, pc>>
    BY <1>0, <1>4 DEF ShowMessage, SeeClose, Sent, Pages
  <2> QED
    BY <1>1, <2>1
<1>5. CASE Disconnect
  <2>1. PICK k \in 0 .. Len(up) : up' = SubSeq(up, 1, k)
    BY <1>5 DEF Disconnect
  <2>2. DOMAIN Sent' \subseteq DOMAIN Sent /\ \A i \in DOMAIN Sent' : Sent'[i] = Sent[i]
    BY <1>5, <2>1, SentCut DEF Disconnect
  <2>3. page'.sent = page.sent /\ UNCHANGED <<command, pc>>
    BY <1>0, <1>5 DEF Disconnect, Pages
  <2> QED
    BY <2>2, <2>3 DEF Interrupts
<1>6. CASE Receive
  <2>0. UNCHANGED <<page, command, pc>>
    BY <1>6 DEF Receive
  <2>1. CASE up # <<>>
    <3>1. DOMAIN Sent' = DOMAIN Sent /\ \A i \in DOMAIN Sent : Sent'[i] = Sent[i]
      BY <1>6, <2>1, SentMoved DEF Receive
    <3> QED
      BY <2>0, <3>1 DEF Interrupts
  <2>2. CASE up = <<>>
    <3>1. [type |-> "disconnect"] \in Requested
      BY DEF Requested, Controls
    <3>2. /\ DOMAIN Sent' = 1 .. Len(Sent) + 1 /\ \A i \in 1 .. Len(Sent) : Sent'[i] = Sent[i]
          /\ Sent'[Len(Sent) + 1] = [type |-> "disconnect"]
      BY <1>6, <2>2, <3>1, SentEnds DEF Receive
    <3>3. \A i \in DOMAIN Sent' : Sent'[i].type \in {"command", "interrupt"} =>
            i \in DOMAIN Sent /\ Sent'[i] = Sent[i]
      BY <1>0, <3>2
    <3> QED
      BY <2>0, <3>3 DEF Interrupts
  <2> QED
    BY <2>1, <2>2
<1>7. CASE SendReady \/ SendExit \/ ForwardOutput
  <2>1. Sent' = Sent /\ page' = page /\ command' = command
    BY <1>7 DEF SendReady, SendExit, ForwardOutput, Sent
  <2>2. pc' \in Serving => pc \in Serving
    BY <1>7 DEF SendReady, SendExit, ForwardOutput, Send, Serving
  <2> QED
    BY <1>1, <2>1, <2>2
<1>8. CASE Spawn \/ Loop \/ Reap \/ Audit \/ Finally \/ Leave \/ Write \/ CloseOutput \/ Exit
           \/ UNCHANGED vars
  <2>1. Sent' = Sent /\ page' = page /\ command' = command
    BY <1>8 DEF Spawn, Loop, Reap, Audit, Finally, Leave, Write, CloseOutput, Exit, Kubectl, vars, Sent
  <2>2. pc' \in Serving => pc \in Serving
    BY <1>8 DEF Spawn, Loop, Reap, Audit, Finally, Leave, Write, CloseOutput, Exit, Kubectl, vars, Serving
  <2> QED
    BY <1>1, <2>1, <2>2
<1>9. CASE ObeyControl
  <2>1. messages # <<>> /\ messages' = Tail(messages) /\ up' = up
    BY <1>9 DEF ObeyControl, Woken
  <2>2. DOMAIN Sent' = 1 .. Len(Sent) - 1 /\ \A i \in 1 .. Len(Sent) - 1 : Sent'[i] = Sent[i + 1]
    BY <2>1, SentTaken
  <2>3. /\ DOMAIN Sent' \subseteq Nat /\ 1 \in Nat
        /\ \A i \in DOMAIN Sent' : i + 1 \in DOMAIN Sent /\ Sent'[i] = Sent[i + 1]
    BY <1>0, <2>2
  <2>4. page' = page /\ command' = command /\ (pc' \in Serving => pc \in Serving)
    BY <1>9 DEF ObeyControl, Serving
  <2> QED
    BY <2>3, <2>4, InterruptsKept
<1>10. CASE TakeCommand
  <2>1. /\ pc = "idle" /\ messages # <<>> /\ messages' = Tail(messages) /\ page' = page
        /\ up' = up /\ Head(messages) = Sent[1] /\ 1 \in DOMAIN Sent
    BY <1>0, <1>10, SentIs DEF TakeCommand
  <2>2. DOMAIN Sent' = 1 .. Len(Sent) - 1 /\ \A i \in 1 .. Len(Sent) - 1 : Sent'[i] = Sent[i + 1]
    BY <2>1, SentTaken
  <2>3. /\ DOMAIN Sent' \subseteq Nat /\ 1 \in Nat
        /\ \A i \in DOMAIN Sent' : i + 1 \in DOMAIN Sent /\ Sent'[i] = Sent[i + 1] /\ 1 < i + 1
    BY <1>0, <2>2
  <2>4. CASE command' = command /\ pc' \notin Serving
    BY <2>1, <2>3, <2>4, InterruptsKept
  <2>5. CASE Sent[1].type = "command" /\ command' = Sent[1].number
    <3>1. /\ Sent[1].number = page.sent
          /\ \A k \in DOMAIN Sent : Sent[k].type = "command" => k = 1
      BY <2>1, <2>5 DEF Turn
    <3>2. \A k \in DOMAIN Sent' : Sent'[k].type = "interrupt" => Sent'[k].number = page.sent
      BY <2>1, <2>3, <2>5 DEF Interrupts
    <3> QED
      BY <2>1, <2>5, <3>1, <3>2 DEF Interrupts
  <2> QED
    BY <1>10, <2>1, <2>4, <2>5 DEF TakeCommand, Send, Serving
<1> QED
  BY <1>2, <1>3, <1>4, <1>5, <1>6, <1>7, <1>8, <1>9, <1>10 DEF Next, Page, Handler

LEMMA NextInterruptHits ==
  Types /\ Turn /\ Interrupts /\ InterruptHitsItsCommand /\ [Next]_vars => InterruptHitsItsCommand'
<1> SUFFICES ASSUME Types, Interrupts, InterruptHitsItsCommand, [Next]_vars
             PROVE  InterruptHitsItsCommand'
  OBVIOUS
<1> USE DEF pageVars, serverVars, Go, Raise
<1>1. CASE UNCHANGED <<stop, command>>
  BY <1>1 DEF InterruptHitsItsCommand
<1>2. CASE TakeCommand
  <2>1. UNCHANGED <<stop, command>> \/ stop' = Nothing
    BY <1>2 DEF TakeCommand
  <2> QED
    BY <1>1, <2>1 DEF InterruptHitsItsCommand, Nothing
<1>3. CASE ObeyControl
  <2>1. messages # <<>> /\ pc = "wait" /\ command' = command
    BY <1>3 DEF ObeyControl, Woken
  <2>2. Head(messages) = Sent[1] /\ 1 \in DOMAIN Sent
    BY <2>1, SentIs
  <2>3. Sent[1].type = "interrupt" => Sent[1].number = command
    BY <2>1, <2>2 DEF Interrupts, Serving
  <2>4. stop' = stop \/ stop' = Sent[1]
    BY <1>3, <2>2 DEF ObeyControl
  <2> QED
    BY <2>1, <2>3, <2>4 DEF InterruptHitsItsCommand
<1> QED
  BY <1>1, <1>2, <1>3 DEF Next, Page, Handler, SendCommand, SendInterrupt, ShowMessage, Disconnect,
     SeeClose, Receive, SendReady, SendExit, ForwardOutput, Spawn, Loop, Reap, Audit, Finally,
     Leave, Write, CloseOutput, Exit, Kubectl, vars

-----------------------------------------------------------------------------
(* The audit.                                                                *)

ExitsAudited == \A i \in DOMAIN down : down[i].type = "exit" => down[i].number \in ToSet(audits)
Ends == {"finally", "leave", "ended"}
Before == Serving \ {"exit"}

(* Steps that neither serve nor audit a command.                             *)
LEMMA AuditsKept ==
  ASSUME Types, Audits, UNCHANGED <<audits, command, exits>>, ExitsAudited',
         pc' \in Before => pc \in Before,
         failed' => pc' \in Ends,
         pc' \notin Before /\ ~failed' => pc \notin Before /\ ~failed
  PROVE  Audits'
<1>1. /\ failed' => pc' \in {"finally", "leave", "ended"}
      /\ pc' \notin Serving \ {"exit"} /\ ~failed' /\ command' # 0 => command' \in ToSet(audits')
  BY DEF Audits, Ends, Before
<1>2. pc' \in Serving \ {"exit"} => \A i \in DOMAIN audits' : audits'[i] < command'
  BY DEF Audits, Before
<1> QED
  BY <1>1, <1>2 DEF Audits, ExitsAudited

(* What is sent is no exit, or the exit of an audited command.               *)
LEMMA AuditedSent ==
  ASSUME Types, Audits, NEW m \in Answers, NEW next \in Steps, Send(m, next), audits' = audits,
         m.type = "exit" => m.number \in ToSet(audits)
  PROVE  ExitsAudited'
<1>1. ExitsAudited
  BY DEF Audits, ExitsAudited
<1>2. CASE down' = down
  BY <1>1, <1>2 DEF ExitsAudited
<1>3. CASE down' = Append(down, m)
  <2>1. /\ DOMAIN down' = 1 .. Len(down) + 1 /\ DOMAIN down = 1 .. Len(down)
        /\ \A i \in 1 .. Len(down) : down'[i] = down[i]
        /\ down'[Len(down) + 1] = m /\ Len(down) \in Nat
    BY <1>3, AppendIs, EmptyIs DEF Types
  <2> QED
    BY <1>1, <2>1 DEF ExitsAudited
<1> QED
  BY <1>2, <1>3 DEF Send, Raise

LEMMA NextAudits == Types /\ Turn /\ Audits /\ [Next]_vars => Audits'
<1> SUFFICES ASSUME Types, Turn, Audits, [Next]_vars PROVE Audits'
  OBVIOUS
<1> USE DEF pageVars, serverVars, Go, Raise
<1>0. /\ audits \in Seq(Commands) /\ DOMAIN audits = 1 .. Len(audits) /\ Len(audits) \in Nat
      /\ \A i \in DOMAIN audits : audits[i] \in Nat
      /\ ExitsAudited /\ command \in Nat /\ failed \in BOOLEAN
  <2>1. audits \in Seq(Commands) /\ DOMAIN audits = 1 .. Len(audits) /\ Len(audits) \in Nat
        /\ \A i \in DOMAIN audits : audits[i] \in Commands
    BY EmptyIs DEF Types
  <2> QED
    BY <2>1, Bounds DEF Types, Audits, ExitsAudited, Commands
<1>1. CASE SendCommand \/ SendInterrupt \/ SeeClose \/ Receive \/ Write \/ CloseOutput \/ Exit
           \/ UNCHANGED vars
  <2>1. UNCHANGED <<audits, command, exits, down, pc, failed>>
    BY <1>1 DEF SendCommand, SendInterrupt, SeeClose, Receive, Write, CloseOutput, Exit, Kubectl, vars
  <2> QED
    BY <2>1 DEF Audits
<1>2. CASE Disconnect
  <2>1. UNCHANGED <<audits, command, exits, pc, failed>> /\ down' = <<>> /\ DOMAIN down' = {}
    BY <1>2 DEF Disconnect
  <2> QED
    BY <2>1 DEF Audits
<1>3. CASE ShowMessage
  <2>1. /\ UNCHANGED <<audits, command, pc, failed>> /\ down # <<>> /\ down' = Tail(down)
        /\ exits' = IF Head(down).type = "exit" THEN exits \union {Head(down).number} ELSE exits
    BY <1>3 DEF ShowMessage
  <2>2. /\ Head(down) = down[1] /\ 1 \in DOMAIN down
        /\ \A i \in DOMAIN down' : i + 1 \in DOMAIN down /\ down'[i] = down[i + 1]
    BY <2>1, TailIs, EmptyIs DEF Types
  <2>3. exits' \subseteq ToSet(audits)
    BY <2>1, <2>2 DEF Audits
  <2>4. \A i \in DOMAIN down' : down'[i].type = "exit" => down'[i].number \in ToSet(audits)
    BY <2>2 DEF Audits
  <2> QED
    BY <2>1, <2>3, <2>4 DEF Audits
<1>4. CASE SendReady
  <2>1. [type |-> "ready"] \in Answers /\ "idle" \in Steps
    BY DEF Answers, Steps
  <2>2. ExitsAudited'
    BY <1>4, <2>1, AuditedSent DEF SendReady
  <2> QED
    BY <1>4, <2>2, AuditsKept, <1>0 DEF SendReady, Send, Audits, Before, Ends, Serving
<1>5. CASE SendExit
  <2>1. command \in Commands /\ ~failed /\ command \in ToSet(audits)
    BY <1>0, <1>5, Bounds DEF SendExit, Types, Audits, Serving, Commands
  <2>2. [type |-> "exit", number |-> command, interrupted |-> stop.type = "interrupt"] \in Answers
        /\ "idle" \in Steps
    BY <2>1 DEF Answers, Steps
  <2>3. ExitsAudited'
    BY <1>5, <2>1, <2>2, AuditedSent DEF SendExit
  <2> QED
    BY <1>0, <1>5, <2>1, <2>3, AuditsKept DEF SendExit, Send, Before, Ends, Serving
<1>6. CASE ForwardOutput
  <2>1. ~failed
    BY <1>0, <1>6 DEF ForwardOutput, Audits
  <2>2. CASE process.read < process.written
    <3>1. [type |-> "output", number |-> command, line |-> process.read + 1] \in Answers
          /\ "loop" \in Steps
      BY <1>6, <2>2, ProcessFields, Bounds DEF ForwardOutput, Types, Answers, Serving, Steps
    <3>2. ExitsAudited'
      BY <1>6, <2>2, <3>1, AuditedSent DEF ForwardOutput
    <3> QED
      BY <1>6, <2>1, <2>2, <3>2, AuditsKept DEF ForwardOutput, Send, Before, Ends, Serving
  <2>3. CASE ~(process.read < process.written)
    <3>1. ExitsAudited'
      BY <1>0, <1>6, <2>3 DEF ForwardOutput, ExitsAudited
    <3> QED
      BY <1>6, <2>1, <2>3, <3>1, AuditsKept DEF ForwardOutput, Before, Ends, Serving
  <2> QED
    BY <2>2, <2>3
<1>7. CASE Spawn \/ Loop \/ Reap \/ ObeyControl \/ Finally \/ Leave
  <2>1. UNCHANGED <<audits, command, exits, down>>
    BY <1>7 DEF Spawn, Loop, Reap, ObeyControl, Finally, Leave
  <2>2. ExitsAudited'
    BY <1>0, <2>1 DEF ExitsAudited
  <2>3. /\ pc' \in Before => pc \in Before
        /\ failed' => pc' \in Ends
        /\ pc' \notin Before /\ ~failed' => pc \notin Before /\ ~failed
    BY <1>0, <1>7 DEF Spawn, Loop, Reap, ObeyControl, Finally, Leave, Audits, Before, Ends, Serving
  <2> QED
    BY <2>1, <2>2, <2>3, AuditsKept
<1>8. CASE Audit
  <2>1. ~failed /\ (\A i \in DOMAIN audits : audits[i] < command) /\ UNCHANGED <<command, exits, down>>
    BY <1>0, <1>8 DEF Audit, Audits, Serving
  <2>2. CASE audits' = audits /\ pc' = "finally" /\ failed'
    <3>1. ExitsAudited'
      BY <1>0, <2>1, <2>2 DEF ExitsAudited
    <3> QED
      BY <1>0, <2>1, <2>2, <3>1, AuditsKept DEF Before, Ends, Serving
  <2>3. CASE audits' = Append(audits, command) /\ pc' \in {"finally", "exit"} /\ ~failed'
    <3>1. command \in Commands
      BY <1>8 DEF Audit, Types, Serving
    <3>2. /\ DOMAIN audits' = 1 .. Len(audits) + 1
          /\ \A i \in 1 .. Len(audits) : audits'[i] = audits[i]
          /\ audits'[Len(audits) + 1] = command
      BY <1>0, <2>3, <3>1, AppendIs
    <3>3. ToSet(audits) \subseteq ToSet(audits') /\ command \in ToSet(audits')
      BY <1>0, <3>2 DEF ToSet
    <3>4. \A i, j \in DOMAIN audits' : i < j => audits'[i] < audits'[j]
      BY <1>0, <2>1, <3>2 DEF Audits
    <3>5. \A i \in DOMAIN audits' : audits'[i] <= command'
      BY <1>0, <2>1, <3>2
    <3>6. exits' \subseteq ToSet(audits') /\ ExitsAudited'
      BY <1>0, <2>1, <3>3 DEF Audits, ExitsAudited
    <3> QED
      BY <2>1, <2>3, <3>3, <3>4, <3>5, <3>6 DEF Audits, ExitsAudited, Serving
  <2> QED
    BY <1>0, <1>8, <2>1, <2>2, <2>3 DEF Audit
<1>9. CASE TakeCommand
  <2>1. /\ pc = "idle" /\ messages # <<>> /\ UNCHANGED <<audits, exits>>
        /\ Head(messages) = Sent[1] /\ 1 \in DOMAIN Sent
    BY <1>0, <1>9, SentIs DEF TakeCommand
  <2>2. [type |-> "error"] \in Answers /\ [type |-> "start"] \in Answers
        /\ {"idle", "spawn"} \subseteq Steps
    BY DEF Answers, Steps, Serving
  <2>3. ~failed
    BY <1>0, <2>1 DEF Audits
  <2>4. CASE command' = command /\ pc' \notin Before
    <3>1. ExitsAudited'
      BY <1>0, <1>9, <2>1, <2>2, <2>4, AuditedSent DEF TakeCommand, ExitsAudited, Send, Before, Serving
    <3>2. failed' => pc' \in Ends
      BY <1>9, <2>3 DEF TakeCommand, Send, Ends
    <3> QED
      BY <2>1, <2>3, <2>4, <3>1, <3>2, AuditsKept DEF Before, Serving
  <2>5. CASE /\ Sent[1].type = "command" /\ command' = Sent[1].number
             /\ Send([type |-> "start"], "spawn")
    <3>1. ExitsAudited'
      BY <2>1, <2>2, <2>5, AuditedSent
    <3>2. command < command' /\ command' \in Nat
      BY <1>0, <2>1, <2>5, PageFields, Bounds DEF Turn, Types
    <3>3. \A i \in DOMAIN audits : audits[i] < command'
      BY <1>0, <3>2 DEF Audits
    <3>4. (pc' = "spawn" /\ ~failed') \/ (pc' = "finally" /\ failed')
      BY <2>3, <2>5 DEF Send
    <3> QED
      BY <1>0, <2>1, <3>1, <3>2, <3>3, <3>4 DEF Audits, ExitsAudited, Serving
  <2> QED
    BY <1>9, <2>1, <2>4, <2>5 DEF TakeCommand, Send, Before, Serving
<1> QED
  BY <1>1, <1>2, <1>3, <1>4, <1>5, <1>6, <1>7, <1>8, <1>9 DEF Next, Page, Handler

-----------------------------------------------------------------------------
(* The lines.                                                                *)

(* Steps that neither show a line nor send anything.                         *)
LEMMA LinesKept ==
  ASSUME Lines, UNCHANGED <<shown, command, down>>, Reading'
  PROVE  Lines'
<1>1. Coming'
  BY DEF Lines, Coming, ShownNow, StartOnTop
<1> QED
  BY <1>1 DEF Lines

LEMMA Numbers == Types => ShownNow \in Nat /\ StartOnTop \in {0, 1}
<1> SUFFICES ASSUME Types PROVE ShownNow \in Nat /\ StartOnTop \in {0, 1}
  OBVIOUS
<1>1. command # 0 => command \in Commands
  BY Bounds DEF Types, Commands
<1>2. command # 0 => shown[command] \in Seq(1 .. MaxLines)
  BY <1>1 DEF Types
<1> QED
  BY <1>2, EmptyIs DEF ShownNow, StartOnTop

(* The handler sends a message that is not the start of a command.           *)
LEMMA LinesSent ==
  ASSUME Types, Turn, Lines, NEW m \in Answers, NEW next, Send(m, next),
         UNCHANGED <<page, shown, command>>, m.type # "start",
         m.type = "output" /\ page.open =>
           m.number = command /\ m.line = ShownNow + Len(down) + 1 - StartOnTop
  PROVE  /\ Coming' /\ ShownNow' = ShownNow /\ StartOnTop' = StartOnTop
         /\ page.open => Len(down') = Len(down) + 1
<1>0. down \in Seq(Answers) /\ Len(down) \in Nat /\ DOMAIN down = 1 .. Len(down)
      /\ (down = <<>> <=> Len(down) = 0) /\ ShownNow \in Nat /\ StartOnTop \in {0, 1}
  BY EmptyIs, Numbers DEF Types
<1>1. ShownNow' = ShownNow
  BY DEF ShownNow
<1>2. CASE page.open
  <2>1. /\ DOMAIN down' = 1 .. Len(down) + 1 /\ Len(down') = Len(down) + 1 /\ down' # <<>>
        /\ \A i \in 1 .. Len(down) : down'[i] = down[i]
        /\ down'[Len(down) + 1] = m
    <3>1. down' = Append(down, m)
      BY <1>2, SendIs
    <3>2. /\ DOMAIN down' = 1 .. Len(down) + 1 /\ Len(down') = Len(down) + 1
          /\ \A i \in 1 .. Len(down) : down'[i] = down[i]
          /\ down'[Len(down) + 1] = m /\ down' \in Seq(Answers)
      BY <1>0, <3>1, AppendIs
    <3> QED
      BY <1>0, <3>2, EmptyIs
  <2>2. StartOnTop' = StartOnTop
    BY <1>0, <2>1 DEF StartOnTop
  <2>3. ASSUME NEW i \in DOMAIN down'
        PROVE  /\ down'[i].type = "start" => i = 1
               /\ down'[i].type = "output" => /\ down'[i].number = command
                                              /\ down'[i].line = ShownNow + i - StartOnTop
    <3>1. CASE i = Len(down) + 1
      BY <1>0, <1>2, <2>1, <3>1
    <3>2. CASE i \in DOMAIN down
      BY <1>0, <2>1, <3>2 DEF Lines, Coming
    <3> QED
      BY <1>0, <2>1, <3>1, <3>2
  <2> QED
    BY <1>1, <2>1, <2>2, <2>3 DEF Coming
<1>3. CASE ~page.open
  <2>1. down' = down
    BY <1>3, SendIs
  <2> QED
    BY <1>1, <1>3, <2>1 DEF Lines, Coming, StartOnTop
<1> QED
  BY <1>2, <1>3 DEF Types, Pages

(* The page shows a message.                                                 *)
LEMMA LinesShown == Types /\ Turn /\ Lines /\ ShowMessage => Lines'
<1> SUFFICES ASSUME Types, Turn, Lines, ShowMessage PROVE Lines'
  OBVIOUS
<1> USE DEF serverVars
<1> DEFINE m == Head(down)
<1>1. /\ down # <<>> /\ m = down[1] /\ m \in Answers /\ 1 \in DOMAIN down /\ Len(down) \in Nat \ {0}
      /\ Len(down') = Len(down) - 1 /\ DOMAIN down' = 1 .. Len(down) - 1
      /\ (down' = <<>> <=> Len(down') = 0)
      /\ \A i \in DOMAIN down' : i + 1 \in DOMAIN down /\ down'[i] = down[i + 1]
  <2>1. down # <<>> /\ down' = Tail(down) /\ down \in Seq(Answers)
    BY DEF ShowMessage, Types
  <2>2. /\ m = down[1] /\ m \in Answers /\ down' \in Seq(Answers) /\ Len(down) \in Nat \ {0}
        /\ Len(down') = Len(down) - 1 /\ DOMAIN down' = 1 .. Len(down) - 1
        /\ \A i \in 1 .. Len(down) - 1 : down'[i] = down[i + 1]
    BY <2>1, TailIs
  <2>3. DOMAIN down = 1 .. Len(down) /\ (down' = <<>> <=> Len(down') = 0)
    BY <2>1, <2>2, EmptyIs
  <2> QED
    BY <2>1, <2>2, <2>3
<1>2. UNCHANGED <<command, pc, stop, process>> /\ page'.open = page.open
  BY DEF ShowMessage, Types, Pages
<1>3. StartOnTop' = 0
  BY <1>1 DEF StartOnTop, Lines, Coming
<1>4. CASE m.type = "output"
  <2>1. /\ m.number = command /\ command \in Commands /\ StartOnTop = 0
        /\ m.line = ShownNow + 1 /\ ShownNow = Len(shown[command])
        /\ shown[command] \in Seq(1 .. MaxLines) /\ m.line \in 1 .. MaxLines
    <3>1. m.number \in Commands /\ m.line \in 1 .. MaxLines
      BY <1>1, <1>4 DEF Answers
    <3>2. StartOnTop = 0
      BY <1>1, <1>4 DEF StartOnTop
    <3>3. m.number = command /\ m.line = ShownNow + 1 - StartOnTop
      BY <1>1, <1>4 DEF Lines, Coming
    <3>4. shown[command] \in Seq(1 .. MaxLines) /\ ShownNow = Len(shown[command])
      BY <3>1, <3>3, Bounds DEF Types, ShownNow, Commands
    <3>5. Len(shown[command]) \in Nat
      BY <3>4, EmptyIs
    <3> QED
      BY <3>1, <3>2, <3>3, <3>4, <3>5
  <2>2. shown' = [shown EXCEPT ![command] = Append(@, m.line)]
    BY <1>4, <2>1 DEF ShowMessage
  <2>3. /\ shown'[command] = Append(shown[command], m.line)
        /\ \A n \in Commands : n # command => shown'[n] = shown[n]
    BY <2>1, <2>2 DEF Types
  <2>4. /\ DOMAIN shown'[command] = 1 .. ShownNow + 1 /\ Len(shown'[command]) = ShownNow + 1
        /\ DOMAIN shown[command] = 1 .. ShownNow /\ ShownNow \in Nat
        /\ \A i \in 1 .. ShownNow : shown'[command][i] = shown[command][i]
        /\ shown'[command][ShownNow + 1] = ShownNow + 1
    BY <2>1, <2>3, AppendIs, EmptyIs
  <2>5. \A n \in Commands : \A i \in DOMAIN shown'[n] : shown'[n][i] = i
    BY <2>3, <2>4 DEF Lines
  <2>6. \A n \in Commands : n > command' => shown'[n] = <<>>
    BY <1>2, <2>1, <2>3, Bounds DEF Lines, Commands
  <2>7. ShownNow' = ShownNow + 1
    BY <1>2, <2>1, <2>4, Bounds DEF ShownNow, Commands
  <2>8. Coming'
    <3>1. ASSUME NEW i \in DOMAIN down'
          PROVE  /\ down'[i].type = "start" => i = 1
                 /\ down'[i].type = "output" => /\ down'[i].number = command
                                                /\ down'[i].line = ShownNow + 1 + i - 0
      <4>1. i + 1 \in DOMAIN down /\ down'[i] = down[i + 1] /\ i \in Nat \ {0} /\ ShownNow \in Nat
        BY <1>1, <2>4
      <4>2. /\ down[i + 1].type = "start" => i + 1 = 1
            /\ down[i + 1].type = "output" => /\ down[i + 1].number = command
                                              /\ down[i + 1].line = ShownNow + (i + 1) - 0
        BY <2>1, <4>1 DEF Lines, Coming
      <4> QED
        BY <4>1, <4>2
    <3> QED
      BY <1>2, <1>3, <2>7, <3>1 DEF Coming
  <2>9. Reading'
    BY <1>1, <1>2, <1>3, <2>1, <2>4, <2>7 DEF Lines, Reading
  <2> QED
    BY <2>5, <2>6, <2>8, <2>9 DEF Lines
<1>5. CASE m.type # "output"
  <2>1. shown' = shown /\ ShownNow' = ShownNow
    BY <1>2, <1>5 DEF ShowMessage, ShownNow
  <2>2. ShownNow \in Nat
    <3>1. command # 0 => command \in Commands
      BY Bounds DEF Types, Commands
    <3>2. command # 0 => shown[command] \in Seq(1 .. MaxLines)
      BY <3>1 DEF Types
    <3> QED
      BY <3>2, EmptyIs DEF ShownNow
  <2>3. CASE m.type = "start"
    <3>1. StartOnTop = 1
      BY <1>1, <2>3 DEF StartOnTop
    <3>2. Coming'
      <4>1. ASSUME NEW i \in DOMAIN down'
            PROVE  /\ down'[i].type = "start" => i = 1
                   /\ down'[i].type = "output" => /\ down'[i].number = command
                                                  /\ down'[i].line = ShownNow + i - 0
        BY <1>1, <2>2, <3>1 DEF Lines, Coming
      <4> QED
        BY <1>2, <1>3, <2>1, <4>1 DEF Coming
    <3>3. Reading'
      BY <1>1, <1>2, <1>3, <2>1, <2>2, <3>1 DEF Lines, Reading
    <3> QED
      BY <1>2, <2>1, <3>2, <3>3 DEF Lines
  <2>4. CASE m.type \in Prompts
    <3>1. pc = "idle" /\ Len(down) = 1
      BY <1>1, <2>4 DEF Turn
    <3>2. DOMAIN down' = {}
      BY <1>1, <3>1
    <3> QED
      BY <1>2, <2>1, <3>1, <3>2 DEF Lines, Coming, Reading
  <2> QED
    BY <1>1, <1>5, <2>3, <2>4, AnswersAre DEF Prompts
<1> QED
  BY <1>4, <1>5

LEMMA NextLines == Types /\ Turn /\ Lines /\ [Next]_vars => Lines'
<1> SUFFICES ASSUME Types, Turn, Lines, [Next]_vars PROVE Lines'
  OBVIOUS
<1> USE DEF pageVars, serverVars, Go, Raise
<1>0. /\ down \in Seq(Answers) /\ Len(down) \in Nat /\ DOMAIN down = 1 .. Len(down)
      /\ (down = <<>> <=> Len(down) = 0) /\ page \in Pages /\ page.open \in BOOLEAN
      /\ process \in Processes /\ process.read \in Nat /\ command \in Nat
      /\ ShownNow \in Nat /\ StartOnTop \in {0, 1}
  <2>1. down \in Seq(Answers) /\ page \in Pages /\ process \in Processes /\ command \in Nat
    BY Bounds DEF Types
  <2> QED
    BY <2>1, Numbers, EmptyIs, PageFields, ProcessFields, Bounds
<1>1. CASE SendCommand \/ SendInterrupt \/ SeeClose \/ Receive \/ UNCHANGED vars
  <2>1. /\ UNCHANGED <<shown, command, down, pc, stop, process>>
        /\ page'.open => page.open
    BY <1>0, <1>1 DEF SendCommand, SendInterrupt, SeeClose, Receive, vars, Pages
  <2>2. Reading'
    BY <2>1 DEF Lines, Reading, ShownNow, StartOnTop
  <2> QED
    BY <2>1, <2>2, LinesKept
<1>2. CASE Write \/ CloseOutput \/ Exit
  <2>1. /\ UNCHANGED <<shown, command, down, pc, stop, page>>
        /\ process'.read = process.read /\ (process.state = "exited" => process'.state = "exited")
    BY <1>0, <1>2 DEF Write, CloseOutput, Exit, Kubectl, Processes
  <2>2. Reading'
    BY <2>1 DEF Lines, Reading, ShownNow, StartOnTop
  <2> QED
    BY <2>1, <2>2, LinesKept
<1>3. CASE Disconnect
  <2>1. /\ UNCHANGED <<shown, command, pc, stop, process>> /\ down' = <<>> /\ DOMAIN down' = {}
        /\ ~page'.open /\ Len(down') = 0
    BY <1>0, <1>3 DEF Disconnect, Pages
  <2> QED
    BY <2>1 DEF Lines, Coming, Reading, ShownNow, StartOnTop
<1>4. CASE SendReady
  <2>1. [type |-> "ready"] \in Answers
    BY DEF Answers
  <2>2. Coming'
    BY <1>4, <2>1, LinesSent DEF SendReady
  <2> QED
    BY <1>4, <2>2 DEF SendReady, Send, Lines, Reading
<1>5. CASE SendExit
  <2>1. [type |-> "exit", number |-> command, interrupted |-> stop.type = "interrupt"] \in Answers
    BY <1>5 DEF SendExit, Types, Answers, Serving
  <2>2. Coming'
    BY <1>5, <2>1, LinesSent DEF SendExit
  <2> QED
    BY <1>5, <2>2 DEF SendExit, Send, Lines, Reading
<1>6. CASE ForwardOutput
  <2>1. /\ pc = "wait" /\ stop = Nothing /\ UNCHANGED <<page, shown, command, stop>>
        /\ process' = Read(process)
        /\ page.open => process.read = ShownNow + Len(down) - StartOnTop
    BY <1>6 DEF ForwardOutput, Lines, Reading
  <2>2. CASE process.read < process.written
    <3> DEFINE o == [type |-> "output", number |-> command, line |-> process.read + 1]
    <3>1. o \in Answers
      BY <1>6, <2>2, ProcessFields, Bounds DEF ForwardOutput, Types, Answers, Serving
    <3>2. Send(o, "loop")
      BY <1>6, <2>2 DEF ForwardOutput
    <3>3. page.open => o.number = command /\ o.line = ShownNow + Len(down) + 1 - StartOnTop
      BY <1>0, <2>1
    <3>4. /\ Coming' /\ ShownNow' = ShownNow /\ StartOnTop' = StartOnTop
          /\ page.open => Len(down') = Len(down) + 1
      BY <2>1, <3>1, <3>2, <3>3, LinesSent
    <3>5. process'.read = process.read + 1
      BY <1>0, <2>1, <2>2 DEF Read, Processes
    <3>6. pc' \in {"loop", "finally"}
      BY <3>2 DEF Send
    <3>7. Reading'
      BY <1>0, <2>1, <3>4, <3>5, <3>6 DEF Reading
    <3> QED
      BY <2>1, <3>4, <3>7 DEF Lines
  <2>3. CASE ~(process.read < process.written)
    <3>1. pc' = "reap" /\ down' = down /\ process' = process
      BY <1>6, <2>1, <2>3 DEF ForwardOutput, Read
    <3>2. Reading'
      BY <2>1, <3>1 DEF Reading, Lines, ShownNow, StartOnTop
    <3> QED
      BY <2>1, <3>1, <3>2, LinesKept
  <2> QED
    BY <2>2, <2>3
<1>7. CASE ObeyControl
  <2>1. pc = "wait" /\ messages # <<>> /\ UNCHANGED <<page, shown, command, down>>
    BY <1>7 DEF ObeyControl, Woken
  <2>2. Head(messages) = Sent[1] /\ 1 \in DOMAIN Sent /\ Sent[1] \in Requested
    BY <2>1, SentIs
  <2>3. Sent[1].type \in {"interrupt", "disconnect"}
    BY <2>1, <2>2, RequestedAre DEF Turn, NoCommand, Serving
  <2>4. (pc' = "reap" /\ stop' # Nothing) \/ pc' = "finally"
    BY <1>7, <2>2, <2>3 DEF ObeyControl, Nothing
  <2> QED
    BY <2>1, <2>4, LinesKept DEF Reading
<1>8. CASE Spawn \/ Loop \/ Reap \/ Audit \/ Finally \/ Leave
  <2>1. UNCHANGED <<page, shown, command, down, stop>>
    BY <1>8 DEF Spawn, Loop, Reap, Audit, Finally, Leave
  <2>2. ShownNow' = ShownNow /\ StartOnTop' = StartOnTop
    BY <2>1 DEF ShownNow, StartOnTop
  <2>3. CASE Spawn
    <3>1. pc' = "finally" \/ (pc' = "loop" /\ process'.read = 0)
      BY <2>3 DEF Spawn, NoProcess
    <3>2. pc = "spawn"
      BY <2>3 DEF Spawn
    <3>3. Reading'
      BY <1>0, <2>1, <2>2, <3>1, <3>2 DEF Lines, Reading
    <3> QED
      BY <2>1, <3>3, LinesKept
  <2>4. CASE Loop \/ Reap
    <3>1. /\ process' = process /\ pc \in {"loop", "reap"}
          /\ \/ pc' = "audit"
             \/ pc' = "wait" /\ pc = "loop" /\ process.state # "exited"
             \/ pc' = "loop" /\ process.state = "exited"
      BY <2>4 DEF Loop, Reap, Exited
    <3>2. Reading'
      BY <2>1, <2>2, <3>1 DEF Lines, Reading
    <3> QED
      BY <2>1, <3>2, LinesKept
  <2>5. CASE Audit \/ Finally \/ Leave
    <3>1. pc' \in {"exit", "finally", "leave", "ended"}
      BY <2>5 DEF Audit, Finally, Leave
    <3> QED
      BY <2>1, <3>1, LinesKept DEF Reading
  <2> QED
    BY <1>8, <2>3, <2>4, <2>5
<1>9. CASE TakeCommand
  <2>1. /\ messages # <<>> /\ UNCHANGED <<page, shown>>
        /\ Head(messages) = Sent[1] /\ 1 \in DOMAIN Sent
    BY <1>0, <1>9, SentIs DEF TakeCommand
  <2>2. CASE UNCHANGED <<down, command>> /\ pc' \in {"idle", "finally"}
    BY <2>1, <2>2, LinesKept DEF Reading
  <2>3. CASE UNCHANGED command /\ Send([type |-> "error"], "idle")
    <3>1. [type |-> "error"] \in Answers
      BY DEF Answers
    <3>2. Coming'
      BY <2>1, <2>3, <3>1, LinesSent
    <3> QED
      BY <2>1, <2>3, <3>2 DEF Send, Lines, Reading
  <2>4. CASE /\ Sent[1].type = "command" /\ command' = Sent[1].number /\ stop' = Nothing
             /\ Send([type |-> "start"], "spawn")
    <3>1. down = <<>> /\ command' = page.sent /\ command < command' /\ page.sent \in Nat
      BY <2>1, <2>4, <1>0, PageFields, Bounds DEF Turn
    <3>2. command' \in Commands
      BY <1>0, <3>1, PageFields, Bounds DEF Commands
    <3>3. shown[command'] = <<>> /\ ShownNow' = 0
      BY <1>0, <2>1, <3>1, <3>2, EmptyIs DEF Lines, ShownNow
    <3>4. \A n \in Commands : n > command' => shown'[n] = <<>>
      BY <1>0, <2>1, <3>1, Bounds DEF Lines, Commands
    <3>5. \/ down' = <<[type |-> "start"]>> /\ pc' = "spawn"
          \/ down' = <<>> /\ pc' \in {"spawn", "finally"}
      BY <2>4, <3>1 DEF Send
    <3>6. Coming'
      BY <3>5 DEF Coming
    <3>7. pc' = "spawn" => Len(down') = StartOnTop'
      BY <3>5 DEF StartOnTop
    <3>8. Reading'
      BY <2>4, <3>3, <3>5, <3>7 DEF Reading
    <3> QED
      BY <2>1, <3>4, <3>6, <3>8 DEF Lines
  <2> QED
    BY <1>9, <2>1, <2>2, <2>3, <2>4 DEF TakeCommand
<1> QED
  BY <1>1, <1>2, <1>3, <1>4, <1>5, <1>6, <1>7, <1>8, <1>9, LinesShown DEF Next, Page, Handler

-----------------------------------------------------------------------------
(* What holds of every session.                                              *)

LEMMA InitInv == Init => Inv
<1> SUFFICES ASSUME Init PROVE Inv
  OBVIOUS
<1>1. Sent = <<>> /\ DOMAIN Sent = {} /\ DOMAIN down = {} /\ DOMAIN audits = {} /\ Len(down) = 0
  BY ConcatIs DEF Init, Sent
<1>2. Types
  BY InitTypes
<1>3. NothingOutlives /\ InterruptHitsItsCommand
  BY DEF Init, NothingOutlives, InterruptHitsItsCommand, Nothing
<1>4. Turn
  BY <1>1 DEF Init, Turn, NoCommand, Serving
<1>5. Interrupts
  BY <1>1 DEF Init, Interrupts, Serving
<1>6. Audits
  BY <1>1 DEF Init, Audits
<1>7. Lines
  BY <1>1, Bounds DEF Init, Lines, Coming, Reading, Commands
<1> QED
  BY <1>2, <1>3, <1>4, <1>5, <1>6, <1>7 DEF Inv

LEMMA NextInv == Inv /\ [Next]_vars => Inv'
BY NextTypes, NextOutlives, NextInterruptHits, NextTurn, NextInterrupts, NextAudits, NextLines DEF Inv

LEMMA Invariant == Spec => []Inv
BY InitInv, NextInv, PTL DEF Spec

(* No kubectl runs on once the handler has ended, whichever way it ended.    *)
THEOREM NoProcessOutlives == Spec => []NothingOutlives
<1>1. Inv => NothingOutlives
  BY DEF Inv
<1> QED
  BY <1>1, Invariant, PTL

(* An interrupt stops the command for which the user pressed Ctrl-C, however *)
(* late it comes and however many messages were on the way before it.        *)
THEOREM InterruptMeetsItsCommand == Spec => []InterruptHitsItsCommand
<1>1. Inv => InterruptHitsItsCommand
  BY DEF Inv
<1> QED
  BY <1>1, Invariant, PTL

(* No command waits in the queue of the handler while it serves another one, *)
(* so that its loop, which drops what is no interrupt, drops no command.     *)
THEOREM NoCommandDropped == Spec => []NoCommandWhileServing
<1>1. Inv => NoCommandWhileServing
  <2> SUFFICES ASSUME Inv, pc \in {"spawn", "loop", "wait", "reap", "audit"},
                      NEW i \in DOMAIN messages
               PROVE  messages[i].type # "command"
    BY DEF NoCommandWhileServing
  <2>1. i \in DOMAIN Sent /\ messages[i] = Sent[i]
    BY SentIs DEF Inv
  <2>2. NoCommand
    BY DEF Inv, Turn, Serving
  <2> QED
    BY <2>1, <2>2 DEF NoCommand
<1> QED
  BY <1>1, Invariant, PTL

(* A command that was served is audited once and in order, before its exit   *)
(* is shown, unless an exception ended the handler.                          *)
THEOREM ServedCommandsAreAudited == Spec => []ServedIsAudited
<1>1. Inv => ServedIsAudited
  BY DEF Inv, Audits, ServedIsAudited, Serving
<1> QED
  BY <1>1, Invariant, PTL

(* The page shows the first lines of a command's output, in order and        *)
(* without a gap, although lines are dropped when the command is stopped.    *)
THEOREM OutputHasNoGap == Spec => []ShownIsPrefix
<1>1. Inv => ShownIsPrefix
  BY DEF Inv, Lines, ShownIsPrefix
<1> QED
  BY <1>1, Invariant, PTL
=============================================================================
