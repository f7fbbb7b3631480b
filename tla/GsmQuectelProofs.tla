-------------------------- MODULE GsmQuectelProofs --------------------------
(***************************************************************************)
(* Theorems about GsmQuectel, for every number of users, size of the       *)
(* receive buffer, period of the main task and length of the queues.       *)
(*                                                                         *)
(* The inductive invariant says whose command the modem works on: as long *)
(* as no answer went astray, whatever the modem has yet to answer or the   *)
(* process task has yet to read belongs to the task that holds             *)
(* command_lock, and the line that ends a command is its last.             *)
(***************************************************************************)
EXTENDS GsmQuectel, SequenceTheorems, TLAPS

Commands == PlainCommand \cup
    {"NONE", "TEST", "IP_RECV", "GET_REGISTRATION", "DEL_ALL_SMS", "TCPIP_STAT", "START_TCPIP",
     "ACTIVATE_CONTEXT", "GET_IP", "DEACTIVATE_CONTEXT", "CONNECT", "IP_CLOSE", "IP_SEND", "SEND_USSD"}
Places == {"boot", "loop", "reg", "info", "sms", "stat", "switch", "wait", "stopped"}
Calls == {"idle", "connect", "poll", "disconnect", "send", "receive", "ussd", "ussd2"}

Values == Statuses \cup Nat
CallType == [at : {"none", "lock", "reset", "wait"}, cmd : Commands, len : Nat]
SentType == [by : Task \cup {"past"}, cmd : Commands, len : Nat]
LineType == [k : Kinds, v : Values, by : Task \cup {None, "past"}, cmd : Commands]
Lines == {l \in LineType : Parsed(l)}

TaskTypes ==
    /\ main \in [at : Places, todo : Seq(Commands), tries : Nat, cnt : Nat]
    /\ can_run \in BOOLEAN
    /\ user \in [User -> Calls]
    /\ call \in [Task -> CallType]
    /\ ret \in [Task -> BOOLEAN]
    /\ command_lock \in Task \cup {None}
    /\ current_command \in Commands /\ command_response \in {"OK", "ERROR"}
    /\ response_lock \in BOOLEAN /\ astray \in BOOLEAN

ModemTypes ==
    /\ proc \in [run : BOOLEAN, left : Nat, data : Nat, text : BOOLEAN]
    /\ rxdata \in 0 .. RxSize
    /\ registered \in BOOLEAN /\ full \in BOOLEAN
    /\ tcpip_status \in Statuses
    /\ sent \in Seq(SentType)
    /\ line \in Seq(Lines)

TypeOK == TaskTypes /\ ModemTypes

\* The mutex has one holder, and a user that is in no call runs no command.
Locked ==
    /\ \A t \in Task : call[t].at \in {"reset", "wait"} <=> command_lock = t
    /\ \A u \in User : user[u] = "idle" => call[u].at = "none"

-----------------------------------------------------------------------------
\* x, a command that the modem has or a line of an answer, is of the command that is running.
Current(x) ==
    /\ x.by \in Task
    /\ command_lock = x.by
    /\ call[x.by].at \in {"reset", "wait"}
    /\ call[x.by].cmd = x.cmd /\ current_command = x.cmd

Answer(i) == line[i].by # None

\* A line that others of the same answer follow.
Leads(l) ==
    \/ l.k = "OK" /\ l.cmd = "TCPIP_STAT"
    \/ l.k = "CREG" /\ l.cmd = "GET_REGISTRATION"
    \/ l.k = "QIRD" /\ l.cmd = "IP_RECV"

Unanswered ==
    /\ \A i \in DOMAIN sent : Current(sent[i])
    /\ \A i \in DOMAIN line : Answer(i) => Current(line[i])
    /\ \A i, j \in DOMAIN line : Answer(i) /\ Answer(j) /\ i < j => Leads(line[i])
    /\ Len(sent) <= 1
    /\ sent # <<>> => \A i \in DOMAIN line : ~Answer(i)
    /\ \A t \in Task : call[t].at = "wait" /\ response_lock = TRUE =>
          sent = <<>> /\ \A i \in DOMAIN line : ~Answer(i)

\* What has been announced to a waiting task is the answer to its command.
Own ==
    \A t \in Task : call[t].at = "wait" /\ response_lock = TRUE => answered = <<t, call[t].cmd>>

Matched == astray = FALSE => Own /\ (Reading(proc) => Unanswered)

Inv == TypeOK /\ Locked /\ Matched

-----------------------------------------------------------------------------
\* Types

LEMMA Sizes == RxSize \in Nat /\ MaxRead \in Nat /\ Periods \in Nat \ {0}
  BY GsmAssumption

LEMMA TypeInit == Init => TypeOK
<1> SUFFICES ASSUME Init PROVE TypeOK
  OBVIOUS
<1>1. "TEST" \in Commands /\ "NONE" \in Commands
  BY DEF Commands
<1>2. main \in [at : Places, todo : Seq(Commands), tries : Nat, cnt : Nat]
  <2>1. <<"TEST">> \in Seq(Commands)
    BY <1>1
  <2> QED BY <2>1 DEF Init, Places
<1>3. NoCall \in CallType
  BY <1>1 DEF NoCall, CallType
<1>4. TaskTypes
  BY <1>1, <1>2, <1>3 DEF Init, TaskTypes, Calls
<1>5. proc \in [run : BOOLEAN, left : Nat, data : Nat, text : BOOLEAN]
  BY DEF Init
<1>6. rxdata \in 0 .. RxSize
  BY Sizes DEF Init
<1>7. sent \in Seq(SentType) /\ line \in Seq(Lines)
  BY DEF Init
<1>8. ModemTypes
  BY <1>5, <1>6, <1>7 DEF Init, ModemTypes, Statuses
<1> QED BY <1>4, <1>8 DEF TypeOK

LEMMA RunType ==
  ASSUME TypeOK, NEW t \in Task, NEW cmd \in Commands, Run(t, cmd)
  PROVE  call' \in [Task -> CallType] /\ ret' \in [Task -> BOOLEAN]
<1> DEFINE len == IF cmd = "IP_RECV" THEN Min2(RxSize - rxdata, MaxRead) ELSE 0
<1>1. len \in Nat
  BY Sizes DEF TypeOK, ModemTypes, Min2
<1> HIDE DEF len
<1>2. /\ ret' = [ret EXCEPT ![t] = FALSE]
      /\ call' = call \/ call' = [call EXCEPT ![t] = [at |-> "lock", cmd |-> cmd, len |-> len]]
  BY DEF Run, len
<1>3. call \in [Task -> CallType] /\ ret \in [Task -> BOOLEAN]
  BY DEF TypeOK, TaskTypes
<1>4. [at |-> "lock", cmd |-> cmd, len |-> len] \in CallType
  BY <1>1 DEF CallType
<1> QED BY <1>2, <1>3, <1>4

\* Readable drops lines but changes none.
LEMMA ReadableType ==
  ASSUME NEW S, NEW p, NEW q \in Seq(S)
  PROVE  Readable(p, q) \in Seq(S)
  BY DEF Readable

LEMMA TailType ==
  ASSUME NEW S, NEW q \in Seq(S), q # <<>>
  PROVE  Tail(q) \in Seq(S) /\ Head(q) \in S
  OBVIOUS

\* The lines of an answer.
LEMMA AnswerType ==
  ASSUME TypeOK, NEW c \in SentType, NEW a \in Answers(c)
  PROVE  a \in Seq(Lines)
<1> DEFINE L(k, v) == [k |-> k, v |-> v, by |-> c.by, cmd |-> IF c.by = "past" THEN "NONE" ELSE c.cmd]
<1>1. c.by \in Task \cup {"past"} /\ c.cmd \in Commands /\ c.len \in Nat /\ "NONE" \in Commands
  BY DEF SentType, Commands
<1>v. Nat \subseteq Values /\ Statuses \subseteq Values
  BY DEF Values
<1>t. \A k \in Kinds : \A v \in Values : L(k, v) \in LineType
  BY <1>1 DEF LineType
<1>p. \A k \in Kinds : \A v \in Values : Parsed(L(k, v)) => L(k, v) \in Lines
  BY <1>t DEF Lines
<1>2. ASSUME NEW k \in Kinds \ {"STATE"}, NEW n \in Nat PROVE L(k, n) \in Lines
  <2>1. Parsed(L(k, n))
    BY <1>2 DEF Parsed
  <2>2. n \in Values
    BY <1>v
  <2> HIDE DEF L
  <2> QED BY <2>1, <2>2, <1>p
<1>3. ASSUME NEW r \in Statuses PROVE L("STATE", r) \in Lines
  <2>1. Parsed(L("STATE", r))
    BY DEF Parsed, Kinds
  <2>2. r \in Values /\ "STATE" \in Kinds
    BY <1>v DEF Kinds
  <2> HIDE DEF L
  <2> QED BY <2>1, <2>2, <1>p
<1>5. \/ \E r \in Reported : a = <<L("OK", 0), L("STATE", r)>>
      \/ \E k \in {"IP", "SEND OK", "CLOSE OK", "DEACT OK", "OK"} : a = <<L(k, 0)>>
      \/ \E r \in Registration : a = <<L("CREG", r), L("OK", 0)>>
      \/ \E n \in 1 .. c.len : a = <<L("QIRD", n), L("OK", 0)>>
  BY DEF Answers
<1> HIDE DEF L
<1>s. \A x, y \in Lines : <<x>> \in Seq(Lines) /\ <<x, y>> \in Seq(Lines)
  OBVIOUS
<1>o. L("OK", 0) \in Lines
  BY <1>2 DEF Kinds
<1>6. CASE \E r \in Reported : a = <<L("OK", 0), L("STATE", r)>>
  <2>1. PICK r \in Statuses : a = <<L("OK", 0), L("STATE", r)>>
    BY <1>6, GsmAssumption
  <2>2. L("STATE", r) \in Lines
    BY <1>3
  <2> QED BY <1>o, <1>s, <2>1, <2>2
<1>7. CASE \E k \in {"IP", "SEND OK", "CLOSE OK", "DEACT OK", "OK"} : a = <<L(k, 0)>>
  <2>1. PICK k \in {"IP", "SEND OK", "CLOSE OK", "DEACT OK", "OK"} : a = <<L(k, 0)>>
    BY <1>7
  <2>2. k \in Kinds \ {"STATE"} /\ 0 \in Nat
    BY DEF Kinds
  <2>3. L(k, 0) \in Lines
    BY <2>2, <1>2
  <2> QED BY <2>1, <2>3, <1>s
<1>8. CASE \E r \in Registration : a = <<L("CREG", r), L("OK", 0)>>
  <2>1. PICK n \in {0, 1} : a = <<L("CREG", n), L("OK", 0)>>
    BY <1>8, GsmAssumption
  <2>2. n \in Nat /\ "CREG" \in Kinds \ {"STATE"}
    BY DEF Kinds
  <2>3. L("CREG", n) \in Lines
    BY <2>2, <1>2
  <2> QED BY <2>1, <2>3, <1>o, <1>s
<1>9. CASE \E n \in 1 .. c.len : a = <<L("QIRD", n), L("OK", 0)>>
  <2>1. PICK n \in 1 .. c.len : a = <<L("QIRD", n), L("OK", 0)>>
    BY <1>9
  <2>2. n \in Nat /\ "QIRD" \in Kinds \ {"STATE"}
    BY <1>1 DEF Kinds
  <2>3. L("QIRD", n) \in Lines
    BY <2>2, <1>2
  <2> QED BY <2>1, <2>3, <1>o, <1>s
<1> QED BY <1>5, <1>6, <1>7, <1>8, <1>9

\* The places of the main task and the commands it runs there.
LEMMA MainType ==
  ASSUME TypeOK, MainStep
  PROVE  main' \in [at : Places, todo : Seq(Commands), tries : Nat, cnt : Nat]
<1>0. main \in [at : Places, todo : Seq(Commands), tries : Nat, cnt : Nat]
  BY DEF TypeOK, TaskTypes
<1>1. /\ InitCommands \in Seq(Commands) /\ InfoCommands \in Seq(Commands) /\ <<>> \in Seq(Commands)
  BY GsmAssumption DEF Commands
<1>2. \A c \in Commands : <<c>> \in Seq(Commands)
  OBVIOUS
<1>3. \A p \in Places : \A s \in Seq(Commands) : MainGoto(p, s) =>
         main' \in [at : Places, todo : Seq(Commands), tries : Nat, cnt : Nat]
  BY <1>0 DEF MainGoto
<1>4. /\ <<"TEST">> \in Seq(Commands) /\ <<"IP_RECV">> \in Seq(Commands)
      /\ <<"GET_REGISTRATION">> \in Seq(Commands) /\ <<"DEL_ALL_SMS">> \in Seq(Commands)
      /\ <<"TCPIP_STAT">> \in Seq(Commands) /\ StatusCommand \in Seq(Commands)
  <2>1. {"TEST", "IP_RECV", "GET_REGISTRATION", "DEL_ALL_SMS", "TCPIP_STAT", "START_TCPIP",
         "ACTIVATE_CONTEXT", "GET_IP", "DEACTIVATE_CONTEXT"} \subseteq Commands
    BY DEF Commands
  <2>2. StatusCommand \in {<<"START_TCPIP">>, <<"ACTIVATE_CONTEXT">>, <<"GET_IP">>,
                          <<"DEACTIVATE_CONTEXT">>, <<>>}
    BY DEF StatusCommand
  <2> QED BY <1>1, <1>2, <2>1, <2>2
<1>5. CASE MainBoot
  <2>1. MainGoto("loop", InitCommands) \/ main' = [main EXCEPT !.todo = <<"TEST">>, !.tries = @ + 1]
    BY <1>5 DEF MainBoot
  <2>2. "loop" \in Places
    BY DEF Places
  <2>3. CASE MainGoto("loop", InitCommands)
    BY <1>1, <1>3, <2>2, <2>3
  <2>4. CASE main' = [main EXCEPT !.todo = <<"TEST">>, !.tries = @ + 1]
    <3>1. main.tries + 1 \in Nat /\ <<"TEST">> \in Seq(Commands)
      BY <1>0, <1>4
    <3>2. \A s \in Seq(Commands), n \in Nat : [main EXCEPT !.todo = s, !.tries = n] \in
            [at : Places, todo : Seq(Commands), tries : Nat, cnt : Nat]
      BY <1>0
    <3>3. main' = [main EXCEPT !.todo = <<"TEST">>, !.tries = main.tries + 1]
      BY <2>4
    <3> QED BY <3>1, <3>2, <3>3, Zenon
  <2> QED BY <2>1, <2>3, <2>4
<1>6. CASE MainRecv
  BY <1>1, <1>3, <1>4, <1>6 DEF MainRecv, Places
<1>7. CASE MainEnd
  BY <1>1, <1>3, <1>7 DEF MainEnd, Places
<1>8. CASE MainStat
  BY <1>1, <1>3, <1>4, <1>8 DEF MainStat, Places
<1>9. CASE MainSwitch
  BY <1>1, <1>3, <1>4, <1>9 DEF MainSwitch, Places
<1>10. CASE MainWait
  <2>1. (main.cnt + 1) % Periods \in Nat
    BY <1>0, Sizes
  <2> QED BY <1>0, <1>10, <2>1 DEF MainWait, Places
<1>11. ASSUME NEW at \in Places, NEW next \in Places, NEW due, NEW s \in Seq(Commands),
              MainPeriodic(at, next, due, s)
       PROVE  main' \in [at : Places, todo : Seq(Commands), tries : Nat, cnt : Nat]
  BY <1>1, <1>3, <1>11 DEF MainPeriodic
<1>12. {"reg", "info", "sms", "stat"} \subseteq Places
  BY DEF Places
<1> QED BY <1>1, <1>4, <1>5, <1>6, <1>7, <1>8, <1>9, <1>10, <1>11, <1>12 DEF MainStep

\* a is an answer to the command c.
AnswerTo(c, a) ==
    /\ a \in Seq(Lines)
    /\ \A i \in DOMAIN a :
          /\ a[i].by = c.by
          /\ c.by # "past" => a[i].cmd = c.cmd
    /\ c.by # "past" => \A i, j \in DOMAIN a : i < j => Leads(a[i])

LEMMA AnswerShape ==
  ASSUME TypeOK, NEW c \in SentType, NEW a \in Answers(c)
  PROVE  AnswerTo(c, a)
<1> DEFINE L(k, v) == [k |-> k, v |-> v, by |-> c.by, cmd |-> IF c.by = "past" THEN "NONE" ELSE c.cmd]
<1>1. a \in Seq(Lines)
  BY AnswerType
<1>2. \A k, v : L(k, v).by = c.by /\ (c.by # "past" => L(k, v).cmd = c.cmd) /\ L(k, v).k = k
  OBVIOUS
<1>3. \/ c.cmd = "TCPIP_STAT" /\ \E r \in Reported : a = <<L("OK", 0), L("STATE", r)>>
      \/ \E k \in {"IP", "SEND OK", "CLOSE OK", "DEACT OK", "OK"} : a = <<L(k, 0)>>
      \/ c.cmd = "GET_REGISTRATION" /\ \E r \in Registration : a = <<L("CREG", r), L("OK", 0)>>
      \/ c.cmd = "IP_RECV" /\ \E n \in 1 .. c.len : a = <<L("QIRD", n), L("OK", 0)>>
  BY DEF Answers
<1> HIDE DEF L
<1>4. ASSUME NEW x, NEW y, a = <<x, y>>, x.by = c.by, y.by = c.by,
             c.by # "past" => x.cmd = c.cmd /\ y.cmd = c.cmd /\ Leads(x)
      PROVE  AnswerTo(c, a)
  <2>1. DOMAIN a = 1 .. 2 /\ a[1] = x /\ a[2] = y
    BY <1>4
  <2> QED BY <1>1, <1>4, <2>1 DEF AnswerTo, Leads
<1>5. ASSUME NEW x, a = <<x>>, x.by = c.by, c.by # "past" => x.cmd = c.cmd
      PROVE  AnswerTo(c, a)
  <2>1. \A y : DOMAIN <<y>> = 1 .. 1 /\ <<y>>[1] = y
    OBVIOUS
  <2>i. 1 .. 1 = {1}
    OBVIOUS
  <2>2. DOMAIN a = {1} /\ a[1] = x
    BY <1>5, <2>1, <2>i, Zenon
  <2>3. \A i, j \in {1} : ~(i < j)
    OBVIOUS
  <2> QED BY <1>1, <1>5, <2>2, <2>3 DEF AnswerTo
<1>6. CASE c.cmd = "TCPIP_STAT" /\ \E r \in Reported : a = <<L("OK", 0), L("STATE", r)>>
  BY <1>2, <1>4, <1>6 DEF Leads
<1>7. CASE \E k \in {"IP", "SEND OK", "CLOSE OK", "DEACT OK", "OK"} : a = <<L(k, 0)>>
  BY <1>2, <1>5, <1>7
<1>8. CASE c.cmd = "GET_REGISTRATION" /\ \E r \in Registration : a = <<L("CREG", r), L("OK", 0)>>
  BY <1>2, <1>4, <1>8 DEF Leads
<1>9. CASE c.cmd = "IP_RECV" /\ \E n \in 1 .. c.len : a = <<L("QIRD", n), L("OK", 0)>>
  BY <1>2, <1>4, <1>9 DEF Leads
<1> QED BY <1>3, <1>6, <1>7, <1>8, <1>9

LEMMA AnswerLines ==
  ASSUME TypeOK, ModemAnswer
  PROVE  /\ Head(sent) \in SentType /\ sent # <<>>
         /\ \E a : AnswerTo(Head(sent), a) /\ line' = Readable(proc, line \o a)
<1> DEFINE c == Head(sent)
           e == [k |-> "ERROR", v |-> 0, by |-> c.by, cmd |-> IF c.by = "past" THEN "NONE" ELSE c.cmd]
<1>1. line \in Seq(Lines) /\ c \in SentType /\ sent # <<>>
  BY TailType DEF TypeOK, ModemTypes, ModemAnswer
<1>2. e \in Lines
  <2>1. 0 \in Values /\ "ERROR" \in Kinds /\ c.by \in Task \cup {"past"} /\ c.cmd \in Commands /\ "NONE" \in Commands
    BY <1>1 DEF Values, Kinds, SentType, Commands
  <2>2. e \in LineType
    BY <2>1 DEF LineType
  <2>3. Parsed(e)
    BY DEF Parsed, Kinds
  <2> QED BY <2>2, <2>3 DEF Lines
<1>3. \/ \E a \in Answers(c) : line' = Readable(proc, line \o a)
      \/ line' = Readable(proc, Append(line, e))
  BY DEF ModemAnswer
<1>4. e.by = c.by /\ (c.by # "past" => e.cmd = c.cmd)
  OBVIOUS
<1> HIDE DEF e
<1>5. Append(line, e) = line \o <<e>>
  BY <1>1, <1>2
<1>6. AnswerTo(c, <<e>>)
  <2>1. <<e>> \in Seq(Lines) /\ DOMAIN <<e>> = 1 .. 1 /\ <<e>>[1] = e
    BY <1>2
  <2> HIDE DEF c
  <2> QED BY <1>4, <2>1 DEF AnswerTo
<1> HIDE DEF c
<1>7. \E a : AnswerTo(c, a) /\ line' = Readable(proc, line \o a)
  BY <1>1, <1>3, <1>5, <1>6, AnswerShape
<1> QED BY <1>1, <1>7 DEF c

\* Every entry of a queue is changed by itself.
LEMMA MappedType ==
  ASSUME NEW S, NEW q \in Seq(S), NEW r, DOMAIN r = DOMAIN q, r = [i \in DOMAIN q |-> r[i]],
         \A i \in DOMAIN q : r[i] \in S
  PROVE  r \in Seq(S)
<1>1. Len(q) \in Nat /\ DOMAIN q = 1 .. Len(q)
  OBVIOUS
<1>2. r \in [1 .. Len(q) -> S]
  BY <1>1
<1> QED BY <1>1, <1>2, IsASeq

LEMMA DisownType ==
  ASSUME TypeOK, Disown
  PROVE  sent' \in Seq(SentType) /\ line' \in Seq(Lines)
<1>1. sent \in Seq(SentType) /\ line \in Seq(Lines)
  BY DEF TypeOK, ModemTypes
<1>2. \A c \in SentType : [c EXCEPT !.by = "past"] \in SentType
  BY DEF SentType
<1>3. ASSUME NEW l \in Lines PROVE [l EXCEPT !.by = "past", !.cmd = "NONE"] \in Lines
  <2> DEFINE e == [l EXCEPT !.by = "past", !.cmd = "NONE"]
  <2>1. l \in LineType /\ Parsed(l) /\ "NONE" \in Commands
    BY DEF Lines, Commands
  <2>2. e \in LineType /\ e.k = l.k /\ e.v = l.v
    BY <2>1 DEF LineType
  <2>3. Parsed(e)
    BY <2>1, <2>2 DEF Parsed
  <2> QED BY <2>2, <2>3 DEF Lines
<1>4. (\A i \in DOMAIN sent : sent[i] \in SentType) /\ (\A i \in DOMAIN line : line[i] \in Lines)
  BY <1>1
<1>5. sent' \in Seq(SentType)
  <2>1. sent' = [i \in DOMAIN sent |-> [sent[i] EXCEPT !.by = "past"]]
    BY DEF Disown
  <2>2. DOMAIN sent' = DOMAIN sent /\ sent' = [i \in DOMAIN sent |-> sent'[i]]
    BY <2>1
  <2>3. \A i \in DOMAIN sent : sent'[i] \in SentType
    BY <1>2, <1>4, <2>1
  <2> QED BY <1>1, <2>2, <2>3, MappedType
<1>6. line' \in Seq(Lines)
  <2>1. line' = [i \in DOMAIN line |-> IF line[i].by = None THEN line[i]
                                      ELSE [line[i] EXCEPT !.by = "past", !.cmd = "NONE"]]
    BY DEF Disown
  <2>2. DOMAIN line' = DOMAIN line /\ line' = [i \in DOMAIN line |-> line'[i]]
    BY <2>1
  <2>3. \A i \in DOMAIN line : line'[i] \in Lines
    BY <1>3, <1>4, <2>1
  <2> QED BY <1>1, <2>2, <2>3, MappedType
<1> QED BY <1>5, <1>6

\* A message of the modem's own, line by line.
LEMMA UnaskedType ==
  ASSUME NEW m \in Unsolicited
  PROVE  [i \in 1 .. Len(m) |-> Unasked(m[i].k, m[i].v)] \in Seq(Lines)
<1>1. PICK n \in {1, 2} : DOMAIN m = 1 .. n /\ \A i \in 1 .. n : Parsed(m[i])
  BY GsmAssumption
<1>2. ASSUME NEW i \in 1 .. n PROVE Unasked(m[i].k, m[i].v) \in Lines
  <2> DEFINE e == Unasked(m[i].k, m[i].v)
  <2>1. Parsed(m[i])
    BY <1>1
  <2>2. e = [k |-> m[i].k, v |-> m[i].v, by |-> None, cmd |-> "NONE"]
    BY DEF Unasked
  <2>3. m[i].k \in Kinds /\ m[i].v \in Values
    BY <2>1, Zenon DEF Parsed, Values
  <2>4. e \in LineType
    BY <2>2, <2>3 DEF LineType, Commands
  <2>5. e.k = m[i].k /\ e.v = m[i].v
    BY <2>2
  <2> HIDE DEF e
  <2>6. Parsed(e)
    BY <2>1, <2>5 DEF Parsed
  <2> QED BY <2>4, <2>6 DEF Lines, e
<1>3. Len(m) = n
  BY <1>1
<1> DEFINE a == [i \in 1 .. n |-> Unasked(m[i].k, m[i].v)]
<1>4. n \in Nat /\ \A i \in 1 .. n : a[i] \in Lines
  BY <1>2
<1>5. a \in Seq(Lines)
  BY <1>4, IsASeq
<1> QED BY <1>3, <1>5

LEMMA TypeNext == TypeOK /\ [Next]_vars => TypeOK'
<1> SUFFICES ASSUME TypeOK, [Next]_vars PROVE TypeOK'
  OBVIOUS
<1> USE DEF mainVars, respVars, tcpVars, cellVars, modemVars
<1>0. TaskTypes /\ ModemTypes
  BY DEF TypeOK
<1>1. ASSUME NEW t \in Task, CommandWrite(t) PROVE TypeOK'
  <2>1. call[t] \in CallType
    BY <1>0 DEF TaskTypes
  <2>2. TaskTypes'
    BY <1>1, <1>0, <2>1 DEF CommandWrite, TaskTypes, CallType
  <2>3. [by |-> t, cmd |-> call[t].cmd, len |-> call[t].len] \in SentType
    BY <2>1 DEF SentType, CallType
  <2>4. sent' \in Seq(SentType)
    <3>1. sent \in Seq(SentType)
      BY <1>0 DEF ModemTypes
    <3>2. sent' \in {sent, Append(sent, [by |-> t, cmd |-> call[t].cmd, len |-> call[t].len])}
      BY <1>1 DEF CommandWrite
    <3> QED BY <2>3, <3>1, <3>2
  <2> QED BY <1>1, <1>0, <2>2, <2>4 DEF CommandWrite, ModemTypes, TypeOK
<1>2. ASSUME NEW t \in Task, CommandReset(t) PROVE TypeOK'
  <2>1. call[t] \in CallType
    BY <1>0 DEF TaskTypes
  <2>2. TaskTypes'
    BY <1>2, <1>0, <2>1 DEF CommandReset, TaskTypes, CallType
  <2> QED BY <1>2, <1>0, <2>2 DEF CommandReset, ModemTypes, TypeOK
<1>n. NoCall \in CallType
  BY DEF NoCall, CallType, Commands
<1>3. ASSUME NEW t \in Task, CommandAnswered(t) PROVE TypeOK'
  <2>1. sent' \in Seq(SentType) /\ line' \in Seq(Lines)
    BY <1>3, DisownType DEF CommandAnswered
  <2>2. TaskTypes'
    BY <1>3, <1>0, <1>n DEF CommandAnswered, TaskTypes
  <2> QED BY <1>3, <1>0, <2>1, <2>2 DEF CommandAnswered, ModemTypes, TypeOK
<1>4. ASSUME NEW t \in Task, CommandTimeout(t) PROVE TypeOK'
  <2>1. sent' \in Seq(SentType) /\ line' \in Seq(Lines)
    BY <1>4, DisownType DEF CommandTimeout
  <2>2. astray' \in BOOLEAN
    BY <1>4, <1>0 DEF CommandTimeout, TaskTypes
  <2>3. TaskTypes'
    BY <1>4, <1>0, <1>n, <2>2 DEF CommandTimeout, TaskTypes, Released
  <2> QED BY <1>4, <1>0, <2>1, <2>3 DEF CommandTimeout, ModemTypes, TypeOK
<1>5. ASSUME ProcessLine PROVE TypeOK'
  <2> DEFINE l == Head(line)
  <2>1. l \in Lines /\ Tail(line) \in Seq(Lines)
    BY <1>5, <1>0, TailType DEF ProcessLine, ModemTypes
  <2>2. line' \in Seq(Lines)
    BY <1>5, <2>1, ReadableType DEF ProcessLine
  <2> HIDE DEF l
  <2>3. l \in LineType /\ Parsed(l)
    BY <2>1 DEF Lines
  <2>4. ProcessAnswer(l) \/ ProcessOther(l)
    BY <1>5 DEF ProcessLine, l
  <2>5. UNCHANGED <<main, can_run, user, call, ret, command_lock, rxdata, sent>>
    BY <1>5 DEF ProcessLine
  <2>6. CASE ProcessAnswer(l)
    <3>1. /\ current_command' \in {current_command, "NONE"}
          /\ command_response' \in {command_response, "OK", "ERROR"}
          /\ response_lock' \in BOOLEAN /\ astray' \in BOOLEAN
      BY <2>6, <1>0 DEF ProcessAnswer, Respond, TaskTypes
    <3>2. tcpip_status' \in Statuses
      BY <2>6, <2>3, <1>0 DEF ProcessAnswer, ModemTypes, Parsed
    <3>3. proc' \in [run : BOOLEAN, left : Nat, data : Nat, text : BOOLEAN]
      BY <2>6, <1>0 DEF ProcessAnswer, ModemTypes, TaskTypes
    <3>4. TaskTypes'
      BY <3>1, <2>5, <1>0 DEF TaskTypes, Commands
    <3> QED BY <2>6, <3>2, <3>3, <3>4, <2>2, <2>5, <1>0 DEF ProcessAnswer, ModemTypes, TypeOK
  <2>7. CASE ProcessOther(l)
    <3>1. UNCHANGED <<current_command, command_response, response_lock, astray, tcpip_status>>
      BY <2>7 DEF ProcessOther
    <3>2. registered' \in BOOLEAN /\ full' \in BOOLEAN
      BY <2>7, <1>0 DEF ProcessOther, ModemTypes
    <3>3. proc' \in [run : BOOLEAN, left : Nat, data : Nat, text : BOOLEAN]
      BY <2>7, <2>3, <1>0 DEF ProcessOther, ModemTypes, TaskTypes, Parsed
    <3> QED BY <3>1, <3>2, <3>3, <2>2, <2>5, <1>0 DEF TaskTypes, ModemTypes, TypeOK
  <2> QED BY <2>4, <2>6, <2>7
<1>6. ASSUME ProcessData PROVE TypeOK'
  <2> DEFINE room == RxSize - rxdata
             r == Min2(Min2(proc.left, MaxRead), proc.data)
  <2>0. /\ rxdata \in 0 .. RxSize /\ proc.left \in Nat /\ proc.data \in Nat /\ proc.run \in BOOLEAN
        /\ RxSize \in Nat /\ MaxRead \in Nat /\ can_run \in BOOLEAN
    BY <1>0, Sizes DEF ModemTypes, TaskTypes
  <2>1. room \in Nat /\ r \in Nat /\ r <= proc.left /\ r <= proc.data /\ Min2(r, room) \in Nat
        /\ Min2(r, room) <= room /\ Min2(r, room) <= proc.left
    BY <2>0 DEF Min2
  <2> DEFINE Read(n, w) ==
               /\ proc' = [proc EXCEPT !.run = @ /\ can_run, !.left = @ - w, !.data = @ - n]
               /\ rxdata' = rxdata + w
  <2>2. \/ r > 0 /\ Read(r, Min2(r, room)) /\ line' = Readable(proc', line)
        \/ /\ r = 0 /\ line # <<>>
           /\ \E w \in 0 .. Min2(proc.left, room) : Read(0, w)
           /\ line' = Readable(proc', Tail(line))
    BY <1>6, Zenon DEF ProcessData
  <2> HIDE DEF Read, r
  <2>3. line' \in Seq(Lines)
    <3>1. line \in Seq(Lines) /\ (line # <<>> => Tail(line) \in Seq(Lines))
      BY <1>0, TailType DEF ModemTypes
    <3> QED BY <2>2, <3>1, ReadableType
  <2>4. \E n \in Nat, w \in Nat : n <= proc.data /\ w <= proc.left /\ w <= room /\ Read(n, w)
    <3>1. CASE r > 0 /\ Read(r, Min2(r, room))
      BY <2>1, <3>1
    <3>2. CASE \E w \in 0 .. Min2(proc.left, room) : Read(0, w)
      <4>1. PICK w \in 0 .. Min2(proc.left, room) : Read(0, w)
        BY <3>2
      <4>2. w \in Nat /\ w <= proc.left /\ w <= room /\ 0 <= proc.data
        BY <2>0, <2>1 DEF Min2
      <4> QED BY <4>1, <4>2
    <3> QED BY <2>2, <3>1, <3>2
  <2>5. PICK n \in Nat, w \in Nat : n <= proc.data /\ w <= proc.left /\ w <= room /\ Read(n, w)
    BY <2>4
  <2>6. proc.left - w \in Nat /\ proc.data - n \in Nat /\ rxdata + w \in 0 .. RxSize
    BY <2>0, <2>1, <2>5
  <2>7. proc' \in [run : BOOLEAN, left : Nat, data : Nat, text : BOOLEAN] /\ rxdata' \in 0 .. RxSize
    BY <2>5, <2>6, <1>0 DEF ModemTypes, Read
  <2>8. UNCHANGED <<main, can_run, user, call, ret, command_lock, current_command, command_response,
                    response_lock, astray, registered, full, tcpip_status, sent>>
    BY <1>6 DEF ProcessData
  <2> QED BY <2>3, <2>7, <2>8, <1>0 DEF TypeOK, TaskTypes, ModemTypes
<1>7. ASSUME MainCommand PROVE TypeOK'
  <2>1. main.todo \in Seq(Commands) /\ "main" \in Task
    BY <1>0 DEF TaskTypes, Task
  <2>2. Head(main.todo) \in Commands /\ Tail(main.todo) \in Seq(Commands)
    BY <1>7, <2>1, TailType DEF MainCommand
  <2>3. call' \in [Task -> CallType] /\ ret' \in [Task -> BOOLEAN]
    BY <1>7, <2>1, <2>2, RunType DEF MainCommand
  <2>4. main' \in [at : Places, todo : Seq(Commands), tries : Nat, cnt : Nat]
    BY <1>7, <1>0, <2>2 DEF MainCommand, TaskTypes
  <2>5. TaskTypes'
    BY <1>7, <1>0, <2>3, <2>4 DEF MainCommand, TaskTypes
  <2> QED BY <1>7, <1>0, <2>5 DEF MainCommand, ModemTypes, TypeOK
<1>8. ASSUME MainStep PROVE TypeOK'
  <2>1. main' \in [at : Places, todo : Seq(Commands), tries : Nat, cnt : Nat]
    BY <1>8, MainType
  <2>2. can_run' \in BOOLEAN
    BY <1>8, <1>0 DEF MainStep, MainBoot, MainRecv, MainEnd, MainStat, MainSwitch, MainWait, MainPeriodic,
                      TaskTypes
  <2>3. ret' \in [Task -> BOOLEAN]
    BY <1>8, <1>0 DEF MainStep, TaskTypes
  <2>4. UNCHANGED <<user, call, command_lock, current_command, command_response, response_lock,
                    astray, proc, rxdata, registered, full, tcpip_status, sent, line>>
    BY <1>8 DEF MainStep
  <2> QED BY <2>1, <2>2, <2>3, <2>4, <1>0 DEF TypeOK, TaskTypes, ModemTypes
<1>9. ASSUME NEW u \in User, UserStep(u) PROVE TypeOK'
  <2>1. UNCHANGED <<main, can_run, command_lock, current_command, command_response, response_lock,
                    astray, proc, registered, full, tcpip_status, sent, line>>
    BY <1>9 DEF UserStep
  <2>2. u \in Task
    BY DEF Task
  <2>3. user' \in [User -> Calls]
    BY <1>9, <1>0 DEF UserStep, TaskTypes, socket_connect, socket_disconnect, socket_send, socket_receive,
       run_ussd, UserCall, create_client_socket, release_client_socket, UserReturn, UserGoto, Calls
  <2>4. \/ call' = call /\ ret' \in {ret, [ret EXCEPT ![u] = FALSE]}
        \/ \E cmd \in {"CONNECT", "IP_CLOSE", "IP_SEND", "IP_RECV", "SET_CHARACTER_SET", "SEND_USSD"} : Run(u, cmd)
    BY <1>9 DEF UserStep, socket_connect, socket_disconnect, socket_send, socket_receive,
       run_ussd, UserCall, create_client_socket, release_client_socket, UserReturn, UserGoto
  <2>5. call' \in [Task -> CallType] /\ ret' \in [Task -> BOOLEAN]
    <3>1. {"CONNECT", "IP_CLOSE", "IP_SEND", "IP_RECV", "SET_CHARACTER_SET", "SEND_USSD"} \subseteq Commands
      BY DEF Commands, PlainCommand
    <3> QED BY <3>1, <2>2, <2>4, <1>0, RunType DEF TaskTypes
  <2>6. rxdata' \in 0 .. RxSize
    BY <1>9, <1>0, Sizes DEF UserStep, ModemTypes, socket_connect, socket_disconnect, socket_send, socket_receive,
       run_ussd, UserCall, create_client_socket, release_client_socket, UserReturn
  <2> QED BY <2>1, <2>3, <2>5, <2>6, <1>0 DEF TypeOK, TaskTypes, ModemTypes
<1>10. ASSUME ModemAnswer PROVE TypeOK'
  <2>1. sent \in Seq(SentType) /\ line \in Seq(Lines) /\ sent # <<>>
    BY <1>10, <1>0 DEF ModemAnswer, ModemTypes
  <2>2. Tail(sent) \in Seq(SentType)
    BY <2>1, TailType
  <2>3. line' \in Seq(Lines)
    <3>1. PICK a : a \in Seq(Lines) /\ line' = Readable(proc, line \o a)
      BY <1>10, AnswerLines DEF AnswerTo
    <3>2. line \o a \in Seq(Lines)
      BY <2>1, <3>1
    <3> QED BY <3>1, <3>2, ReadableType
  <2>4. TaskTypes'
    BY <1>10, <1>0 DEF ModemAnswer, TaskTypes
  <2> QED BY <1>10, <1>0, <2>2, <2>3, <2>4 DEF ModemAnswer, ModemTypes, TypeOK
<1>11. ASSUME ModemUrc PROVE TypeOK'
  <2>1. PICK m \in Unsolicited : line' = line \o [i \in 1 .. Len(m) |-> Unasked(m[i].k, m[i].v)]
    BY <1>11 DEF ModemUrc
  <2>2. line \in Seq(Lines)
    BY <1>0 DEF ModemTypes
  <2>3. line' \in Seq(Lines)
    <3> DEFINE a == [i \in 1 .. Len(m) |-> Unasked(m[i].k, m[i].v)]
    <3>1. a \in Seq(Lines)
      BY UnaskedType
    <3>2. line' = line \o a
      BY <2>1
    <3> HIDE DEF a
    <3> QED BY <2>2, <3>1, <3>2
  <2>4. TaskTypes'
    BY <1>11, <1>0 DEF ModemUrc, TaskTypes
  <2> QED BY <1>11, <1>0, <2>3, <2>4 DEF ModemUrc, ModemTypes, TypeOK
<1>12. ASSUME ModemReady PROVE TypeOK'
  <2>1. Unasked("CFUN", 0) \in Lines
    BY DEF Unasked, Lines, LineType, Parsed, Kinds, Values, Commands
  <2>2. line' \in Seq(Lines)
    BY <1>12, <1>0, <2>1 DEF ModemReady, ModemTypes
  <2>3. TaskTypes'
    BY <1>12, <1>0 DEF ModemReady, TaskTypes
  <2> QED BY <1>12, <1>0, <2>2, <2>3 DEF ModemReady, ModemTypes, TypeOK
<1>14. ASSUME ProcessText PROVE TypeOK'
  <2>1. Tail(line) \in Seq(Lines)
    BY <1>14, <1>0, TailType DEF ProcessText, ModemTypes
  <2>2. line' \in Seq(Lines)
    BY <1>14, <2>1, ReadableType DEF ProcessText
  <2>3. proc' \in [run : BOOLEAN, left : Nat, data : Nat, text : BOOLEAN]
    <3>1. (proc.run /\ can_run /\ Head(line).k # "RESET") \in BOOLEAN
      OBVIOUS
    <3>2. \A b \in BOOLEAN : [proc EXCEPT !.run = b, !.text = FALSE] \in
                [run : BOOLEAN, left : Nat, data : Nat, text : BOOLEAN]
      BY <1>0 DEF ModemTypes
    <3>3. proc' = [proc EXCEPT !.run = proc.run /\ can_run /\ Head(line).k # "RESET", !.text = FALSE]
      BY <1>14 DEF ProcessText
    <3> QED BY <3>1, <3>2, <3>3, Zenon
  <2>4. TaskTypes'
    BY <1>14, <1>0 DEF ProcessText, TaskTypes
  <2> QED BY <1>14, <1>0, <2>2, <2>3, <2>4 DEF ProcessText, ModemTypes, TypeOK
<1>13. ASSUME UNCHANGED vars PROVE TypeOK'
  BY <1>13, <1>0 DEF vars, TypeOK, TaskTypes, ModemTypes
<1> QED BY <1>1, <1>2, <1>3, <1>4, <1>5, <1>6, <1>7, <1>8, <1>9, <1>10, <1>11, <1>12, <1>13, <1>14
           DEF Next, CommandStep

-----------------------------------------------------------------------------
\* The lock

LEMMA LockedNext == TypeOK /\ Locked /\ [Next]_vars => Locked'
<1> SUFFICES ASSUME TypeOK, Locked, [Next]_vars PROVE Locked'
  OBVIOUS
<1> USE DEF mainVars, respVars, tcpVars, cellVars, modemVars
<1>0. /\ call \in [Task -> CallType] /\ user \in [User -> Calls] /\ command_lock \in Task \cup {None}
      /\ None \notin Task /\ User \subseteq Task /\ "main" \in Task /\ "main" \notin User
  BY GsmAssumption DEF TypeOK, TaskTypes, Task
<1>1. ASSUME NEW t \in Task, CommandWrite(t) PROVE Locked'
  BY <1>0, <1>1 DEF CommandWrite, LockFree, Locked, CallType
<1>2. ASSUME NEW t \in Task, CommandReset(t) PROVE Locked'
  BY <1>0, <1>2 DEF CommandReset, Locked, CallType
<1>3. ASSUME NEW t \in Task, CommandAnswered(t) \/ CommandTimeout(t) PROVE Locked'
  <2>1. /\ call[t].at = "wait" /\ command_lock' = None /\ UNCHANGED user
        /\ call' = [call EXCEPT ![t] = NoCall] /\ NoCall.at = "none"
    BY <1>3 DEF CommandAnswered, CommandTimeout, Released, NoCall
  <2>2. \A x \in Task : call'[x] = IF x = t THEN NoCall ELSE call[x]
    BY <1>0, <2>1
  <2> QED BY <1>0, <2>1, <2>2 DEF Locked
<1>r. ASSUME NEW t \in Task, NEW cmd, Run(t, cmd), call[t].at = "none", UNCHANGED command_lock
      PROVE  /\ \A x \in Task : call'[x].at \in {"reset", "wait"} <=> command_lock' = x
             /\ \A x \in Task : x # t => call'[x] = call[x]
  BY <1>0, <1>r DEF Run, Locked
<1>4. ASSUME MainCommand PROVE Locked'
  <2>1. Run("main", Head(main.todo)) /\ call["main"].at = "none" /\ UNCHANGED <<command_lock, user>>
    BY <1>4 DEF MainCommand
  <2> QED BY <1>0, <1>r, <2>1 DEF Locked
<1>5. ASSUME NEW u \in User, UserStep(u) PROVE Locked'
  <2>1. /\ UNCHANGED command_lock
        /\ \/ call' = call /\ (user' = user \/ (call[u].at = "none" /\ \E op : user' = [user EXCEPT ![u] = op]))
           \/ \E cmd, op : /\ Run(u, cmd) /\ user' = [user EXCEPT ![u] = op] /\ op # "idle"
                           /\ user[u] = "idle" \/ call[u].at = "none"
    BY <1>5 DEF UserStep, socket_connect, socket_disconnect, socket_send, socket_receive,
       run_ussd, UserCall, create_client_socket, release_client_socket, UserReturn, UserGoto
  <2>2. CASE call' = call /\ (user' = user \/ (call[u].at = "none" /\ \E op : user' = [user EXCEPT ![u] = op]))
    BY <1>0, <2>1, <2>2 DEF Locked
  <2>3. ASSUME NEW cmd, NEW op, Run(u, cmd), user' = [user EXCEPT ![u] = op], op # "idle",
               user[u] = "idle" \/ call[u].at = "none"
        PROVE  Locked'
    <3>1. u \in Task /\ call[u].at = "none"
      BY <1>0, <2>3 DEF Locked
    <3> QED BY <1>0, <1>r, <2>1, <2>3, <3>1 DEF Locked
  <2> QED BY <2>1, <2>2, <2>3
<1>6. ASSUME UNCHANGED <<call, user, command_lock>> PROVE Locked'
  BY <1>6 DEF Locked
<1> QED BY <1>1, <1>2, <1>3, <1>4, <1>5, <1>6
           DEF Next, CommandStep, ProcessLine, ProcessText, ProcessData, MainStep, ModemAnswer, ModemReady,
               ModemUrc, vars

-----------------------------------------------------------------------------
\* The lines that are left to read

\* The process task takes lines from the front: line'[i] was at place i + d.
Kept(d) == \A i \in DOMAIN line' : i + d \in DOMAIN line /\ line'[i] = line[i + d]

LEMMA KeptLines ==
  ASSUME TypeOK, NEW p,
         \/ line' = Readable(p, line)
         \/ line # <<>> /\ line' = Readable(p, Tail(line))
  PROVE  \E d \in {0, 1} : Kept(d)
<1>1. line \in Seq(Lines)
  BY DEF TypeOK, ModemTypes
<1>2. CASE line' = <<>>
  BY <1>2 DEF Kept
<1>3. CASE line' = line
  <2>1. \A i \in DOMAIN line : i + 0 = i
    BY <1>1
  <2> QED BY <1>3, <2>1 DEF Kept
<1>4. CASE line # <<>> /\ line' = Tail(line)
  <2>1. \A i \in DOMAIN Tail(line) : i + 1 \in DOMAIN line /\ Tail(line)[i] = line[i + 1]
    BY <1>1, <1>4
  <2> QED BY <1>4, <2>1 DEF Kept
<1> QED BY <1>2, <1>3, <1>4 DEF Readable

\* Of the line that it processes nothing is left.
LEMMA TakenLine ==
  ASSUME TypeOK, NEW p, line # <<>>, line' = Readable(p, Tail(line))
  PROVE  Kept(1) /\ 1 \in DOMAIN line /\ Head(line) = line[1] /\ \A i \in DOMAIN line' : 1 < i + 1
<1>1. line \in Seq(Lines)
  BY DEF TypeOK, ModemTypes
<1>2. 1 \in DOMAIN line /\ Head(line) = line[1]
  BY <1>1
<1>3. Tail(line) \in Seq(Lines)
  BY <1>1, TailType
<1>4. \A i \in DOMAIN Tail(line) : i + 1 \in DOMAIN line /\ Tail(line)[i] = line[i + 1] /\ 1 < i + 1
  BY <1>1, <1>3
<1>5. CASE line' = <<>>
  BY <1>2, <1>5 DEF Kept
<1>6. CASE line' = Tail(line)
  BY <1>2, <1>4, <1>6 DEF Kept
<1> QED BY <1>5, <1>6 DEF Readable

\* What the modem says comes last.
LEMMA AddedLines ==
  ASSUME TypeOK, NEW p, NEW a \in Seq(Lines), line' = Readable(p, line \o a)
  PROVE  \A i \in DOMAIN line' :
           \/ i \in DOMAIN line /\ line'[i] = line[i]
           \/ /\ i - Len(line) \in DOMAIN a /\ line'[i] = a[i - Len(line)]
              /\ \A j \in DOMAIN line : j < i
<1>1. line \in Seq(Lines)
  BY DEF TypeOK, ModemTypes
<1>2. CASE line' = <<>>
  BY <1>2
<1>3. CASE line' = line \o a
  BY <1>1, <1>3
<1> QED BY <1>2, <1>3 DEF Readable

LEMMA ProcessLines ==
  ASSUME TypeOK, ProcessLine \/ ProcessText \/ ProcessData
  PROVE  \E d \in {0, 1} : Kept(d)
<1>1. \/ line' = Readable(proc', line)
      \/ line # <<>> /\ line' = Readable(proc', Tail(line))
  BY DEF ProcessLine, ProcessText, ProcessData
<1> QED BY <1>1, KeptLines

-----------------------------------------------------------------------------
\* Whose answers the modem gives

Silent == sent = <<>> /\ \A i \in DOMAIN line : ~Answer(i)

\* A step that leaves the commands that run alone and takes lines from the front at most.
LEMMA UnansweredKept ==
  ASSUME TypeOK, Unanswered,
         UNCHANGED <<sent, command_lock, current_command, response_lock>>,
         \E d \in {0, 1} : Kept(d),
         \A t \in Task : call'[t] = call[t] \/ (call[t].at = "none" /\ call'[t].at = "lock"),
         TypeOK'
  PROVE  Unanswered'
<1>1. PICK d \in {0, 1} : Kept(d)
  OBVIOUS
<1>2. \A i \in DOMAIN line' : Answer(i)' => Answer(i + d)
  BY <1>1 DEF Kept, Answer
<1>t. line' \in Seq(Lines) /\ line \in Seq(Lines) /\ sent \in Seq(SentType)
  BY DEF TypeOK, ModemTypes
<1>3. \A i, j \in DOMAIN line' : i < j => i + d < j + d
  BY <1>t
<1>4. ASSUME NEW x, x.by \in Task, Current(x) PROVE Current(x)'
  BY <1>4 DEF Current
<1>5. \A i \in DOMAIN sent : sent[i].by \in Task
  BY DEF Unanswered, Current
<1>6. \A i \in DOMAIN line : Answer(i) => line[i].by \in Task
  BY DEF Unanswered, Current
<1>7. \A i \in DOMAIN sent' : Current(sent[i])'
  BY <1>4, <1>5 DEF Unanswered
<1>8. ASSUME NEW i \in DOMAIN line', Answer(i)' PROVE Current(line[i])'
  <2>1. i + d \in DOMAIN line /\ line'[i] = line[i + d] /\ Answer(i + d)
    BY <1>1, <1>2, <1>8 DEF Kept
  <2>2. Current(line[i + d]) /\ line[i + d].by \in Task
    BY <1>6, <2>1 DEF Unanswered
  <2> QED BY <2>1, <2>2 DEF Current
<1>9. ASSUME NEW i \in DOMAIN line', NEW j \in DOMAIN line', Answer(i)', Answer(j)', i < j
      PROVE  Leads(line'[i])
  BY <1>1, <1>2, <1>3, <1>9 DEF Kept, Unanswered
<1>10. sent' # <<>> => \A i \in DOMAIN line' : ~Answer(i)'
  BY <1>1, <1>2 DEF Kept, Unanswered
<1>11. ASSUME NEW t \in Task, call'[t].at = "wait", response_lock' = TRUE
       PROVE  sent' = <<>> /\ \A i \in DOMAIN line' : ~Answer(i)'
  <2>1. call[t].at = "wait" /\ response_lock = TRUE
    BY <1>11
  <2> QED BY <1>1, <1>2, <2>1 DEF Kept, Unanswered
<1> QED BY <1>7, <1>8, <1>9, <1>10, <1>11 DEF Unanswered

\* The process task announces only what answers the command that runs, and then nothing of that
\* answer is left (OK does not end AT+QISTAT, and a short line meets AT+QILOCIP only in its answer),
\* or a line that answers nothing.
LEMMA RespondsLast ==
  ASSUME TypeOK, Unanswered, ProcessLine, astray' = FALSE
  PROVE  \/ UNCHANGED <<current_command, response_lock, answered>>
         \/ /\ answered' = <<line[1].by, line[1].cmd>>
            /\ 1 \in DOMAIN line /\ Current(line[1])
            /\ sent = <<>> /\ \A j \in DOMAIN line : 1 < j => ~Answer(j)
<1> DEFINE l == Head(line)
<1>1. ProcessAnswer(l) \/ ProcessOther(l)
  BY DEF ProcessLine
<1>2. CASE ProcessOther(l)
  BY <1>2 DEF ProcessOther, respVars
<1>3. CASE ProcessAnswer(l) /\ UNCHANGED <<current_command, response_lock, answered>>
  BY <1>3
<1>4. CASE ProcessAnswer(l) /\ ~UNCHANGED <<current_command, response_lock, answered>>
  <2>1. 1 \in DOMAIN line /\ l = line[1]
    BY DEF ProcessLine, TypeOK, ModemTypes
  <2> HIDE DEF l
  <2>2. /\ answered' = <<l.by, l.cmd>> /\ astray' = (astray \/ l.by = None)
        /\ \/ l.k = "OK" /\ current_command # "TCPIP_STAT"
           \/ l.k = "ERROR"
           \/ l.k \in {"SEND OK", "CLOSE OK", "DEACT OK", "STATE"}
           \/ current_command = "GET_IP" /\ Short(l)
    BY <1>4 DEF ProcessAnswer, Respond, IgnoresOk, OwnLine, respVars
  <2>3. Answer(1)
    BY <2>1, <2>2 DEF Answer
  <2>4. Current(line[1]) /\ sent = <<>>
    BY <2>1, <2>3 DEF Unanswered
  <2>6. ~Leads(l)
    <3>1. current_command = l.cmd
      BY <2>1, <2>4 DEF Current
    <3> QED BY <2>2, <3>1 DEF Leads, Short
  <2>7. ASSUME NEW j \in DOMAIN line, 1 < j PROVE ~Answer(j)
    BY <2>1, <2>3, <2>6, <2>7 DEF Unanswered
  <2> QED BY <2>1, <2>2, <2>4, <2>7
<1> QED BY <1>1, <1>2, <1>3, <1>4

LEMMA MatchedNext == Inv /\ [Next]_vars => Matched'
<1> SUFFICES ASSUME Inv, [Next]_vars, astray' = FALSE
             PROVE  Own' /\ (Reading(proc)' => Unanswered')
  BY DEF Matched
<1> USE DEF mainVars, respVars, tcpVars, cellVars, modemVars
<1>0. TypeOK /\ Locked /\ (astray = FALSE => Own /\ (Reading(proc) => Unanswered))
  BY DEF Inv, Matched
<1>s. astray \in BOOLEAN
  BY <1>0 DEF TypeOK, TaskTypes
<1>t. TypeOK'
  BY <1>0, TypeNext
<1>a. /\ call \in [Task -> CallType] /\ sent \in Seq(SentType) /\ line \in Seq(Lines)
      /\ User \subseteq Task /\ "main" \in Task /\ None \notin Task /\ response_lock \in BOOLEAN
      /\ "past" \notin Task
  BY <1>0, GsmAssumption DEF TypeOK, TaskTypes, ModemTypes, Task
\* Steps that only take up a command to run.
<1>k. ASSUME UNCHANGED <<sent, line, command_lock, current_command, response_lock, answered, astray, proc>>,
             \A t \in Task : call'[t] = call[t] \/ (call[t].at = "none" /\ call'[t].at = "lock")
      PROVE  Own' /\ (Reading(proc)' => Unanswered')
  <2>1. Own'
    BY <1>0, <1>k DEF Own
  <2>2. Kept(0)
    <3>1. \A i \in DOMAIN line : i + 0 = i
      BY <1>a
    <3> QED BY <1>k, <3>1 DEF Kept
  <2>3. Reading(proc)' => Reading(proc)
    BY <1>k DEF Reading
  <2> QED BY <1>0, <1>k, <1>t, <2>1, <2>2, <2>3, UnansweredKept
<1>1. ASSUME NEW t \in Task, CommandWrite(t) PROVE Own' /\ (Reading(proc)' => Unanswered')
  <2>1. /\ command_lock = None /\ command_lock' = t /\ current_command' = call[t].cmd
        /\ call' = [call EXCEPT ![t].at = "reset"] /\ UNCHANGED <<line, proc>>
    BY <1>1 DEF CommandWrite, LockFree
  <2>2. \A x \in Task : call[x].at # "wait" /\ call'[x].at # "wait"
    BY <1>0, <1>a, <2>1 DEF Locked, CallType
  <2>3. call'[t].at = "reset" /\ call'[t].cmd = call[t].cmd
    BY <1>a, <2>1 DEF CallType
  <2>4. Own'
    BY <2>2 DEF Own
  <2>5. ASSUME Silent PROVE Unanswered'
    <3>1. \A i \in DOMAIN line' : ~Answer(i)'
      BY <2>1, <2>5 DEF Silent, Answer
    <3>3. sent = <<>>
      BY <2>5 DEF Silent
    <3> DEFINE c == [by |-> t, cmd |-> call[t].cmd, len |-> call[t].len]
    <3>4. c.by = t /\ c.cmd = call[t].cmd
      OBVIOUS
    <3>5. sent' = <<>> \/ sent' = Append(<<>>, c)
      BY <1>1, <3>3 DEF CommandWrite
    <3> HIDE DEF c
    <3>6. Len(sent') <= 1 /\ \A i \in DOMAIN sent' : sent'[i] = c
      BY <3>5
    <3>7. \A i \in DOMAIN sent' : Current(sent[i])'
      BY <2>1, <2>3, <3>4, <3>6 DEF Current
    <3> QED BY <2>2, <3>1, <3>6, <3>7 DEF Unanswered
  <2>6. Reading(proc)' => Reading(proc)
    BY <2>1 DEF Reading
  <2>7. ASSUME Reading(proc) PROVE Silent
    <3>1. CASE astray = FALSE
      <4>1. Unanswered
        BY <1>0, <2>7, <3>1
      <4>2. (\A i \in DOMAIN line : ~Answer(i)) /\ \A i \in DOMAIN sent : FALSE
        BY <1>a, <2>1, <4>1 DEF Unanswered, Current
      <4>3. sent # <<>> => 1 \in DOMAIN sent
        BY <1>a
      <4> QED BY <4>2, <4>3 DEF Silent
    <3>2. CASE ~Outstanding
      BY <3>2 DEF Outstanding, Silent, Answer
    <3> QED BY <1>1, <1>s, <3>1, <3>2 DEF CommandWrite
  <2> QED BY <2>4, <2>5, <2>6, <2>7
<1>2. ASSUME NEW t \in Task, CommandReset(t) PROVE Own' /\ (Reading(proc)' => Unanswered')
  <2>1. /\ response_lock' = FALSE /\ call' = [call EXCEPT ![t].at = "wait"] /\ call[t].at = "reset"
        /\ UNCHANGED <<command_lock, current_command, sent, line, proc, astray>>
    BY <1>2 DEF CommandReset
  <2>2. Own'
    BY <2>1 DEF Own
  <2>3. \A x \in Task : call'[x].cmd = call[x].cmd /\ (call[x].at \in {"reset", "wait"} => call'[x].at \in {"reset", "wait"})
    BY <1>a, <2>1 DEF CallType
  <2>4. ASSUME Unanswered PROVE Unanswered'
    <3>1. \A i \in DOMAIN sent' : Current(sent[i])'
      BY <2>1, <2>3, <2>4 DEF Unanswered, Current
    <3>2. \A i \in DOMAIN line' : Answer(i)' => Current(line[i])'
      BY <2>1, <2>3, <2>4 DEF Unanswered, Current, Answer
    <3> QED BY <2>1, <2>4, <3>1, <3>2 DEF Unanswered, Answer
  <2>5. Reading(proc)' => Reading(proc)
    BY <2>1 DEF Reading
  <2>6. astray = FALSE
    BY <2>1
  <2> QED BY <1>0, <2>2, <2>4, <2>5, <2>6
<1>3. ASSUME NEW t \in Task, CommandAnswered(t) \/ CommandTimeout(t)
      PROVE  Own' /\ (Reading(proc)' => Unanswered')
  <2>1. response_lock' = FALSE /\ UNCHANGED proc
    BY <1>3, <1>a DEF CommandAnswered, CommandTimeout
  <2>2. Own'
    BY <2>1 DEF Own
  <2>3. ASSUME Reading(proc) PROVE Silent
    <3>1. CASE CommandAnswered(t)
      <4>1. Unanswered
        BY <1>0, <2>3, <3>1 DEF CommandAnswered
      <4> QED BY <1>a, <3>1, <4>1 DEF CommandAnswered, Unanswered, Silent
    <3>2. CASE CommandTimeout(t)
      <4>1. ~Outstanding
        BY <3>2 DEF CommandTimeout
      <4> QED BY <4>1 DEF Outstanding, Silent, Answer
    <3> QED BY <1>3, <3>1, <3>2
  <2>4. ASSUME Silent PROVE Unanswered'
    <3>1. Disown
      BY <1>3 DEF CommandAnswered, CommandTimeout
    <3>2. sent' = <<>>
      <4>1. sent' = [i \in DOMAIN sent |-> [sent[i] EXCEPT !.by = "past"]] /\ sent = <<>>
        BY <2>4, <3>1 DEF Disown, Silent
      <4> QED BY <4>1
    <3>3. DOMAIN line' = DOMAIN line /\ \A i \in DOMAIN line : line'[i] = line[i]
      BY <2>4, <3>1 DEF Disown, Silent, Answer
    <3>4. Silent'
      BY <2>4, <3>2, <3>3 DEF Silent, Answer
    <3> QED BY <3>4 DEF Silent, Unanswered
  <2>5. Reading(proc)' => Reading(proc)
    BY <2>1 DEF Reading
  <2> QED BY <2>2, <2>3, <2>4, <2>5
<1>4. ASSUME ProcessLine PROVE Own' /\ (Reading(proc)' => Unanswered')
  <2>0. astray = FALSE
    BY <1>4, <1>s DEF ProcessLine, ProcessAnswer, ProcessOther, Respond
  <2>1. Unanswered /\ Own
    BY <1>0, <1>4, <2>0 DEF ProcessLine, Reading
  <2>2. UNCHANGED <<call, command_lock, sent>> /\ line # <<>> /\ line' = Readable(proc', Tail(line))
    BY <1>4 DEF ProcessLine
  <2>3. Kept(1) /\ \A i \in DOMAIN line' : 1 < i + 1
    BY <1>0, <2>2, TakenLine
  <2>4. CASE UNCHANGED <<current_command, response_lock, answered>>
    <3>1. Own'
      BY <2>1, <2>2, <2>4 DEF Own
    <3>2. Unanswered'
      BY <1>0, <1>t, <2>1, <2>2, <2>3, <2>4, UnansweredKept
    <3> QED BY <3>1, <3>2
  <2>5. CASE /\ answered' = <<line[1].by, line[1].cmd>>
             /\ 1 \in DOMAIN line /\ Current(line[1])
             /\ sent = <<>> /\ \A j \in DOMAIN line : 1 < j => ~Answer(j)
    <3>1. Own'
      BY <1>0, <2>2, <2>5 DEF Own, Locked, Current
    <3>2. Silent'
      BY <2>2, <2>3, <2>5 DEF Silent, Kept, Answer
    <3>3. Unanswered'
      BY <3>2 DEF Silent, Unanswered
    <3> QED BY <3>1, <3>3
  <2> QED BY <1>0, <1>4, <2>1, <2>4, <2>5, RespondsLast
<1>5. ASSUME ProcessText \/ ProcessData PROVE Own' /\ (Reading(proc)' => Unanswered')
  <2>1. UNCHANGED <<sent, call, command_lock, current_command, response_lock, answered, astray>> /\ Reading(proc)
    BY <1>5, <1>0 DEF ProcessText, ProcessData, Reading
  <2>2. Own'
    BY <1>0, <2>1 DEF Own
  <2>3. \E d \in {0, 1} : Kept(d)
    BY <1>0, <1>5, ProcessLines
  <2>4. Unanswered
    BY <1>0, <2>1
  <2> QED BY <1>0, <1>t, <2>1, <2>2, <2>3, <2>4, UnansweredKept
<1>r. ASSUME NEW t \in Task, NEW c, Run(t, c), call[t].at = "none"
      PROVE  \A x \in Task : call'[x] = call[x] \/ (call[x].at = "none" /\ call'[x].at = "lock")
  BY <1>a, <1>r DEF Run
<1>6. ASSUME MainCommand PROVE Own' /\ (Reading(proc)' => Unanswered')
  BY <1>6, <1>a, <1>k, <1>r DEF MainCommand
<1>7. ASSUME NEW u \in User, UserStep(u) PROVE Own' /\ (Reading(proc)' => Unanswered')
  <2>1. UNCHANGED <<sent, line, command_lock, current_command, response_lock, answered, astray, proc>>
    BY <1>7 DEF UserStep
  <2>2. call' = call \/ \E c : Run(u, c) /\ (user[u] = "idle" \/ call[u].at = "none")
    BY <1>7 DEF UserStep, socket_connect, socket_disconnect, socket_send, socket_receive,
       run_ussd, UserCall, create_client_socket, release_client_socket, UserReturn, UserGoto
  <2>3. u \in Task /\ (user[u] = "idle" => call[u].at = "none")
    BY <1>0, <1>a DEF Locked
  <2>4. \A x \in Task : call'[x] = call[x] \/ (call[x].at = "none" /\ call'[x].at = "lock")
    BY <1>r, <2>2, <2>3
  <2> QED BY <1>k, <2>1, <2>4
<1>8. ASSUME ModemAnswer PROVE Own' /\ (Reading(proc)' => Unanswered')
  <2>1. UNCHANGED <<call, command_lock, current_command, response_lock, answered, astray, proc>>
        /\ sent # <<>> /\ sent' = Tail(sent)
    BY <1>8 DEF ModemAnswer
  <2>2. Own'
    BY <1>0, <2>1 DEF Own
  <2>3. ASSUME Unanswered PROVE Unanswered'
    <3> DEFINE c == Head(sent)
    <3>1. sent' = <<>> /\ 1 \in DOMAIN sent /\ c = sent[1]
      BY <1>a, <2>1, <2>3 DEF Unanswered
    <3>2. PICK a : AnswerTo(c, a) /\ line' = Readable(proc, line \o a)
      BY <1>0, <1>8, AnswerLines
    <3> HIDE DEF c
    <3>3. Current(c) /\ c.by # "past" /\ \A i \in DOMAIN line : ~Answer(i)
      BY <1>a, <2>1, <2>3, <3>1 DEF Unanswered, Current
    <3>4. a \in Seq(Lines)
      BY <3>2 DEF AnswerTo
    <3>5. \A i \in DOMAIN line' :
           \/ i \in DOMAIN line /\ line'[i] = line[i]
           \/ i - Len(line) \in DOMAIN a /\ line'[i] = a[i - Len(line)]
      BY <1>0, <3>2, <3>4, AddedLines
    <3>6. ASSUME NEW i \in DOMAIN line', Answer(i)'
          PROVE  i - Len(line) \in DOMAIN a /\ line'[i] = a[i - Len(line)]
      BY <3>3, <3>5, <3>6 DEF Answer
    <3>7. ASSUME NEW i \in DOMAIN line', Answer(i)' PROVE Current(line[i])'
      BY <2>1, <3>2, <3>3, <3>6, <3>7 DEF AnswerTo, Current
    <3>8. ASSUME NEW i \in DOMAIN line', NEW j \in DOMAIN line', Answer(i)', Answer(j)', i < j
          PROVE  Leads(line'[i])
      <4>1. line' \in Seq(Lines) /\ Len(line) \in Nat
        BY <1>a, <1>t DEF TypeOK, ModemTypes
      <4>2. i - Len(line) < j - Len(line)
        BY <3>8, <4>1
      <4> QED BY <3>2, <3>3, <3>6, <3>8, <4>2 DEF AnswerTo
    <3>9. \A t \in Task : ~(call[t].at = "wait" /\ response_lock = TRUE)
      BY <2>1, <2>3 DEF Unanswered
    <3> QED BY <2>1, <3>1, <3>7, <3>8, <3>9 DEF Unanswered
  <2>4. Reading(proc)' => Reading(proc)
    BY <2>1 DEF Reading
  <2>5. astray = FALSE
    BY <2>1
  <2> QED BY <1>0, <2>2, <2>3, <2>4, <2>5
<1>9. ASSUME ModemReady \/ ModemUrc PROVE Own' /\ (Reading(proc)' => Unanswered')
  <2>1. UNCHANGED <<call, command_lock, current_command, response_lock, answered, astray, proc, sent>>
    BY <1>9 DEF ModemReady, ModemUrc
  <2>2. PICK a \in Seq(Lines) : line' = line \o a /\ \A i \in DOMAIN a : a[i].by = None
    <3>1. CASE ModemReady
      <4> DEFINE e == Unasked("CFUN", 0)
      <4>1. e \in Lines
        BY DEF Unasked, Lines, LineType, Parsed, Kinds, Values, Commands
      <4>2. e.by = None /\ line' = Append(line, e)
        BY <3>1 DEF ModemReady, Unasked
      <4> HIDE DEF e
      <4>3. Append(line, e) = line \o <<e>>
        BY <1>a, <4>1
      <4>4. <<e>> \in Seq(Lines) /\ \A i \in DOMAIN <<e>> : <<e>>[i] = e
        BY <4>1
      <4> QED BY <4>2, <4>3, <4>4
    <3>2. CASE ModemUrc
      <4>1. PICK m \in Unsolicited : line' = line \o [i \in 1 .. Len(m) |-> Unasked(m[i].k, m[i].v)]
        BY <3>2 DEF ModemUrc
      <4> DEFINE a == [i \in 1 .. Len(m) |-> Unasked(m[i].k, m[i].v)]
      <4>2. a \in Seq(Lines)
        BY UnaskedType
      <4>3. \A i \in DOMAIN a : a[i].by = None
        BY DEF Unasked
      <4>4. line' = line \o a
        BY <4>1
      <4> HIDE DEF a
      <4> QED BY <4>2, <4>3, <4>4
    <3> QED BY <1>9, <3>1, <3>2
  <2>3. \A i \in DOMAIN line' : (i \in DOMAIN line /\ line'[i] = line[i]) \/ line'[i].by = None
    BY <1>a, <2>2
  <2>4. \A i \in DOMAIN line' : Answer(i)' => i \in DOMAIN line /\ line'[i] = line[i] /\ Answer(i)
    BY <2>3 DEF Answer
  <2>5. Own'
    BY <1>0, <2>1 DEF Own
  <2>6. ASSUME Unanswered PROVE Unanswered'
    <3>1. \A i \in DOMAIN sent' : Current(sent[i])'
      BY <2>1, <2>6 DEF Unanswered, Current
    <3>2. \A i \in DOMAIN line' : Answer(i)' => Current(line[i])'
      BY <2>1, <2>4, <2>6 DEF Unanswered, Current
    <3> QED BY <2>1, <2>4, <2>6, <3>1, <3>2 DEF Unanswered
  <2>7. Reading(proc)' => Reading(proc)
    BY <2>1 DEF Reading
  <2>8. astray = FALSE
    BY <2>1
  <2> QED BY <1>0, <2>5, <2>6, <2>7, <2>8
<1>10. ASSUME UNCHANGED <<call, sent, line, command_lock, current_command, response_lock, answered, astray, proc>>
       PROVE  Own' /\ (Reading(proc)' => Unanswered')
  BY <1>k, <1>10
<1> QED BY <1>1, <1>2, <1>3, <1>4, <1>5, <1>6, <1>7, <1>8, <1>9, <1>10
           DEF Next, CommandStep, MainStep, vars

-----------------------------------------------------------------------------
LEMMA InvAlways == Spec => []Inv
<1>1. Init => Inv
  <2> SUFFICES ASSUME Init PROVE Inv
    OBVIOUS
  <2>1. TypeOK
    BY TypeInit
  <2>2. call = [t \in Task |-> NoCall] /\ NoCall.at = "none" /\ None \notin Task /\ command_lock = None
        /\ User \subseteq Task
    BY GsmAssumption DEF Init, NoCall, Task
  <2>3. Locked
    BY <2>2 DEF Locked
  <2>4. line = <<>> /\ sent = <<>>
    BY DEF Init
  <2>5. Matched
    BY <2>2, <2>4 DEF Matched, Own, Unanswered
  <2> QED BY <2>1, <2>3, <2>5 DEF Inv
<1>2. Inv /\ [Next]_vars => Inv'
  BY TypeNext, LockedNext, MatchedNext DEF Inv
<1> QED BY <1>1, <1>2, PTL DEF Spec

(***************************************************************************)
(* Types; and that the process task never fills rxdata beyond its size     *)
(* nor counts below zero the bytes it has yet to read.                     *)
(***************************************************************************)
THEOREM TypeCorrect == Spec => []TypeOK
<1>1. Inv => TypeOK
  BY DEF Inv
<1> QED BY <1>1, InvAlways, PTL

(***************************************************************************)
(* A command that returns OK got its own answer, for any number of tasks,  *)
(* commands and bounds, and whatever the modem leaves unanswered, unless   *)
(* an answer went astray: a command timed out before its answer was read,  *)
(* or a line that answers nothing was taken for one, and no command has    *)
(* been written since while nothing was outstanding.                       *)
(***************************************************************************)
THEOREM AnswersTheirOwn == Spec => ResponseOwn
<1>1. ASSUME Inv, [Next]_vars
      PROVE  [\A t \in Task : ~astray /\ call[t].at = "wait" /\ call'[t].at = "none" /\ ret'[t]
                => answered = <<t, call[t].cmd>>]_vars
  <2> SUFFICES ASSUME NEW t \in Task, ~astray, call[t].at = "wait", call'[t].at = "none", ret'[t]
               PROVE  answered = <<t, call[t].cmd>>
    OBVIOUS
  <2>0. /\ call \in [Task -> CallType] /\ ret \in [Task -> BOOLEAN] 
        /\ User \subseteq Task /\ response_lock \in BOOLEAN
    BY <1>1, GsmAssumption DEF Inv, TypeOK, TaskTypes, Task
  <2>t. astray = FALSE
    BY <1>1 DEF Inv, TypeOK, TaskTypes
  <2>1. ASSUME NEW x \in Task, NEW c, Run(x, c), call[x].at # "wait" PROVE FALSE
    BY <2>0, <2>1 DEF Run
  <2>2. ASSUME NEW x \in Task, CommandWrite(x) \/ CommandReset(x) PROVE FALSE
    BY <2>0, <2>2 DEF CommandWrite, CommandReset, CallType
  <2>3. ASSUME NEW x \in Task, CommandTimeout(x) PROVE FALSE
    BY <2>0, <2>3 DEF CommandTimeout
  <2>4. ASSUME NEW x \in Task, CommandAnswered(x) PROVE answered = <<t, call[t].cmd>>
    <3>1. x = t /\ response_lock = TRUE
      BY <2>0, <2>4 DEF CommandAnswered
    <3>2. Own
      BY <1>1, <2>t DEF Inv, Matched
    <3> QED BY <3>1, <3>2 DEF Own
  <2>5. ASSUME NEW u \in User, UserStep(u) PROVE FALSE
    <3>1. call' = call \/ \E c : Run(u, c) /\ (user[u] = "idle" \/ call[u].at = "none")
      BY <2>5 DEF UserStep, socket_connect, socket_disconnect, socket_send, socket_receive,
         run_ussd, UserCall, create_client_socket, release_client_socket, UserReturn, UserGoto
    <3>2. u \in Task /\ (user[u] = "idle" => call[u].at # "wait")
      BY <1>1, <2>0 DEF Inv, Locked
    <3> QED BY <2>1, <3>1, <3>2
  <2>6. ASSUME MainCommand PROVE FALSE
    <3>1. "main" \in Task /\ Run("main", Head(main.todo)) /\ call["main"].at # "wait"
      BY <2>6 DEF MainCommand, Task
    <3> QED BY <2>1, <3>1, Zenon
  <2>7. ASSUME UNCHANGED call PROVE FALSE
    BY <2>7
  <2> QED BY <1>1, <2>2, <2>3, <2>4, <2>5, <2>6, <2>7
             DEF Next, CommandStep, ProcessLine, ProcessText, ProcessData, MainStep, ModemAnswer,
                 ModemReady, ModemUrc, vars
<1> QED BY <1>1, InvAlways, PTL DEF Spec, ResponseOwn

=============================================================================
