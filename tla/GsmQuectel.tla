----------------------------- MODULE GsmQuectel -----------------------------
(***************************************************************************)
(* The Quectel GSM modem service (src/services/gsm-quectel/gsm_quectel.c). *)
(* The main task and the users of its socket run AT commands, one at a     *)
(* time, and wait for the answer on a semaphore.  The process task reads   *)
(* the lines of the modem and tells what they answer only from             *)
(* current_command.  The modem is external: a queue of commands and a      *)
(* queue of lines.                                                         *)
(***************************************************************************)
EXTENDS Naturals, Sequences

CONSTANTS
    User,               \* tasks that use the socket and the cellular interface
    None,               \* no task
    RxSize, MaxRead,    \* bytes of rxdata (128) and of one AT+QIRD (16)
    BootTries,          \* 5000 ms of wait_for_modem, in AT commands
    InitCommands, InfoCommands, \* the four and the six commands that main_task runs in a row
    RegPeriod, InfoPeriod, SmsPeriod, SmsPhase, StatPeriod, Periods, \* cnt is counted modulo Periods
    Reported,           \* TCP/IP statuses that the modem reports
    Registration,       \* what it reports of the registration: 1 for registered at home, else 0
    Unsolicited,        \* messages that the modem sends by itself: sequences of lines
    PipeMax,            \* bound: commands the modem has not answered, others it ignores
    LineMax,            \* bound: lines not read yet when the modem answers
    MaxDisturbed        \* bound: unsolicited messages, and timeouts of commands whose answer was on the way

\* Commands of main_task that need no more than OK.
PlainCommand ==
    {"ENABLE_CREG_URC", "DISABLE_ECHO", "ENABLE_RFTXMON", "IP_RECV_METHOD", "SET_CHARACTER_SET",
     "SETUP_SMS_TEXT_MODE", "SETUP_SMS_NOTIFICATION", "GET_IMSI", "GET_IMEI", "GET_OPERATOR"}

Statuses == {"UNKNOWN", "IP_INITIAL", "IP_START", "IP_GPRSACT", "IP_STATUS", "CONNECT_OK", "IP_CLOSE",
             "PDP_DEACT"}

\* What the process task tells apart: RESET is the text that asks for a reset, TEXT any other line.
Kinds == {"OK", "ERROR", "STATE", "IP", "SEND OK", "CLOSE OK", "DEACT OK", "CREG", "QIRD", "CMT", "CFUN",
          "RING", "RESET", "TEXT"}

\* What a line reports is of the type that the code parses.
Parsed(l) == l.k \in Kinds /\ IF l.k = "STATE" THEN l.v \in Statuses ELSE l.v \in Nat

ASSUME GsmAssumption ==
    /\ InitCommands \in Seq(PlainCommand) /\ InfoCommands \in Seq(PlainCommand)
    /\ {"main", "past"} \cap User = {} /\ None \notin User \cup {"main", "past"}
    /\ Reported \subseteq Statuses /\ Registration \subseteq {0, 1}
    /\ \A m \in Unsolicited : \E n \in {1, 2} : DOMAIN m = 1 .. n /\ \A i \in 1 .. n : Parsed(m[i])
    /\ {RxSize, MaxRead, BootTries, SmsPhase, PipeMax, LineMax, MaxDisturbed} \subseteq Nat
    /\ {RegPeriod, InfoPeriod, SmsPeriod, StatPeriod, Periods} \subseteq Nat \ {0}

VARIABLES
    main,               \* main task: where it is, commands it runs first, tries of wait_for_modem, cnt
    user,               \* user[u]: the socket or cellular call u is in
    call, ret,          \* call[t]: where t is in command(); ret[t]: it last returned OK
    command_lock,       \* its holder
    current_command, command_response, response_lock,
    proc,               \* process task: is it running, bytes of AT+QIRD to read, of them in the stream,
                        \* does it wait for the text of an SMS
    can_run,
    registered, full,   \* full: modem_status is FULL
    tcpip_status, tcpip_ready, tcp_ready, tcpip_socket_used,
    rxdata,             \* bytes in the stream buffer
    sent, line,         \* modem: commands and lines
    disturbed,          \* counter of the bound
    answered,           \* history: the command whose line gave response_lock
    astray              \* history: answers may be taken for those to other commands

mainVars == <<main, can_run>>
respVars == <<current_command, command_response, response_lock, answered, astray>>
tcpVars == <<tcpip_status, tcpip_ready, tcp_ready, tcpip_socket_used>>
cellVars == <<registered, full>>
modemVars == <<sent, line, disturbed>>
vars == <<mainVars, user, call, ret, command_lock, respVars, proc, cellVars, tcpVars, rxdata, modemVars>>

Task == {"main"} \cup User
Min2(a, b) == IF a < b THEN a ELSE b

NoAnswer == <<None, "NONE">>
NoCall == [at |-> "none", cmd |-> "NONE", len |-> 0]

\* gsm_quectel_start has created both tasks: the port advertises the interfaces after that.
Init ==
    /\ main = [at |-> "boot", todo |-> <<"TEST">>, tries |-> 0, cnt |-> 0]
    /\ user = [u \in User |-> "idle"]
    /\ call = [t \in Task |-> NoCall] /\ ret = [t \in Task |-> FALSE]
    /\ command_lock = None
    /\ current_command = "NONE" /\ command_response = "ERROR" /\ response_lock = FALSE
    /\ proc = [run |-> TRUE, left |-> 0, data |-> 0, text |-> FALSE]
    /\ can_run = TRUE
    /\ registered = FALSE /\ full = FALSE
    /\ tcpip_status = "UNKNOWN" /\ tcpip_ready = FALSE /\ tcp_ready = FALSE
    /\ tcpip_socket_used = FALSE
    /\ rxdata = 0
    /\ sent = <<>> /\ line = <<>>
    /\ disturbed = 0
    /\ answered = NoAnswer /\ astray = FALSE

\* Does the process task still read?  Lines that no task will read any more are forgotten.
Reading(p) == p.run \/ p.left > 0 \/ p.text
Readable(p, lines) == IF Reading(p) THEN lines ELSE <<>>

\* An answer that the modem has yet to give or the process task has yet to read.
Outstanding == sent # <<>> \/ \E i \in DOMAIN line : line[i].by # None

(***************************************************************************)
(* command()                                                               *)
(***************************************************************************)
\* The text of the command is made before the lock is taken, so that AT+QIRD asks for the room
\* that rxdata has now.  Without room there is no command.
Run(t, cmd) ==
    LET len == IF cmd = "IP_RECV" THEN Min2(RxSize - rxdata, MaxRead) ELSE 0
    IN  /\ ret' = [ret EXCEPT ![t] = FALSE]
        /\ IF cmd = "IP_RECV" /\ len = 0
           THEN UNCHANGED call
           ELSE call' = [call EXCEPT ![t] = [at |-> "lock", cmd |-> cmd, len |-> len]]

LockFree_Always == TRUE
LockFree == command_lock = None

\* The modem may ignore what it gets, and does so when it has too much to answer.
CommandWrite(t) ==
    /\ call[t].at = "lock" /\ LockFree
    /\ command_lock' = t
    /\ current_command' = call[t].cmd
    /\ command_response' = "ERROR"
    /\ \/ Len(sent) < PipeMax
          /\ sent' = Append(sent, [by |-> t, cmd |-> call[t].cmd, len |-> call[t].len])
       \/ UNCHANGED sent
    /\ call' = [call EXCEPT ![t].at = "reset"]
    /\ astray' = (astray /\ Outstanding)
    /\ UNCHANGED <<mainVars, user, ret, response_lock, answered, proc, cellVars, tcpVars, rxdata,
                   line, disturbed>>

CommandReset(t) ==
    /\ call[t].at = "reset"
    /\ response_lock' = FALSE /\ answered' = NoAnswer
    /\ call' = [call EXCEPT ![t].at = "wait"]
    /\ UNCHANGED <<mainVars, user, ret, command_lock, current_command, command_response, astray,
                   proc, cellVars, tcpVars, rxdata, modemVars>>

\* What is left of the answer to a command that has returned belongs to no running command.
Disown ==
    /\ sent' = [i \in DOMAIN sent |-> [sent[i] EXCEPT !.by = "past"]]
    /\ line' = [i \in DOMAIN line |-> IF line[i].by = None THEN line[i]
                                      ELSE [line[i] EXCEPT !.by = "past", !.cmd = "NONE"]]

Released_Kept == command_lock
Released == None

CommandAnswered(t) ==
    /\ call[t].at = "wait" /\ response_lock
    /\ response_lock' = FALSE /\ answered' = NoAnswer
    /\ ret' = [ret EXCEPT ![t] = command_response = "OK"]
    /\ command_lock' = None
    /\ call' = [call EXCEPT ![t] = NoCall]
    /\ Disown
    /\ UNCHANGED <<mainVars, user, current_command, command_response, astray, proc, cellVars,
                   tcpVars, rxdata, disturbed>>

\* current_command stays what it was, and the answer may still come.
CommandTimeout(t) ==
    /\ call[t].at = "wait" /\ ~response_lock
    /\ IF Outstanding THEN disturbed < MaxDisturbed /\ disturbed' = disturbed + 1 /\ astray' = TRUE
                      ELSE UNCHANGED <<disturbed, astray>>
    /\ ret' = [ret EXCEPT ![t] = FALSE]
    /\ command_lock' = Released
    /\ call' = [call EXCEPT ![t] = NoCall]
    /\ Disown
    /\ UNCHANGED <<mainVars, user, current_command, command_response, response_lock, answered, proc,
                   cellVars, tcpVars, rxdata>>

(***************************************************************************)
(* gsm_quectel_process_task                                                *)
(***************************************************************************)
\* A line that is taken for an answer, whether or not it is one.
Respond(l, r, current) ==
    /\ current_command' = current
    /\ command_response' = r
    /\ response_lock' = TRUE
    /\ answered' = <<l.by, l.cmd>>
    /\ astray' = (astray \/ l.by = None)

\* Lines that only the command they belong to waits for.
OwnLine == [k \in {"SEND OK", "CLOSE OK", "DEACT OK", "STATE"} |->
              CASE k = "SEND OK" -> "IP_SEND" [] k = "CLOSE OK" -> "IP_CLOSE"
                [] k = "DEACT OK" -> "DEACTIVATE_CONTEXT" [] k = "STATE" -> "TCPIP_STAT"]

\* Up to 15 characters: AT+QILOCIP takes such a line for the address.
Short(l) == \/ l.k \in {"SEND OK", "CLOSE OK", "DEACT OK", "IP", "CFUN", "RING", "RESET"}
            \/ l.k = "STATE" /\ l.v \in {"IP_START", "IP_CLOSE"}
            \/ l.k = "CREG" /\ l.v = 0

\* OK does not end AT+QISTAT, whose STATE line follows it.
IgnoresOk == current_command = "TCPIP_STAT"

\* The answer to AT+QISTAT is announced a few instructions before tcpip_status is set, which is one
\* step here.
ProcessAnswer(l) ==
    /\ \/ l.k = "OK" /\ ~IgnoresOk /\ Respond(l, "OK", "NONE")
       \/ l.k = "OK" /\ IgnoresOk /\ UNCHANGED respVars
       \/ l.k = "ERROR" /\ Respond(l, "ERROR", "NONE")
       \/ l.k \in DOMAIN OwnLine /\ current_command = OwnLine[l.k] /\ Respond(l, "OK", "NONE")
       \/ current_command = "GET_IP" /\ Short(l) /\ Respond(l, "OK", current_command)
    /\ proc' = [proc EXCEPT !.run = can_run]
    /\ tcpip_status' = IF l.k = "STATE" /\ current_command = "TCPIP_STAT" THEN l.v ELSE tcpip_status
    /\ UNCHANGED cellVars

\* The other lines: part of an answer, or unsolicited and seen only between two commands.
ProcessOther(l) ==
    /\ l.k \notin {"OK", "ERROR"}
    /\ ~(l.k \in DOMAIN OwnLine /\ current_command = OwnLine[l.k])
    /\ ~(current_command = "GET_IP" /\ Short(l))
    /\ registered' = IF l.k = "CREG" /\ current_command = "GET_REGISTRATION" THEN l.v = 1 ELSE registered
    /\ full' = (full \/ (l.k = "CFUN" /\ current_command = "NONE"))
    /\ LET n == IF l.k = "QIRD" /\ current_command = "IP_RECV" THEN l.v ELSE 0
       IN  proc' = [proc EXCEPT !.run = can_run, !.left = n, !.data = IF l.by = None THEN 0 ELSE n,
                                !.text = l.k = "CMT" /\ current_command = "NONE"]
    /\ UNCHANGED <<respVars, tcpip_status>>

\* A task that is told to stop while it waits for a line processes that line.
ProcessLine ==
    /\ proc.run /\ proc.left = 0 /\ ~proc.text /\ line # <<>>
    /\ ProcessAnswer(Head(line)) \/ ProcessOther(Head(line))
    /\ line' = Readable(proc', Tail(line))
    /\ UNCHANGED <<mainVars, user, call, ret, command_lock, tcpip_ready, tcp_ready, tcpip_socket_used, rxdata, sent, disturbed>>

\* The line after a +CMT that came between two commands is the text of the SMS, for which no other
\* line is taken then.  After a text that asks for a reset the task waits for it in a loop.
ProcessText ==
    /\ proc.text /\ line # <<>>
    /\ proc' = [proc EXCEPT !.run = @ /\ can_run /\ Head(line).k # "RESET", !.text = FALSE]
    /\ line' = Readable(proc', Tail(line))
    /\ UNCHANGED <<mainVars, user, call, ret, command_lock, respVars, cellVars, tcpVars, rxdata,
                   sent, disturbed>>

\* The data that follows a +QIRD line.  What does not fit into rxdata is lost but not counted:
\* the task reads as many bytes more, from the lines that follow, or waits for them.
ProcessData ==
    /\ proc.left > 0
    /\ LET room == RxSize - rxdata
           r == Min2(Min2(proc.left, MaxRead), proc.data)
           Read(n, w) == /\ proc' = [proc EXCEPT !.run = @ /\ can_run, !.left = @ - w, !.data = @ - n]
                         /\ rxdata' = rxdata + w
       IN  \/ r > 0 /\ Read(r, Min2(r, room)) /\ line' = Readable(proc', line)
           \/ /\ r = 0 /\ line # <<>>
              /\ \E w \in 0 .. Min2(proc.left, room) : Read(0, w)
              /\ line' = Readable(proc', Tail(line))
    /\ UNCHANGED <<mainVars, user, call, ret, command_lock, respVars, cellVars, tcpVars,
                   sent, disturbed>>

(***************************************************************************)
(* gsm_quectel_main_task                                                   *)
(***************************************************************************)
\* The next command of the main task.
MainCommand ==
    /\ main.todo # <<>> /\ call["main"].at = "none"
    /\ Run("main", Head(main.todo))
    /\ main' = [main EXCEPT !.todo = Tail(@)]
    /\ UNCHANGED <<can_run, user, command_lock, respVars, proc, cellVars, tcpVars, rxdata,
                   modemVars>>

\* The main task has no command to run at place p.
MainAt(p) == main.at = p /\ main.todo = <<>> /\ call["main"].at = "none"
MainGoto(p, cmds) == main' = [main EXCEPT !.at = p, !.todo = cmds]

\* wait_for_modem; a modem that does not answer stops the service.
MainBoot ==
    /\ MainAt("boot")
    /\ IF ret["main"] \/ main.tries + 1 >= BootTries
       THEN can_run' = (can_run /\ ret["main"]) /\ MainGoto("loop", InitCommands)
       ELSE main' = [main EXCEPT !.todo = <<"TEST">>, !.tries = @ + 1] /\ UNCHANGED can_run
    /\ UNCHANGED <<tcpip_ready, tcp_ready>>

MainRecv ==
    /\ MainAt("loop") /\ can_run
    /\ MainGoto("reg", IF tcp_ready /\ tcpip_ready THEN <<"IP_RECV">> ELSE <<>>)
    /\ UNCHANGED <<can_run, tcpip_ready, tcp_ready>>

MainEnd ==
    /\ MainAt("loop") /\ ~can_run
    /\ MainGoto("stopped", <<>>)
    /\ UNCHANGED <<can_run, tcpip_ready, tcp_ready>>

\* Housekeeping commands that are due in this cycle.
MainPeriodic(at, next, due, cmds) ==
    /\ MainAt(at)
    /\ MainGoto(next, IF due /\ full THEN cmds ELSE <<>>)
    /\ UNCHANGED <<can_run, tcpip_ready, tcp_ready>>

MainStat ==
    /\ MainAt("stat")
    /\ IF main.cnt % StatPeriod = 0 /\ registered THEN MainGoto("switch", <<"TCPIP_STAT">>)
                                                  ELSE MainGoto("wait", <<>>)
    /\ UNCHANGED <<can_run, tcpip_ready, tcp_ready>>

\* The TCP/IP state machine; an unknown status starts the next cycle at once, with the same cnt.
StatusCommand ==
    CASE tcpip_status = "IP_INITIAL" -> <<"START_TCPIP">>
      [] tcpip_status = "IP_START" -> <<"ACTIVATE_CONTEXT">>
      [] tcpip_status = "IP_GPRSACT" -> <<"GET_IP">>
      [] tcpip_status = "PDP_DEACT" -> <<"DEACTIVATE_CONTEXT">>
      [] OTHER -> <<>>

MainSwitch ==
    /\ MainAt("switch")
    /\ IF tcpip_status = "UNKNOWN" THEN MainGoto("loop", <<>>) ELSE MainGoto("wait", StatusCommand)
    /\ tcpip_ready' = CASE tcpip_status = "IP_STATUS" -> TRUE
                        [] tcpip_status = "PDP_DEACT" -> FALSE
                        [] OTHER -> tcpip_ready
    /\ tcp_ready' = CASE tcpip_status = "CONNECT_OK" -> TRUE
                      [] tcpip_status \in {"IP_CLOSE", "PDP_DEACT"} -> FALSE
                      [] OTHER -> tcp_ready
    /\ UNCHANGED can_run

\* The wait ends by data_waiting, which +QIRDI gives, or after 100 ms.
MainWait ==
    /\ MainAt("wait")
    /\ main' = [main EXCEPT !.at = "loop", !.cnt = (@ + 1) % Periods]
    /\ UNCHANGED <<can_run, tcpip_ready, tcp_ready>>

MainStep ==
    /\ \/ MainBoot \/ MainRecv \/ MainEnd \/ MainStat \/ MainSwitch \/ MainWait
       \/ MainPeriodic("reg", "info", main.cnt % RegPeriod = 0, <<"GET_REGISTRATION">>)
       \/ MainPeriodic("info", "sms", main.cnt % InfoPeriod = 0, InfoCommands)
       \/ MainPeriodic("sms", "stat", main.cnt % SmsPeriod = SmsPhase, <<"DEL_ALL_SMS">>)
    /\ ret' = [ret EXCEPT !["main"] = FALSE]
    /\ UNCHANGED <<user, call, command_lock, respVars, proc, cellVars, tcpip_status,
                   tcpip_socket_used, rxdata, modemVars>>

(***************************************************************************)
(* The socket and the cellular interface                                   *)
(***************************************************************************)
\* A call whose checks failed returns at once and is no step; otherwise it runs a command.
UserCall(u, op, ready, cmd) ==
    /\ user[u] = "idle" /\ ready
    /\ user' = [user EXCEPT ![u] = op]
    /\ Run(u, cmd)
    /\ UNCHANGED <<tcpip_socket_used, rxdata>>

socket_connect(u) == UserCall(u, "connect", tcpip_socket_used /\ tcpip_ready, "CONNECT")
socket_disconnect(u) == UserCall(u, "disconnect", tcpip_socket_used, "IP_CLOSE")
socket_send(u) == UserCall(u, "send", tcpip_socket_used /\ tcp_ready /\ tcpip_ready, "IP_SEND")
socket_receive(u) == UserCall(u, "receive", tcpip_socket_used /\ tcp_ready /\ tcpip_ready, "IP_RECV")
run_ussd(u) == UserCall(u, "ussd", TRUE, "SET_CHARACTER_SET")

\* create_client_socket and release_client_socket.
create_client_socket(u) ==
    /\ user[u] = "idle" /\ tcpip_ready /\ ~tcpip_socket_used
    /\ tcpip_socket_used' = TRUE
    /\ UNCHANGED <<user, call, ret, rxdata>>

release_client_socket(u) ==
    /\ user[u] = "idle" /\ tcpip_socket_used
    /\ tcpip_socket_used' = FALSE
    /\ UNCHANGED <<user, call, ret, rxdata>>

\* What the call does after its command.
UserGoto(u, op) ==
    /\ user' = [user EXCEPT ![u] = op]
    /\ ret' = [ret EXCEPT ![u] = FALSE]
    /\ UNCHANGED <<call, tcpip_socket_used>>

UserReturn(u) ==
    /\ call[u].at = "none"
    /\ \/ /\ user[u] = "connect"
          /\ UserGoto(u, IF ret[u] THEN "poll" ELSE "idle") /\ UNCHANGED rxdata
       \/ user[u] = "poll" /\ UserGoto(u, "idle") /\ UNCHANGED rxdata
       \/ user[u] \in {"disconnect", "send", "ussd2"} /\ UserGoto(u, "idle") /\ UNCHANGED rxdata
       \/ /\ user[u] = "receive" /\ UserGoto(u, "idle")
          /\ \E n \in 0 .. rxdata : (rxdata > 0 => n > 0) /\ rxdata' = rxdata - n
       \/ /\ user[u] = "ussd" /\ ~ret[u] /\ UserGoto(u, "idle") /\ UNCHANGED rxdata
       \/ /\ user[u] = "ussd" /\ ret[u]
          /\ user' = [user EXCEPT ![u] = "ussd2"] /\ Run(u, "SEND_USSD")
          /\ UNCHANGED <<rxdata, tcpip_socket_used>>

UserStep(u) ==
    /\ \/ socket_connect(u) \/ socket_disconnect(u) \/ socket_send(u) \/ socket_receive(u)
       \/ run_ussd(u) \/ create_client_socket(u) \/ release_client_socket(u)
       \/ UserReturn(u)
    /\ UNCHANGED <<mainVars, command_lock, respVars, proc, cellVars, tcpip_status, tcpip_ready,
                   tcp_ready, modemVars>>

(***************************************************************************)
(* The modem                                                               *)
(***************************************************************************)
\* Its lines: most commands are answered by OK.  v is the value a line reports: the status, which
\* the network may have changed, the number of bytes, whether the modem is registered (1), and 0 if
\* there is none.
Answers(c) ==
    LET L(k, v) == [k |-> k, v |-> v, by |-> c.by, cmd |-> IF c.by = "past" THEN "NONE" ELSE c.cmd]
    IN  CASE c.cmd = "TCPIP_STAT" -> {<<L("OK", 0), L("STATE", s)>> : s \in Reported}
          [] c.cmd = "GET_IP" -> {<<L("IP", 0)>>}
          [] c.cmd = "IP_SEND" -> {<<L("SEND OK", 0)>>}
          [] c.cmd = "IP_CLOSE" -> {<<L("CLOSE OK", 0)>>}
          [] c.cmd = "DEACTIVATE_CONTEXT" -> {<<L("DEACT OK", 0)>>}
          [] c.cmd = "GET_REGISTRATION" -> {<<L("CREG", r), L("OK", 0)>> : r \in Registration}
          [] c.cmd = "IP_RECV" -> {<<L("QIRD", n), L("OK", 0)>> : n \in 1 .. c.len}
                                      \cup {<<L("OK", 0)>>}
          [] OTHER -> {<<L("OK", 0)>>}

ModemAnswer ==
    /\ sent # <<>> /\ Len(line) < LineMax
    /\ sent' = Tail(sent)
    /\ LET c == Head(sent)
       IN  \/ \E a \in Answers(c) : line' = Readable(proc, line \o a)
           \/ line' = Readable(proc, Append(line, [k |-> "ERROR", v |-> 0, by |-> c.by, cmd |-> IF c.by = "past" THEN "NONE" ELSE c.cmd]))
    /\ UNCHANGED <<mainVars, user, call, ret, command_lock, respVars, proc, cellVars, tcpVars, rxdata,
                   disturbed>>

Unasked(k, v) == [k |-> k, v |-> v, by |-> None, cmd |-> "NONE"]

\* The modem reports that it is ready, until this is seen.
ModemReady ==
    /\ ~full /\ Reading(proc) /\ \A i \in DOMAIN line : line[i].k # "CFUN"
    /\ line' = Append(line, Unasked("CFUN", 0))
    /\ UNCHANGED <<mainVars, user, call, ret, command_lock, respVars, proc, cellVars, tcpVars, rxdata,
                   sent, disturbed>>

\* Other unsolicited lines come between answers: a call (RING), or an SMS, which is a line CMT and a
\* line with its text.  Others are ignored, except +QIRDI, which only shortens MainWait.
ModemUrc ==
    /\ disturbed < MaxDisturbed /\ Reading(proc)
    /\ disturbed' = disturbed + 1
    /\ \E m \in Unsolicited :
          line' = line \o [i \in 1 .. Len(m) |-> Unasked(m[i].k, m[i].v)]
    /\ UNCHANGED <<mainVars, user, call, ret, command_lock, respVars, proc, cellVars, tcpVars, rxdata,
                   sent>>

-----------------------------------------------------------------------------
CommandStep(t) == CommandReset(t) \/ CommandAnswered(t) \/ CommandTimeout(t)

Next ==
    \/ \E t \in Task : CommandWrite(t) \/ CommandStep(t)
    \/ ProcessLine \/ ProcessText \/ ProcessData
    \/ MainCommand \/ MainStep
    \/ \E u \in User : UserStep(u)
    \/ ModemAnswer \/ ModemReady \/ ModemUrc

\* A task goes on with its command, call or loop.
TaskStep(t) ==
    \/ CommandWrite(t) \/ CommandStep(t)
    \/ t = "main" /\ (MainCommand \/ MainStep)
    \/ t \in User /\ UserReturn(t) /\ UserStep(t)

\* Every task is scheduled, a wait with a timeout ends, and the mutex goes to the task that has
\* waited longest, so that a task that can go on again and again does (a task is at one place at a
\* time).  The modem works through its commands, whatever else it reports, but may have ignored any.
Fairness ==
    /\ \A t \in Task : SF_vars(TaskStep(t))
    /\ WF_vars(ProcessLine \/ ProcessText \/ ProcessData)
    /\ SF_vars(ModemAnswer)

Spec == Init /\ [][Next]_vars /\ Fairness

-----------------------------------------------------------------------------
\* A command that returns OK got that answer itself (gsm_quectel.c:302).  The process task tells
\* answers apart by current_command alone, so there are two ways for an answer to go astray: a
\* command times out while its answer is on the way, or a line that answers nothing, the text of an
\* SMS or a call, is taken for an answer.  Nothing else mixes the answers of two tasks or two
\* commands, and they fit again from the first command that starts with no answer outstanding.
ResponseOwn ==
    [][\A t \in Task : ~astray /\ call[t].at = "wait" /\ call'[t].at = "none" /\ ret'[t]
          => answered = <<t, call[t].cmd>>]_vars

\* Every call of the socket returns (gsm_quectel.c:302, :779), and the main task comes back to
\* its loop, although the modem is silent or late, the other task holds the lock, or the process
\* task waits for data that it took the answer for or for a reset.
CallsEnd ==
    /\ \A u \in User : []<>(user[u] = "idle")
    /\ []<>(call["main"].at = "none")

=============================================================================
