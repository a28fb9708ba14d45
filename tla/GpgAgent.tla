------------------------------- MODULE GpgAgent -------------------------------
(***************************************************************************)
(* The GpgAgentSession actor (src/actors/gpg_agent_session.rs) and the     *)
(* Assuan client it runs (src/gpg_agent.rs), with gpg-agent at the other   *)
(* end of the sockets.                                                     *)
(*                                                                         *)
(* The actor takes one message from its mailbox after another and spawns a *)
(* blocking task for each; a task opens a connection of its own, runs its  *)
(* commands in lock step and answers whoever asked.  A call with a hash is *)
(* SignSha256Hash, one without is ReadEd25519PublicKey.  The agent may     *)
(* refuse any command, send status lines, inquire, and hang up whenever it *)
(* likes.  A line or a command is a record; the data of a reply is cut     *)
(* into Parts lines and means a key and a hash, the ones it was computed   *)
(* from.  The program never closes a connection before it has answered.    *)
(***************************************************************************)
EXTENDS Naturals, Sequences

CONSTANTS
  Calls,        \* messages that callers send the actor
  Key,          \* Key[c]: the keygrip call c is about
  Hash,         \* Hash[c]: the hash it wants signed, None to read the public key
  Connections,  \* connections to the agent, one for each call
  None,         \* no hash, no key, no connection, no answer
  Parts,        \* how many D lines a reply takes
  MaxNoise,     \* bound: status lines and inquiries per connection
  HangsUp       \* whether the agent may close a connection

VARIABLES
  mailbox,   \* the actor's mailbox
  pc,        \* pc[c]: what call c does next
  conn,      \* conn[c]: the connection of its task, None while it has none
  data,      \* data[c]: the D lines it has collected
  answer,    \* answer[c]: what it was answered, None while it waits
  toAgent,   \* toAgent[k]: commands sent on k that the agent has not read
  toClient,  \* toClient[k]: lines the agent sent on k that no task has read
  agent      \* agent[k]: the agent's side of k

task == <<conn, data, answer>>
socket == <<toAgent, toClient>>
vars == <<mailbox, pc, task, socket, agent>>

Keys == {Key[c] : c \in Calls}
Hashes == {Hash[c] : c \in Calls} \union {None}
Values == [key : Keys, hash : Hashes]
Failed == [failed |-> TRUE]
Asked(c) == [key |-> Key[c], hash |-> Hash[c]]
Signs(c) == Hash[c] # None

Line(kind) == [kind |-> kind]
Data(value, part) == [kind |-> "D", value |-> value, part |-> part]
Reply(value) == [part \in 1..Parts |-> Data(value, part)]

ASSUME CallsAssumption ==
  /\ Parts \in Nat \ {0}
  /\ MaxNoise \in Nat
  /\ HangsUp \in BOOLEAN
  /\ \A c \in Calls : Key[c] # None

ASSUME NoneAssumption == None \notin Values \union {Failed} \union Connections

Lines == [kind : {"OK", "ERR", "S", "INQUIRE"}]
DataLines == [kind : {"D"}, value : Values, part : 1..Parts]
Commands ==
  [verb : {"SIGKEY", "READKEY"}, arg : Keys] \union [verb : {"SETHASH"}, arg : Hashes]
    \union [verb : {"PKSIGN", "END"}, arg : {None}]
Agents ==
  [state : {"unused", "greet", "ready", "work", "inquire", "closed"},
   key : Keys \union {None}, hash : Hashes, doing : Values \union {None},
   sent : 0..Parts, noise : 0..MaxNoise, failed : BOOLEAN]

Waiting(c) == pc[c] \in {"greeting", "sigkey", "sethash", "data"}

\* Types; the mailbox holds the queued calls, each once, and a call is
\* answered exactly when it is over.
TypeOK ==
  /\ mailbox \in Seq(Calls)
  /\ pc \in [Calls -> {"idle", "queued", "task", "greeting", "sigkey", "sethash",
                       "data", "over"}]
  /\ conn \in [Calls -> Connections \union {None}]
  /\ data \in [Calls -> Seq(DataLines)]
  /\ answer \in [Calls -> Values \union {Failed, None}]
  /\ toAgent \in [Connections -> Seq(Commands)]
  /\ toClient \in [Connections -> Seq(Lines \union DataLines)]
  /\ agent \in [Connections -> Agents]
  /\ \A k \in Connections : agent[k].state \in {"work", "inquire"} => agent[k].doing # None
  /\ \A c \in Calls : Waiting(c) => conn[c] # None
  /\ \A c \in Calls : pc[c] = "over" <=> answer[c] # None
  /\ \A c \in Calls : pc[c] = "queued" <=> \E i \in DOMAIN mailbox : mailbox[i] = c
  /\ \A i, j \in DOMAIN mailbox : mailbox[i] = mailbox[j] => i = j

Init ==
  /\ mailbox = <<>>
  /\ pc = [c \in Calls |-> "idle"]
  /\ conn = [c \in Calls |-> None]
  /\ data = [c \in Calls |-> <<>>]
  /\ answer = [c \in Calls |-> None]
  /\ toAgent = [k \in Connections |-> <<>>]
  /\ toClient = toAgent
  /\ agent = [k \in Connections |->
       [state |-> "unused", key |-> None, hash |-> None, doing |-> None,
        sent |-> 0, noise |-> 0, failed |-> FALSE]]

-----------------------------------------------------------------------------
(* The actor and its tasks.                                                *)

\* A caller asks: its message enters the mailbox.
Ask(c) ==
  /\ pc[c] = "idle"
  /\ pc' = [pc EXCEPT ![c] = "queued"]
  /\ mailbox' = Append(mailbox, c)
  /\ UNCHANGED <<task, socket, agent>>

\* Mutant: the message stays in the mailbox.
HandleLeaves ==
  /\ mailbox # <<>>
  /\ pc' = [pc EXCEPT ![Head(mailbox)] = "task"]
  /\ UNCHANGED <<mailbox, task, socket, agent>>

\* Mutant: the handler waits for its task instead of delegating the reply.
HandleWaits ==
  /\ mailbox # <<>>
  /\ \A c \in Calls : pc[c] # "task" /\ ~Waiting(c)
  /\ pc' = [pc EXCEPT ![Head(mailbox)] = "task"]
  /\ mailbox' = Tail(mailbox)
  /\ UNCHANGED <<task, socket, agent>>

\* The handler spawns a blocking task, delegates the reply to it and returns.
Handle ==
  /\ mailbox # <<>>
  /\ pc' = [pc EXCEPT ![Head(mailbox)] = "task"]
  /\ mailbox' = Tail(mailbox)
  /\ UNCHANGED <<task, socket, agent>>

\* The task ends and its result goes to the caller.
AnswerWith(c, result) ==
  /\ pc' = [pc EXCEPT ![c] = "over"]
  /\ answer' = [answer EXCEPT ![c] = result]
  /\ UNCHANGED <<mailbox, conn>>

\* READKEY only comes after gpg --export-ssh-key, whose key, if it prints one,
\* is the answer, or an error when it is not an Ed25519 key.
Export(c) ==
  /\ pc[c] = "task"
  /\ ~Signs(c)
  /\ \E result \in {Asked(c), Failed} : AnswerWith(c, result)
  /\ UNCHANGED <<data, socket, agent>>

\* Mutant: a task takes over a connection another one has opened.
ConnectShared(c, k) ==
  /\ pc[c] = "task"
  /\ agent[k].state \in {"unused", "ready"}
  /\ conn' = [conn EXCEPT ![c] = k]
  /\ IF agent[k].state = "unused"
     THEN /\ agent' = [agent EXCEPT ![k].state = "greet"]
          /\ UNCHANGED toClient
     ELSE /\ toClient' = [toClient EXCEPT ![k] = Append(@, Line("OK"))]
          /\ UNCHANGED agent
  /\ pc' = [pc EXCEPT ![c] = "greeting"]
  /\ UNCHANGED <<mailbox, data, answer, toAgent>>

\* GpgAgent::connect opens a connection that nobody else uses.
Connect(c, k) ==
  /\ pc[c] = "task"
  /\ agent[k].state = "unused"
  /\ conn' = [conn EXCEPT ![c] = k]
  /\ agent' = [agent EXCEPT ![k].state = "greet"]
  /\ pc' = [pc EXCEPT ![c] = "greeting"]
  /\ UNCHANGED <<mailbox, data, answer, socket>>

\* gpgconf fails or names no socket, or nobody listens on it.
ConnectFails(c) ==
  /\ pc[c] = "task"
  /\ AnswerWith(c, Failed)
  /\ UNCHANGED <<data, socket, agent>>

\* send_command: the write fails when the agent has hung up.
Send(c, verb, arg, next) ==
  IF agent[conn[c]].state # "closed"
  THEN /\ toAgent' = [toAgent EXCEPT ![conn[c]] = Append(@, [verb |-> verb, arg |-> arg])]
       /\ pc' = [pc EXCEPT ![c] = next]
       /\ UNCHANGED <<mailbox, conn, answer>>
  ELSE AnswerWith(c, Failed) /\ UNCHANGED toAgent

\* The next line on the connection of its task.
Arrived(c) == toClient[conn[c]] # <<>>
Kind(c) == Head(toClient[conn[c]]).kind
Consume(c) == toClient' = [toClient EXCEPT ![conn[c]] = Tail(@)]

\* Every line has been read and there will be no more; reading on gives an
\* error if the agent left a command unread, and no bytes otherwise.
AtEnd(c) == agent[conn[c]].state = "closed" /\ ~Arrived(c)
Reset(c) == AtEnd(c) /\ toAgent[conn[c]] # <<>>

\* What follows each OK of the lock step.
SendNext(c) ==
  CASE pc[c] = "greeting" -> IF Signs(c) THEN Send(c, "SIGKEY", Key[c], "sigkey")
                             ELSE Send(c, "READKEY", Key[c], "data")
    [] pc[c] = "sigkey" -> Send(c, "SETHASH", Hash[c], "sethash")
    [] OTHER -> Send(c, "PKSIGN", None, "data")

\* The greeting and expect_ok: one line, which must be OK; the end of the
\* stream reads as an empty line, which is not.
ExpectOk(c) ==
  /\ pc[c] \in {"greeting", "sigkey", "sethash"}
  /\ \/ /\ Arrived(c)
        /\ Consume(c)
        /\ IF Kind(c) = "OK" THEN SendNext(c)
           ELSE AnswerWith(c, Failed) /\ UNCHANGED toAgent
     \/ /\ AtEnd(c)
        /\ AnswerWith(c, Failed)
        /\ UNCHANGED socket
  /\ UNCHANGED <<data, agent>>

\* The S-expression parsers find a value in a whole reply and in no part of it.
Parsed(lines) ==
  IF \E value \in Values : lines = Reply(value) THEN lines[1].value ELSE Failed

\* Mutant: the data is over when the stream is, or at the first line that is
\* neither data nor an inquiry.
ReadDataEager(c) ==
  /\ pc[c] = "data"
  /\ \/ /\ Arrived(c)
        /\ Consume(c)
        /\ \/ /\ Kind(c) = "D"
              /\ data' = [data EXCEPT ![c] = Append(@, Head(toClient[conn[c]]))]
              /\ UNCHANGED <<mailbox, pc, conn, answer, toAgent>>
           \/ /\ Kind(c) = "INQUIRE"
              /\ Send(c, "END", None, "data") /\ UNCHANGED data
           \/ /\ Kind(c) \in {"OK", "ERR", "S"}
              /\ AnswerWith(c, Parsed(data[c])) /\ UNCHANGED <<data, toAgent>>
     \/ AtEnd(c) /\ AnswerWith(c, Parsed(data[c])) /\ UNCHANGED <<data, socket>>
  /\ UNCHANGED agent

\* Mutant: an inquiry is skipped like a status line.
ReadDataMute(c) ==
  /\ pc[c] = "data"
  /\ Arrived(c)
  /\ Consume(c)
  /\ \/ /\ Kind(c) = "D"
        /\ data' = [data EXCEPT ![c] = Append(@, Head(toClient[conn[c]]))]
        /\ UNCHANGED <<mailbox, pc, conn, answer, toAgent>>
     \/ /\ Kind(c) \in {"INQUIRE", "S"}
        /\ UNCHANGED <<mailbox, pc, task, toAgent>>
     \/ /\ Kind(c) = "OK"
        /\ AnswerWith(c, Parsed(data[c])) /\ UNCHANGED <<data, toAgent>>
     \/ /\ Kind(c) = "ERR"
        /\ AnswerWith(c, Failed) /\ UNCHANGED <<data, toAgent>>
  /\ UNCHANGED agent

\* One turn of the loop of read_data_response.  A line that is none of the
\* four is skipped, and so is the empty line the end of the stream reads as:
\* from there on the loop turns for ever.
ReadData(c) ==
  /\ pc[c] = "data"
  /\ \/ /\ Arrived(c)
        /\ Consume(c)
        /\ \/ /\ Kind(c) = "D"
              /\ data' = [data EXCEPT ![c] = Append(@, Head(toClient[conn[c]]))]
              /\ UNCHANGED <<mailbox, pc, conn, answer, toAgent>>
           \/ /\ Kind(c) = "INQUIRE"
              /\ Send(c, "END", None, "data") /\ UNCHANGED data
           \/ /\ Kind(c) = "S"
              /\ UNCHANGED <<mailbox, pc, task, toAgent>>
           \/ /\ Kind(c) = "OK"
              /\ AnswerWith(c, Parsed(data[c])) /\ UNCHANGED <<data, toAgent>>
           \/ /\ Kind(c) = "ERR"
              /\ AnswerWith(c, Failed) /\ UNCHANGED <<data, toAgent>>
     \/ Reset(c) /\ AnswerWith(c, Failed) /\ UNCHANGED <<data, socket>>
     \/ AtEnd(c) /\ ~Reset(c) /\ UNCHANGED <<mailbox, pc, task, socket>>
  /\ UNCHANGED agent

Run(c) ==
  \/ Export(c)
  \/ \E k \in Connections : Connect(c, k)
  \/ ConnectFails(c)
  \/ ExpectOk(c)
  \/ ReadData(c)

-----------------------------------------------------------------------------
(* gpg-agent, as the client may rely on it.                                *)

Say(k, line) ==
  /\ toClient' = [toClient EXCEPT ![k] = Append(@, line)]
  /\ UNCHANGED <<mailbox, pc, task>>

Greet(k) ==
  /\ agent[k].state = "greet"
  /\ \/ Say(k, Line("OK")) /\ agent' = [agent EXCEPT ![k].state = "ready"]
     \/ Say(k, Line("ERR")) /\ agent' = [agent EXCEPT ![k].state = "ready", ![k].failed = TRUE]
  /\ UNCHANGED toAgent

\* It reads a command and obeys, refuses, or, when the command has data, goes
\* to work.
Obeys(k, command) ==
  \/ /\ command.verb = "SIGKEY"
     /\ agent' = [agent EXCEPT ![k].key = command.arg]
     /\ Say(k, Line("OK"))
  \/ /\ command.verb = "SETHASH"
     /\ agent' = [agent EXCEPT ![k].hash = command.arg]
     /\ Say(k, Line("OK"))
  \/ /\ command.verb = "PKSIGN"
     /\ agent[k].key # None /\ agent[k].hash # None
     /\ agent' = [agent EXCEPT ![k].state = "work", ![k].sent = 0,
                               ![k].doing = [key |-> agent[k].key, hash |-> agent[k].hash]]
     /\ UNCHANGED <<mailbox, pc, task, toClient>>
  \/ /\ command.verb = "READKEY"
     /\ agent' = [agent EXCEPT ![k].state = "work", ![k].sent = 0,
                               ![k].doing = [key |-> command.arg, hash |-> None]]
     /\ UNCHANGED <<mailbox, pc, task, toClient>>

Refuses(k) ==
  /\ agent' = [agent EXCEPT ![k].state = "ready", ![k].failed = TRUE]
  /\ Say(k, Line("ERR"))

Serve(k) ==
  /\ agent[k].state = "ready"
  /\ toAgent[k] # <<>>
  /\ toAgent' = [toAgent EXCEPT ![k] = Tail(@)]
  /\ Obeys(k, Head(toAgent[k])) \/ Refuses(k)

\* It sends the lines of its reply one by one and closes the reply with OK.
Work(k) ==
  /\ agent[k].state = "work"
  /\ \/ /\ agent[k].sent < Parts
        /\ agent' = [agent EXCEPT ![k].sent = @ + 1]
        /\ Say(k, Data(agent[k].doing, agent[k].sent + 1))
     \/ /\ agent[k].sent = Parts
        /\ agent' = [agent EXCEPT ![k].state = "ready"]
        /\ Say(k, Line("OK"))
     \/ Refuses(k)
  /\ UNCHANGED toAgent

\* It waits for the END of an inquiry and goes on.
Resume(k) ==
  /\ agent[k].state = "inquire"
  /\ toAgent[k] # <<>>
  /\ Head(toAgent[k]).verb = "END"
  /\ toAgent' = [toAgent EXCEPT ![k] = Tail(@)]
  /\ agent' = [agent EXCEPT ![k].state = "work"]
  /\ UNCHANGED <<mailbox, pc, task, toClient>>

\* Status lines and inquiries while it works, and a status line before it
\* obeys a command without data, which the client takes for a failure.
Noise(k) ==
  /\ agent[k].noise < MaxNoise
  /\ \/ /\ agent[k].state = "work"
        /\ agent' = [agent EXCEPT ![k].noise = @ + 1]
        /\ Say(k, Line("S"))
     \/ /\ agent[k].state = "work"
        /\ agent' = [agent EXCEPT ![k].noise = @ + 1, ![k].state = "inquire"]
        /\ Say(k, Line("INQUIRE"))
     \/ /\ agent[k].state = "ready" /\ toAgent[k] # <<>>
        /\ Head(toAgent[k]).verb \in {"SIGKEY", "SETHASH"}
        /\ agent' = [agent EXCEPT ![k].noise = @ + 1, ![k].failed = TRUE]
        /\ Say(k, Line("S"))
  /\ UNCHANGED toAgent

HangUp(k) ==
  /\ HangsUp
  /\ agent[k].state \notin {"unused", "closed"}
  /\ agent' = [agent EXCEPT ![k].state = "closed", ![k].failed = TRUE]
  /\ UNCHANGED <<mailbox, pc, task, socket>>

Answers(k) == Greet(k) \/ Serve(k) \/ Work(k) \/ Resume(k)

Next ==
  \/ Handle
  \/ \E c \in Calls : Ask(c) \/ Run(c)
  \/ \E k \in Connections : Answers(k) \/ Noise(k) \/ HangUp(k)

Spec == Init /\ [][Next]_vars

\* The runtime schedules the actor and its tasks.
Scheduled == WF_vars(Handle) /\ \A c \in Calls : WF_vars(Run(c))
RuntimeSpec == Spec /\ Scheduled

\* The agent, too, gets on with what it has been asked.
AgentServes == \A k \in Connections : WF_vars(Answers(k))
FairSpec == RuntimeSpec /\ AgentServes

-----------------------------------------------------------------------------
(* Properties.                                                             *)

\* A task that answers with a signature or a key answers with the one its
\* caller asked for, however calls interleave, and never with a part of it or
\* of another's, however the agent interrupts or ends its reply.
AnswersAsked ==
  \A c \in Calls : answer[c] \in {None, Failed, Asked(c)}

\* A task that was connected fails only when the agent refused, broke the lock
\* step with a line that answers nothing, or hung up: status lines and
\* inquiries in a reply cost no signature.
FailsForCause ==
  \A c \in Calls : answer[c] = Failed /\ conn[c] # None => agent[conn[c]].failed

\* The mailbox stays responsive: a message is taken from it whatever the tasks
\* of earlier messages wait for.
Responsive == \A c \in Calls : pc[c] = "queued" ~> pc[c] # "queued"

\* Where the agent gets on with what it has been asked, every call is answered
\* in the end, unless the agent has closed the connection of its task.
AnsweredUnlessClosed ==
  AgentServes => \A c \in Calls : pc[c] = "queued" ~>
    pc[c] = "over" \/ (conn[c] # None /\ agent[conn[c]].state = "closed")

\* Every call is answered in the end.
Answered == \A c \in Calls : pc[c] = "queued" ~> pc[c] = "over"

-----------------------------------------------------------------------------
(* Why AnswersAsked holds: every connection is about one call.             *)

\* The data in lines, the commands and the agent a know call c alone.
LinesAbout(lines, c) ==
  \A i \in DOMAIN lines : lines[i].kind = "D" => lines[i].value = Asked(c)
CommandAbout(command, c) ==
  /\ command.verb \in {"SIGKEY", "READKEY"} => command.arg = Key[c]
  /\ command.verb = "SETHASH" => command.arg = Hash[c]
  /\ command.verb = "READKEY" => ~Signs(c)
CommandsAbout(commands, c) == \A i \in DOMAIN commands : CommandAbout(commands[i], c)
ServesOnly(a, c) ==
  /\ a.key \in {None, Key[c]}
  /\ a.hash \in {None, Hash[c]}
  /\ a.state \in {"work", "inquire"} => a.doing = Asked(c)

\* So do connection k, its sockets and the agent behind it.
IsAbout(k, c) ==
  /\ LinesAbout(toClient[k], c)
  /\ CommandsAbout(toAgent[k], c)
  /\ ServesOnly(agent[k], c)

\* A connection belongs to one task, and before that to none.
Private ==
  /\ \A c, d \in Calls : c # d /\ conn[c] # None => conn[c] # conn[d]
  /\ \A c \in Calls : conn[c] # None => agent[conn[c]].state # "unused"
  /\ \A k \in Connections : agent[k].state = "unused" =>
       toAgent[k] = <<>> /\ toClient[k] = <<>> /\ agent[k].key = None /\ agent[k].hash = None

IInv ==
  /\ TypeOK
  /\ Private
  /\ \A c \in Calls : conn[c] # None => IsAbout(conn[c], c)
  /\ \A c \in Calls : LinesAbout(data[c], c)
  /\ AnswersAsked
-----------------------------------------------------------------------------
(* Why FailsForCause holds: a task and an agent that has not failed are    *)
(* always at the same point of the protocol.  The commands and the lines   *)
(* are those under way between them.                                       *)

\* Nobody has spoken but the agent, who has greeted or is about to.
Greeting(commands, lines, a) ==
  /\ commands = <<>>
  /\ \/ a.state = "greet" /\ lines = <<>>
     \/ a.state = "ready" /\ lines = <<Line("OK")>>

\* A command without data is under way, or its OK is.
Commanded(verb, commands, lines, a) ==
  /\ a.state = "ready"
  /\ \/ Len(commands) = 1 /\ Head(commands).verb = verb /\ lines = <<>>
     \/ commands = <<>> /\ lines = <<Line("OK")>>

\* A command with data is under way and no data has come.
Requested(got, commands, lines, a) ==
  /\ a.state = "ready"
  /\ Len(commands) = 1 /\ Head(commands).verb \in {"PKSIGN", "READKEY"}
  /\ lines = <<>> /\ got = <<>>

\* Of a reply, lines holds the parts first..last, in order, and no others.
Carries(lines, value, first, last) ==
  /\ \A i \in DOMAIN lines : lines[i].kind = "D" =>
       \E part \in first..last : lines[i] = Data(value, part)
  /\ \A part \in first..last : \E i \in DOMAIN lines : lines[i] = Data(value, part)
  /\ \A i, j \in DOMAIN lines :
       i < j /\ lines[i].kind = "D" /\ lines[j].kind = "D" => lines[i].part < lines[j].part

EndsIn(lines, kind) == lines # <<>> /\ lines[Len(lines)].kind = kind

\* The agent replies: what the task has got and what is under way are the
\* parts sent so far.  It waits for an END when its last line is an inquiry,
\* and is done when that is OK; no other line is one of these.
Replying(value, got, commands, lines, a) ==
  /\ \A i \in DOMAIN got : got[i] = Data(value, i)
  /\ Len(got) <= a.sent
  /\ Carries(lines, value, Len(got) + 1, a.sent)
  /\ \A i \in DOMAIN lines : lines[i].kind \in {"OK", "ERR", "INQUIRE"} => i = Len(lines)
  /\ ~EndsIn(lines, "ERR")
  /\ EndsIn(lines, "OK") <=> a.state = "ready"
  /\ EndsIn(lines, "INQUIRE") <=> a.state = "inquire" /\ commands = <<>>
  /\ \/ a.state = "work" /\ commands = <<>>
     \/ a.state = "ready" /\ commands = <<>> /\ a.sent = Parts
     \/ a.state = "inquire" /\ commands = <<>>
     \/ a.state = "inquire" /\ Len(commands) = 1 /\ Head(commands).verb = "END"

\* A call that waits is at the point its next step says.
AtPoint(c, step, got, commands, lines, a) ==
  /\ step = "greeting" => Greeting(commands, lines, a)
  /\ step = "sigkey" => Commanded("SIGKEY", commands, lines, a)
  /\ step = "sethash" => Commanded("SETHASH", commands, lines, a)
  /\ step = "data" => \/ Requested(got, commands, lines, a)
                      \/ Replying(Asked(c), got, commands, lines, a)
  /\ step \in {"greeting", "sigkey", "sethash"} => got = <<>>

\* A call whose agent has not failed is at its point, and is not answered with
\* a failure; a call that has no connection has got nothing.
InStep(c) ==
  LET k == conn[c] IN
    IF k = None THEN data[c] = <<>>
    ELSE /\ pc[c] \notin {"idle", "queued", "task"}
         /\ ~agent[k].failed =>
              /\ AtPoint(c, pc[c], data[c], toAgent[k], toClient[k], agent[k])
              /\ answer[c] # Failed

\* Both ends of every connection agree on where they are: nothing is left in
\* the sockets of an earlier command, and no part of a reply is lost, doubled
\* or out of order between them.
LockStep == \A c \in Calls : InStep(c)
=============================================================================
