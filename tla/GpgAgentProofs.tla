---------------------------- MODULE GpgAgentProofs ----------------------------
(***************************************************************************)
(* What GpgAgent keeps for any number of calls, keys, hashes, connections, *)
(* lines of a reply and noise: a task answers with what its caller asked   *)
(* for, or fails (AnswersAsked, from IInv), and fails only for a cause     *)
(* (FailsForCause, from IInv and LockStep).                                *)
(***************************************************************************)
EXTENDS GpgAgent, SequenceTheorems, TLAPS

\* What a call asks for is a value, and None is no value.
LEMMA Facts ==
  /\ None \in Hashes /\ None \notin Values /\ None # Failed /\ None \notin Connections
  /\ \A c \in Calls :
       Key[c] \in Keys /\ Key[c] # None /\ Hash[c] \in Hashes /\ Asked(c) \in Values
BY CallsAssumption, NoneAssumption DEF Hashes, Keys, Values, Asked

\* Append adds one element at the end.
LEMMA Appended ==
  ASSUME NEW S, NEW s \in Seq(S), NEW x \in S
  PROVE  /\ Append(s, x) \in Seq(S)
         /\ \A i \in DOMAIN Append(s, x) :
              (i \in DOMAIN s /\ Append(s, x)[i] = s[i]) \/ Append(s, x)[i] = x
         /\ \A i \in DOMAIN s : i \in DOMAIN Append(s, x) /\ Append(s, x)[i] = s[i]
         /\ \E i \in DOMAIN Append(s, x) : Append(s, x)[i] = x
<1>1. /\ Append(s, x) \in Seq(S) /\ Len(s) \in Nat
      /\ DOMAIN s = 1..Len(s) /\ DOMAIN Append(s, x) = 1..(Len(s) + 1)
      /\ \A i \in 1..Len(s) : Append(s, x)[i] = s[i]
      /\ Append(s, x)[Len(s) + 1] = x
  BY AppendProperties, LenProperties
<1>2. \A i \in 1..(Len(s) + 1) : i \in 1..Len(s) \/ i = Len(s) + 1
  BY <1>1
<1>3. \A i \in 1..Len(s) : i \in 1..(Len(s) + 1)
  BY <1>1
<1>4. Len(s) + 1 \in 1..(Len(s) + 1)
  BY <1>1
<1>5. QED
  BY <1>1, <1>2, <1>3, <1>4

\* Tail leaves the elements after the first, in their order.
LEMMA Taken ==
  ASSUME NEW S, NEW s \in Seq(S), s # <<>>
  PROVE  /\ Head(s) \in S /\ Tail(s) \in Seq(S)
         /\ 1 \in DOMAIN s /\ Head(s) = s[1]
         /\ \A i \in DOMAIN Tail(s) : i \in Nat /\ i + 1 \in DOMAIN s /\ Tail(s)[i] = s[i + 1]
         /\ \A i \in DOMAIN s : i \in Nat /\ (i # 1 => i - 1 \in DOMAIN Tail(s))
OBVIOUS

-----------------------------------------------------------------------------
(* Types.                                                                  *)

\* The initial state is well typed.
LEMMA TypeInit == Init => TypeOK
<1> SUFFICES ASSUME Init PROVE TypeOK
  OBVIOUS
<1>1. agent \in [Connections -> Agents]
  BY Facts, CallsAssumption DEF Init, Agents
<1>2. /\ \A c \in Calls : pc[c] = "idle" /\ answer[c] = None
      /\ \A k \in Connections : agent[k].state = "unused"
  BY DEF Init
<1>3. /\ mailbox = <<>> /\ mailbox \in Seq(Calls) /\ DOMAIN mailbox = {}
  BY DEF Init
<1>4. /\ data \in [Calls -> Seq(DataLines)]
      /\ toAgent \in [Connections -> Seq(Commands)]
      /\ toClient \in [Connections -> Seq(Lines \union DataLines)]
  BY DEF Init
<1>5. /\ conn \in [Calls -> Connections \union {None}]
      /\ answer \in [Calls -> Values \union {Failed, None}]
      /\ pc \in [Calls -> {"idle", "queued", "task", "greeting", "sigkey", "sethash",
                           "data", "over"}]
  BY DEF Init
<1>6. QED
  BY <1>1, <1>2, <1>3, <1>4, <1>5 DEF TypeOK, Waiting

\* The agents are typed.
AgentsOK ==
  /\ agent \in [Connections -> Agents]
  /\ \A k \in Connections : agent[k].state \in {"work", "inquire"} => agent[k].doing # None

\* A connection's agent is replaced by another one.
LEMMA Updated ==
  ASSUME AgentsOK, NEW k \in Connections, NEW a \in Agents,
         a.state \in {"work", "inquire"} => a.doing # None,
         agent' = [agent EXCEPT ![k] = a]
  PROVE  AgentsOK'
BY DEF AgentsOK

\* The steps a call goes through before it is over.
Steps == {"task", "greeting", "sigkey", "sethash", "data"}

\* A task that answers keeps the types.
LEMMA AnswerTyped ==
  ASSUME TypeOK, NEW c \in Calls, NEW result \in Values \union {Failed},
         pc[c] \in Steps, AnswerWith(c, result),
         data' \in [Calls -> Seq(DataLines)], toAgent' \in [Connections -> Seq(Commands)],
         toClient' \in [Connections -> Seq(Lines \union DataLines)],
         agent' = agent
  PROVE  TypeOK'
BY Facts DEF AnswerWith, TypeOK, Waiting, Steps

\* So does one that sends a command, or cannot.
LEMMA SendTyped ==
  ASSUME TypeOK, NEW c \in Calls, Waiting(c),
         NEW verb, NEW arg, [verb |-> verb, arg |-> arg] \in Commands,
         NEW next \in {"sigkey", "sethash", "data"},
         Send(c, verb, arg, next),
         data' \in [Calls -> Seq(DataLines)],
         toClient' \in [Connections -> Seq(Lines \union DataLines)],
         agent' = agent
  PROVE  TypeOK'
<1>1. CASE agent[conn[c]].state # "closed"
  <2>2. /\ conn[c] \in Connections /\ toAgent[conn[c]] \in Seq(Commands)
        /\ Append(toAgent[conn[c]], [verb |-> verb, arg |-> arg]) \in Seq(Commands)
    <3>1. conn[c] \in Connections /\ toAgent[conn[c]] \in Seq(Commands)
      BY DEF TypeOK, Waiting
    <3>2. QED
      BY <3>1, Appended
  <2>3. toAgent' \in [Connections -> Seq(Commands)]
    BY <1>1, <2>2 DEF Send, TypeOK
  <2>4. /\ pc' = [pc EXCEPT ![c] = next] /\ UNCHANGED <<mailbox, conn, answer>>
        /\ pc[c] \in {"greeting", "sigkey", "sethash", "data"} /\ conn[c] # None
    BY <1>1 DEF Send, TypeOK, Waiting
  <2>5. /\ pc' \in [Calls -> {"idle", "queued", "task", "greeting", "sigkey", "sethash",
                              "data", "over"}]
        /\ \A d \in Calls : d # c => pc'[d] = pc[d]
        /\ pc'[c] = next /\ pc'[c] \notin {"queued", "over"}
    BY <2>4 DEF TypeOK
  <2>6. \A d \in Calls : pc'[d] = "queued" <=> pc[d] = "queued"
    BY <2>4, <2>5
  <2>7. QED
    BY <2>3, <2>4, <2>5, <2>6 DEF TypeOK, Waiting
<1>2. CASE ~(agent[conn[c]].state # "closed")
  <2>1. pc[c] \in Steps
    BY DEF Waiting, Steps
  <2>2. AnswerWith(c, Failed) /\ toAgent' = toAgent
    BY <1>2 DEF Send
  <2>3. toAgent' \in [Connections -> Seq(Commands)]
    BY <2>2 DEF TypeOK
  <2>4. QED
    BY <2>1, <2>2, <2>3, AnswerTyped
<1>3. QED
  BY <1>1, <1>2

\* A line that is taken leaves lines.
LEMMA ConsumeTyped ==
  ASSUME TypeOK, NEW c \in Calls, Waiting(c), Arrived(c), Consume(c)
  PROVE  /\ conn[c] \in Connections
         /\ toClient' \in [Connections -> Seq(Lines \union DataLines)]
         /\ Head(toClient[conn[c]]) \in Lines \union DataLines
<1>1. conn[c] \in Connections /\ toClient[conn[c]] \in Seq(Lines \union DataLines)
  BY DEF TypeOK
<1>2. toClient[conn[c]] # <<>>
  BY DEF Arrived
<1>3. /\ Head(toClient[conn[c]]) \in Lines \union DataLines
      /\ Tail(toClient[conn[c]]) \in Seq(Lines \union DataLines)
  BY <1>1, <1>2, Taken
<1>4. QED
  BY <1>1, <1>3 DEF Consume, TypeOK

\* What the parsers find is a value or nothing.
LEMMA ParsedTyped ==
  ASSUME NEW lines \in Seq(DataLines)
  PROVE  Parsed(lines) \in Values \union {Failed}
<1>1. CASE \E value \in Values : lines = Reply(value)
  <2>1. PICK value \in Values : lines = Reply(value)
    BY <1>1
  <2>2. 1 \in 1..Parts
    BY CallsAssumption
  <2>3. lines[1].value = value
    BY <2>1, <2>2 DEF Reply, Data
  <2>4. QED
    BY <1>1, <2>3 DEF Parsed
<1>2. CASE ~\E value \in Values : lines = Reply(value)
  BY <1>2 DEF Parsed
<1>3. QED
  BY <1>1, <1>2

\* A line of data is added to the data.
LEMMA DataTyped ==
  ASSUME TypeOK, NEW c \in Calls, NEW line \in DataLines,
         data' = [data EXCEPT ![c] = Append(@, line)]
  PROVE  data' \in [Calls -> Seq(DataLines)]
BY Appended DEF TypeOK

\* Every step of the actor and its callers keeps the types.
LEMMA TypeActor ==
  ASSUME TypeOK, Handle \/ \E c \in Calls : Ask(c)
  PROVE  TypeOK'
<1>1. ASSUME NEW c \in Calls, Ask(c)
      PROVE  TypeOK'
  <2>1. \A i \in DOMAIN mailbox : mailbox[i] # c
    BY <1>1 DEF Ask, TypeOK
  <2>2. /\ mailbox' \in Seq(Calls)
        /\ \A i \in DOMAIN mailbox' : (i \in DOMAIN mailbox /\ mailbox'[i] = mailbox[i]) \/ mailbox'[i] = c
        /\ \A i \in DOMAIN mailbox : i \in DOMAIN mailbox' /\ mailbox'[i] = mailbox[i]
        /\ \E i \in DOMAIN mailbox' : mailbox'[i] = c
    <3>1. mailbox \in Seq(Calls) /\ mailbox' = Append(mailbox, c)
      BY <1>1 DEF Ask, TypeOK
    <3>2. QED
      BY <3>1, Appended
  <2>3. \A i, j \in DOMAIN mailbox' : mailbox'[i] = mailbox'[j] => i = j
    <3>1. mailbox \in Seq(Calls) /\ mailbox' = Append(mailbox, c)
      BY <1>1 DEF Ask, TypeOK
    <3>2. \A i, j \in DOMAIN mailbox : mailbox[i] = mailbox[j] => i = j
      BY DEF TypeOK
    <3>3. ASSUME NEW i \in DOMAIN mailbox', NEW j \in DOMAIN mailbox', mailbox'[i] = mailbox'[j]
          PROVE  i = j
      <4>1. /\ DOMAIN mailbox = 1..Len(mailbox) /\ Len(mailbox) \in Nat
            /\ DOMAIN mailbox' = 1..(Len(mailbox) + 1)
            /\ \A n \in 1..Len(mailbox) : mailbox'[n] = mailbox[n]
            /\ mailbox'[Len(mailbox) + 1] = c
        BY <3>1, AppendProperties, LenProperties
      <4>2. /\ i \in 1..Len(mailbox) \/ i = Len(mailbox) + 1
            /\ j \in 1..Len(mailbox) \/ j = Len(mailbox) + 1
        BY <4>1, <3>3
      <4>3. CASE i \in 1..Len(mailbox)
        BY <2>1, <3>2, <3>3, <4>1, <4>2, <4>3
      <4>4. CASE i = Len(mailbox) + 1
        BY <2>1, <3>2, <3>3, <4>1, <4>2, <4>4
      <4>5. QED
        BY <4>2, <4>3, <4>4
    <3>4. QED
      BY <3>3
  <2>4. \A d \in Calls : pc'[d] = "queued" <=> \E i \in DOMAIN mailbox' : mailbox'[i] = d
    BY <1>1, <2>2 DEF Ask, TypeOK
  <2>5. QED
    BY <1>1, <2>2, <2>3, <2>4 DEF Ask, task, socket, TypeOK, Waiting
<1>2. CASE Handle
  <2>1. PICK c \in Calls : c = Head(mailbox)
    BY <1>2, Taken DEF Handle, TypeOK
  <2>2. /\ mailbox' \in Seq(Calls)
        /\ \A i \in DOMAIN mailbox' : i \in Nat /\ i + 1 \in DOMAIN mailbox /\ mailbox'[i] = mailbox[i + 1]
        /\ \A i \in DOMAIN mailbox : i \in Nat /\ (i # 1 => i - 1 \in DOMAIN mailbox')
        /\ 1 \in DOMAIN mailbox /\ mailbox[1] = c
    BY <1>2, <2>1, Taken DEF Handle, TypeOK
  <2>3. pc[c] = "queued"
    BY <2>2 DEF TypeOK
  <2>4. \A i, j \in DOMAIN mailbox' : mailbox'[i] = mailbox'[j] => i = j
    BY <2>2 DEF TypeOK
  <2>5. ASSUME NEW d \in Calls
        PROVE  pc'[d] = "queued" <=> \E i \in DOMAIN mailbox' : mailbox'[i] = d
    <3>1. CASE d = c
      <4>1. \A i \in DOMAIN mailbox' : mailbox'[i] # c
        BY <2>2 DEF TypeOK
      <4>2. pc'[c] = "task"
        BY <1>2, <2>1 DEF Handle, TypeOK
      <4>3. QED
        BY <3>1, <4>1, <4>2
    <3>2. CASE d # c
      <4>1. pc'[d] = pc[d]
        BY <1>2, <2>1, <3>2 DEF Handle, TypeOK
      <4>2. ASSUME NEW i \in DOMAIN mailbox, mailbox[i] = d
            PROVE  \E j \in DOMAIN mailbox' : mailbox'[j] = d
        <5>1. i # 1 /\ i - 1 \in DOMAIN mailbox' /\ i \in Nat
          BY <2>2, <3>2, <4>2
        <5>2. mailbox'[i - 1] = mailbox[(i - 1) + 1] /\ (i - 1) + 1 = i
          BY <2>2, <5>1
        <5>3. QED
          BY <4>2, <5>1, <5>2
      <4>3. QED
        BY <2>2, <4>1, <4>2 DEF TypeOK
    <3>3. QED
      BY <3>1, <3>2
  <2>6. pc' = [pc EXCEPT ![c] = "task"]
    BY <1>2, <2>1 DEF Handle
  <2>7. QED
    BY <1>2, <2>2, <2>3, <2>4, <2>5, <2>6 DEF Handle, task, socket, TypeOK, Waiting
<1>3. QED
  BY <1>1, <1>2

\* Every step of a task keeps the types.
LEMMA TypeRun ==
  ASSUME TypeOK, NEW c \in Calls, Run(c)
  PROVE  TypeOK'
<1>1. CASE Export(c)
  <2>1. PICK result \in {Asked(c), Failed} : AnswerWith(c, result)
    BY <1>1 DEF Export
  <2>2. pc[c] \in Steps /\ result \in Values \union {Failed}
    BY <1>1, Facts DEF Export, Steps
  <2>3. QED
    BY <1>1, <2>1, <2>2, AnswerTyped DEF Export, socket, TypeOK
<1>2. ASSUME NEW k \in Connections, Connect(c, k)
      PROVE  TypeOK'
  <2>1. AgentsOK'
    <3> DEFINE a == [agent[k] EXCEPT !.state = "greet"]
    <3>1. agent[k] \in Agents /\ AgentsOK
      BY DEF AgentsOK, TypeOK
    <3>2. a \in Agents
      BY <3>1 DEF Agents
    <3>3. a.state \in {"work", "inquire"} => a.doing # None
      BY <3>1, <1>2 DEF Agents, AgentsOK, Connect
    <3>4. agent' = [agent EXCEPT ![k] = a]
      BY <3>1, <1>2 DEF AgentsOK, Connect
    <3>5. QED
      BY <3>1, <3>2, <3>3, <3>4, Updated
  <2>2. /\ pc[c] = "task" /\ pc' = [pc EXCEPT ![c] = "greeting"]
        /\ conn' = [conn EXCEPT ![c] = k] /\ k # None
        /\ UNCHANGED <<mailbox, data, answer, toAgent, toClient>>
    BY <1>2, Facts DEF Connect, socket
  <2>3. QED
    BY <2>1, <2>2 DEF AgentsOK, TypeOK, Waiting
<1>3. CASE ConnectFails(c)
  <2>1. pc[c] \in Steps /\ AnswerWith(c, Failed) /\ UNCHANGED <<data, toAgent, toClient, agent>>
    BY <1>3 DEF ConnectFails, Steps, socket
  <2>2. QED
    BY <2>1, AnswerTyped DEF TypeOK
<1>4. CASE ExpectOk(c)
  <2>1. Waiting(c) /\ pc[c] \in Steps /\ UNCHANGED <<data, agent>>
    BY <1>4 DEF ExpectOk, Waiting, Steps
  <2>2. /\ data' \in [Calls -> Seq(DataLines)]
        /\ toAgent \in [Connections -> Seq(Commands)]
        /\ toClient \in [Connections -> Seq(Lines \union DataLines)]
    BY <2>1 DEF TypeOK
  <2>3. CASE Arrived(c) /\ Consume(c) /\ Kind(c) = "OK" /\ SendNext(c)
    <3>1. toClient' \in [Connections -> Seq(Lines \union DataLines)]
      BY <2>1, <2>3, ConsumeTyped
    <3>2. /\ [verb |-> "SIGKEY", arg |-> Key[c]] \in Commands
          /\ [verb |-> "READKEY", arg |-> Key[c]] \in Commands
          /\ [verb |-> "SETHASH", arg |-> Hash[c]] \in Commands
          /\ [verb |-> "PKSIGN", arg |-> None] \in Commands
      BY Facts DEF Commands
    <3>3. \/ Send(c, "SIGKEY", Key[c], "sigkey")
          \/ Send(c, "READKEY", Key[c], "data")
          \/ Send(c, "SETHASH", Hash[c], "sethash")
          \/ Send(c, "PKSIGN", None, "data")
      BY <2>3 DEF SendNext
    <3>4. QED
      BY <2>1, <2>2, <3>1, <3>2, <3>3, SendTyped
  <2>4. CASE Arrived(c) /\ Consume(c) /\ AnswerWith(c, Failed) /\ UNCHANGED toAgent
    BY <2>1, <2>2, <2>4, ConsumeTyped, AnswerTyped
  <2>5. CASE AnswerWith(c, Failed) /\ UNCHANGED socket
    BY <2>1, <2>2, <2>5, AnswerTyped DEF socket
  <2>6. QED
    BY <1>4, <2>3, <2>4, <2>5 DEF ExpectOk
<1>5. CASE ReadData(c)
  <2>1. Waiting(c) /\ pc[c] \in Steps /\ UNCHANGED agent
    BY <1>5 DEF ReadData, Waiting, Steps
  <2>2. /\ data \in [Calls -> Seq(DataLines)]
        /\ toAgent \in [Connections -> Seq(Commands)]
        /\ toClient \in [Connections -> Seq(Lines \union DataLines)]
        /\ Parsed(data[c]) \in Values \union {Failed}
    BY <2>1, ParsedTyped DEF TypeOK
  <2>3. CASE Arrived(c) /\ Consume(c)
    <3>1. /\ toClient' \in [Connections -> Seq(Lines \union DataLines)]
          /\ Head(toClient[conn[c]]) \in Lines \union DataLines
      BY <2>1, <2>3, ConsumeTyped
    <3>2. CASE /\ Kind(c) = "D"
               /\ data' = [data EXCEPT ![c] = Append(@, Head(toClient[conn[c]]))]
               /\ UNCHANGED <<mailbox, pc, conn, answer, toAgent>>
      <4>1. Head(toClient[conn[c]]) \in DataLines
        BY <3>1, <3>2 DEF Kind, Lines
      <4>2. data' \in [Calls -> Seq(DataLines)]
        BY <3>2, <4>1, DataTyped
      <4>3. QED
        BY <2>1, <2>2, <3>1, <3>2, <4>2 DEF TypeOK, Waiting
    <3>3. CASE Send(c, "END", None, "data") /\ UNCHANGED data
      <4>1. [verb |-> "END", arg |-> None] \in Commands
        BY DEF Commands
      <4>2. QED
        BY <2>1, <2>2, <3>1, <3>3, <4>1, SendTyped
    <3>4. CASE UNCHANGED <<mailbox, pc, task, toAgent>>
      BY <2>1, <2>2, <3>1, <3>4 DEF task, TypeOK, Waiting
    <3>5. CASE AnswerWith(c, Parsed(data[c])) /\ UNCHANGED <<data, toAgent>>
      BY <2>1, <2>2, <3>1, <3>5, AnswerTyped
    <3>6. CASE AnswerWith(c, Failed) /\ UNCHANGED <<data, toAgent>>
      BY <2>1, <2>2, <3>1, <3>6, AnswerTyped
    <3>7. \/ /\ Kind(c) = "D"
             /\ data' = [data EXCEPT ![c] = Append(@, Head(toClient[conn[c]]))]
             /\ UNCHANGED <<mailbox, pc, conn, answer, toAgent>>
          \/ Send(c, "END", None, "data") /\ UNCHANGED data
          \/ UNCHANGED <<mailbox, pc, task, toAgent>>
          \/ AnswerWith(c, Parsed(data[c])) /\ UNCHANGED <<data, toAgent>>
          \/ AnswerWith(c, Failed) /\ UNCHANGED <<data, toAgent>>
      <4>1. ~AtEnd(c) /\ ~Reset(c)
        BY <2>3 DEF AtEnd, Reset
      <4>2. QED
        BY <1>5, <4>1 DEF ReadData
    <3>8. QED
      BY <3>2, <3>3, <3>4, <3>5, <3>6, <3>7
  <2>4. CASE AnswerWith(c, Failed) /\ UNCHANGED <<data, socket>>
    BY <2>1, <2>2, <2>4, AnswerTyped DEF socket
  <2>5. CASE UNCHANGED <<mailbox, pc, task, socket>>
    BY <2>1, <2>2, <2>5 DEF task, socket, TypeOK, Waiting
  <2>6. QED
    BY <1>5, <2>3, <2>4, <2>5 DEF ReadData
<1>6. QED
  BY <1>1, <1>2, <1>3, <1>4, <1>5 DEF Run

\* The agent disturbs the sockets and itself only.
LEMMA AgentTyped ==
  ASSUME TypeOK, UNCHANGED <<mailbox, pc, task>>,
         toAgent' \in [Connections -> Seq(Commands)],
         toClient' \in [Connections -> Seq(Lines \union DataLines)],
         AgentsOK'
  PROVE  TypeOK'
BY DEF AgentsOK, task, TypeOK, Waiting

\* A line it says enters the client's socket.
LEMMA SayTyped ==
  ASSUME TypeOK, NEW k \in Connections, NEW line \in Lines \union DataLines, Say(k, line),
         toAgent' \in [Connections -> Seq(Commands)],
         AgentsOK'
  PROVE  TypeOK'
<1>1. /\ toClient \in [Connections -> Seq(Lines \union DataLines)]
      /\ toClient[k] \in Seq(Lines \union DataLines)
  BY DEF TypeOK
<1>2. Append(toClient[k], line) \in Seq(Lines \union DataLines)
  BY <1>1, Appended
<1>3. toClient' \in [Connections -> Seq(Lines \union DataLines)]
  BY <1>1, <1>2 DEF Say
<1>4. QED
  BY <1>3, AgentTyped DEF Say

\* What the agent may say besides data.
LEMMA Said == \A kind \in {"OK", "ERR", "S", "INQUIRE"} : Line(kind) \in Lines \union DataLines
BY DEF Line, Lines

\* A refusal is a line, and marks the connection.
LEMMA RefusalTyped ==
  ASSUME TypeOK, NEW k \in Connections, Refuses(k),
         toAgent' \in [Connections -> Seq(Commands)]
  PROVE  TypeOK'
<1>1. AgentsOK'
  <2> DEFINE a == [agent[k] EXCEPT !.state = "ready", !.failed = TRUE]
  <2>1. agent[k] \in Agents /\ AgentsOK
    BY DEF AgentsOK, TypeOK
  <2>2. a \in Agents
    BY <2>1 DEF Agents
  <2>3. a.state \in {"work", "inquire"} => a.doing # None
    BY <2>1, Refuses(k) DEF Agents, AgentsOK, Refuses
  <2>4. agent' = [agent EXCEPT ![k] = a]
    BY <2>1, Refuses(k) DEF AgentsOK, Refuses
  <2>5. QED
    BY <2>1, <2>2, <2>3, <2>4, Updated
<1>2. QED
  BY <1>1, Said, SayTyped DEF Refuses

\* Every step of the agent keeps the types.
LEMMA TypeAgent ==
  ASSUME TypeOK, NEW k \in Connections, Answers(k) \/ Noise(k) \/ HangUp(k)
  PROVE  TypeOK'
<1>1. /\ toAgent \in [Connections -> Seq(Commands)]
      /\ toClient \in [Connections -> Seq(Lines \union DataLines)]
      /\ agent \in [Connections -> Agents] /\ AgentsOK
  BY DEF AgentsOK, TypeOK
<1>2. ASSUME toAgent[k] # <<>>, toAgent' = [toAgent EXCEPT ![k] = Tail(@)]
      PROVE  Head(toAgent[k]) \in Commands /\ toAgent' \in [Connections -> Seq(Commands)]
  <2>1. toAgent[k] \in Seq(Commands)
    BY <1>1
  <2>2. Head(toAgent[k]) \in Commands /\ Tail(toAgent[k]) \in Seq(Commands)
    BY <1>2, <2>1, Taken
  <2>3. QED
    BY <1>1, <1>2, <2>2
<1>3. CASE Greet(k)
  <2>1. AgentsOK'
    <3>1. CASE agent' = [agent EXCEPT ![k].state = "ready"]
      <4> DEFINE a == [agent[k] EXCEPT !.state = "ready"]
      <4>1. agent[k] \in Agents /\ AgentsOK
        BY DEF AgentsOK, TypeOK
      <4>2. a \in Agents
        BY <4>1 DEF Agents
      <4>3. a.state \in {"work", "inquire"} => a.doing # None
        BY <4>1, <3>1 DEF Agents, AgentsOK
      <4>4. agent' = [agent EXCEPT ![k] = a]
        BY <4>1, <3>1 DEF AgentsOK
      <4>5. QED
        BY <4>1, <4>2, <4>3, <4>4, Updated
    <3>2. CASE agent' = [agent EXCEPT ![k].state = "ready", ![k].failed = TRUE]
      <4> DEFINE a == [agent[k] EXCEPT !.state = "ready", !.failed = TRUE]
      <4>1. agent[k] \in Agents /\ AgentsOK
        BY DEF AgentsOK, TypeOK
      <4>2. a \in Agents
        BY <4>1 DEF Agents
      <4>3. a.state \in {"work", "inquire"} => a.doing # None
        BY <4>1, <3>2 DEF Agents, AgentsOK
      <4>4. agent' = [agent EXCEPT ![k] = a]
        BY <4>1, <3>2 DEF AgentsOK
      <4>5. QED
        BY <4>1, <4>2, <4>3, <4>4, Updated
    <3>3. QED
      BY <1>3, <3>1, <3>2 DEF Greet
  <2>2. QED
    BY <1>1, <1>3, <2>1, Said, SayTyped DEF Greet
<1>4. CASE Serve(k)
  <2>1. Head(toAgent[k]) \in Commands /\ toAgent' \in [Connections -> Seq(Commands)]
    BY <1>2, <1>4 DEF Serve
  <2>2. CASE Refuses(k)
    BY <2>1, <2>2, RefusalTyped
  <2>3. CASE Obeys(k, Head(toAgent[k]))
    <3> DEFINE command == Head(toAgent[k])
    <3>1. /\ command.verb \in {"SIGKEY", "READKEY"} => command.arg \in Keys
          /\ command.verb = "SETHASH" => command.arg \in Hashes
      BY <2>1 DEF Commands
    <3>2. agent[k] \in Agents /\ agent[k].key \in Keys \union {None} /\ agent[k].hash \in Hashes
      BY <1>1 DEF Agents
    <3>3. AgentsOK'
      <4>1. CASE command.verb = "SIGKEY" /\ agent' = [agent EXCEPT ![k].key = command.arg]
        <5> DEFINE a == [agent[k] EXCEPT !.key = command.arg]
        <5>1. agent[k] \in Agents /\ AgentsOK
          BY DEF AgentsOK, TypeOK
        <5>2. a \in Agents
          BY <5>1, <3>1, <4>1 DEF Agents
        <5>3. a.state \in {"work", "inquire"} => a.doing # None
          BY <5>1, <3>1, <4>1 DEF Agents, AgentsOK
        <5>4. agent' = [agent EXCEPT ![k] = a]
          BY <5>1, <4>1 DEF AgentsOK
        <5>5. QED
          BY <5>1, <5>2, <5>3, <5>4, Updated
      <4>2. CASE command.verb = "SETHASH" /\ agent' = [agent EXCEPT ![k].hash = command.arg]
        <5> DEFINE a == [agent[k] EXCEPT !.hash = command.arg]
        <5>1. agent[k] \in Agents /\ AgentsOK
          BY DEF AgentsOK, TypeOK
        <5>2. a \in Agents
          BY <5>1, <3>1, <4>2 DEF Agents
        <5>3. a.state \in {"work", "inquire"} => a.doing # None
          BY <5>1, <3>1, <4>2 DEF Agents, AgentsOK
        <5>4. agent' = [agent EXCEPT ![k] = a]
          BY <5>1, <4>2 DEF AgentsOK
        <5>5. QED
          BY <5>1, <5>2, <5>3, <5>4, Updated
      <4> DEFINE next(value) == [agent EXCEPT ![k].state = "work", ![k].sent = 0, ![k].doing = value]
      <4>3. ASSUME NEW value \in Values, agent' = next(value)
            PROVE  AgentsOK'
        <5>1. 0 \in 0..Parts /\ value # None
          BY CallsAssumption, Facts
        <5>2. QED
          <6> DEFINE a == [agent[k] EXCEPT !.state = "work", !.sent = 0, !.doing = value]
          <6>1. agent[k] \in Agents /\ AgentsOK
            BY DEF AgentsOK, TypeOK
          <6>2. a \in Agents
            BY <6>1, <5>1 DEF Agents
          <6>3. a.state \in {"work", "inquire"} => a.doing # None
            BY <6>1, <4>3, <5>1 DEF Agents, AgentsOK
          <6>4. agent' = [agent EXCEPT ![k] = a]
            BY <6>1, <4>3 DEF AgentsOK
          <6>5. QED
            BY <6>1, <6>2, <6>3, <6>4, Updated
      <4>4. CASE /\ command.verb = "PKSIGN" /\ agent[k].key # None
                 /\ agent' = next([key |-> agent[k].key, hash |-> agent[k].hash])
        <5>1. [key |-> agent[k].key, hash |-> agent[k].hash] \in Values
          BY <3>2, <4>4 DEF Values
        <5>2. QED
          BY <4>3, <4>4, <5>1
      <4>5. CASE /\ command.verb = "READKEY"
                 /\ agent' = next([key |-> command.arg, hash |-> None])
        <5>1. [key |-> command.arg, hash |-> None] \in Values
          BY <3>1, <4>5, Facts DEF Values
        <5>2. QED
          BY <4>3, <4>5, <5>1
      <4>6. QED
        BY <2>3, <4>1, <4>2, <4>4, <4>5 DEF Obeys
    <3>4. Say(k, Line("OK")) \/ UNCHANGED <<mailbox, pc, task, toClient>>
      BY <2>3 DEF Obeys
    <3>5. QED
      BY <1>1, <2>1, <3>3, <3>4, Said, SayTyped, AgentTyped
  <2>4. QED
    BY <1>4, <2>2, <2>3 DEF Serve
<1>5. CASE Work(k)
  <2>1. agent[k].doing \in Values /\ agent[k].sent \in 0..Parts /\ agent[k].state = "work"
    BY <1>1, <1>5 DEF Work, Agents, AgentsOK
  <2>2. CASE Refuses(k)
    BY <1>1, <1>5, <2>2, RefusalTyped DEF Work
  <2>3. CASE /\ agent[k].sent < Parts
             /\ agent' = [agent EXCEPT ![k].sent = @ + 1]
             /\ Say(k, Data(agent[k].doing, agent[k].sent + 1))
    <3>1. agent[k].sent + 1 \in 1..Parts /\ agent[k].sent + 1 \in 0..Parts
      BY <2>1, <2>3, CallsAssumption
    <3>2. Data(agent[k].doing, agent[k].sent + 1) \in Lines \union DataLines
      BY <2>1, <3>1 DEF Data, DataLines
    <3>3. AgentsOK'
      BY <1>1, <2>3, <3>1 DEF Agents, AgentsOK
    <3>4. QED
      BY <1>1, <1>5, <2>3, <3>2, <3>3, SayTyped DEF Work
  <2>4. CASE agent' = [agent EXCEPT ![k].state = "ready"] /\ Say(k, Line("OK"))
    <3>1. AgentsOK'
      BY <1>1, <2>4 DEF Agents, AgentsOK
    <3>2. QED
      BY <1>1, <1>5, <2>4, <3>1, Said, SayTyped DEF Work
  <2>5. QED
    BY <1>5, <2>2, <2>3, <2>4 DEF Work
<1>6. CASE Resume(k)
  <2>1. toAgent' \in [Connections -> Seq(Commands)]
    BY <1>2, <1>6 DEF Resume
  <2>2. AgentsOK'
    BY <1>1, <1>6 DEF Resume, Agents, AgentsOK
  <2>3. QED
    BY <1>1, <1>6, <2>1, <2>2, AgentTyped DEF Resume
<1>7. CASE Noise(k)
  <2>1. /\ agent[k].noise \in 0..MaxNoise /\ agent[k].noise < MaxNoise /\ MaxNoise \in Nat
        /\ agent[k].noise + 1 \in 0..MaxNoise
    BY <1>1, <1>7, CallsAssumption DEF Noise, Agents, AgentsOK
  <2>2. AgentsOK'
    <3>1. CASE agent' = [agent EXCEPT ![k].noise = @ + 1]
      <4> DEFINE a == [agent[k] EXCEPT !.noise = @ + 1]
      <4>1. agent[k] \in Agents /\ AgentsOK
        BY DEF AgentsOK, TypeOK
      <4>2. a \in Agents
        BY <4>1, <2>1 DEF Agents
      <4>3. a.state \in {"work", "inquire"} => a.doing # None
        BY <4>1, <3>1, <2>1 DEF Agents, AgentsOK
      <4>4. agent' = [agent EXCEPT ![k] = a]
        BY <4>1, <3>1 DEF AgentsOK
      <4>5. QED
        BY <4>1, <4>2, <4>3, <4>4, Updated
    <3>2. CASE /\ agent[k].state = "work"
               /\ agent' = [agent EXCEPT ![k].noise = @ + 1, ![k].state = "inquire"]
      <4> DEFINE a == [agent[k] EXCEPT !.noise = @ + 1, !.state = "inquire"]
      <4>1. agent[k] \in Agents /\ AgentsOK
        BY DEF AgentsOK, TypeOK
      <4>2. a \in Agents
        BY <4>1, <2>1 DEF Agents
      <4>3. a.state \in {"work", "inquire"} => a.doing # None
        BY <4>1, <3>2, <2>1 DEF Agents, AgentsOK
      <4>4. agent' = [agent EXCEPT ![k] = a]
        BY <4>1, <3>2 DEF AgentsOK
      <4>5. QED
        BY <4>1, <4>2, <4>3, <4>4, Updated
    <3>3. CASE /\ agent[k].state = "ready"
               /\ agent' = [agent EXCEPT ![k].noise = @ + 1, ![k].failed = TRUE]
      <4> DEFINE a == [agent[k] EXCEPT !.noise = @ + 1, !.failed = TRUE]
      <4>1. agent[k] \in Agents /\ AgentsOK
        BY DEF AgentsOK, TypeOK
      <4>2. a \in Agents
        BY <4>1, <2>1 DEF Agents
      <4>3. a.state \in {"work", "inquire"} => a.doing # None
        BY <4>1, <3>3, <2>1 DEF Agents, AgentsOK
      <4>4. agent' = [agent EXCEPT ![k] = a]
        BY <4>1, <3>3 DEF AgentsOK
      <4>5. QED
        BY <4>1, <4>2, <4>3, <4>4, Updated
    <3>4. QED
      BY <1>7, <3>1, <3>2, <3>3 DEF Noise
  <2>3. QED
    BY <1>1, <1>7, <2>2, Said, SayTyped DEF Noise
<1>8. CASE HangUp(k)
  <2>1. AgentsOK'
    <3> DEFINE a == [agent[k] EXCEPT !.state = "closed", !.failed = TRUE]
    <3>1. agent[k] \in Agents /\ AgentsOK
      BY DEF AgentsOK, TypeOK
    <3>2. a \in Agents
      BY <3>1 DEF Agents
    <3>3. a.state \in {"work", "inquire"} => a.doing # None
      BY <3>1, <1>8 DEF Agents, AgentsOK, HangUp
    <3>4. agent' = [agent EXCEPT ![k] = a]
      BY <3>1, <1>8 DEF AgentsOK, HangUp
    <3>5. QED
      BY <3>1, <3>2, <3>3, <3>4, Updated
  <2>2. QED
    BY <1>1, <1>8, <2>1, AgentTyped DEF HangUp, socket
<1>9. QED
  BY <1>3, <1>4, <1>5, <1>6, <1>7, <1>8 DEF Answers

\* Every step keeps the types.
LEMMA TypeNext == TypeOK /\ [Next]_vars => TypeOK'
<1> SUFFICES ASSUME TypeOK, [Next]_vars PROVE TypeOK'
  OBVIOUS
<1>1. CASE UNCHANGED vars
  BY <1>1 DEF vars, task, socket, TypeOK, Waiting
<1>2. CASE Next
  BY <1>2, TypeActor, TypeRun, TypeAgent DEF Next
<1>3. QED
  BY <1>1, <1>2

\* The actor's mailbox holds each queued call once, a task that waits has a
\* connection, and a call is answered exactly when it is over.
THEOREM TypeCorrect == Spec => []TypeOK
<1>1. Init => TypeOK
  BY TypeInit
<1>2. TypeOK /\ [Next]_vars => TypeOK'
  BY TypeNext
<1>3. QED
  BY <1>1, <1>2, PTL DEF Spec

-----------------------------------------------------------------------------
(* Whom the sockets are about.                                             *)

\* Lines that are taken or added one by one.
LEMMA LinesTaken ==
  ASSUME NEW S, NEW lines \in Seq(S), lines # <<>>, NEW c \in Calls, LinesAbout(lines, c)
  PROVE  /\ LinesAbout(Tail(lines), c)
         /\ Head(lines).kind = "D" => Head(lines).value = Asked(c)
BY Taken DEF LinesAbout

LEMMA LinesAdded ==
  ASSUME NEW S, NEW lines \in Seq(S), NEW line \in S, NEW c \in Calls, LinesAbout(lines, c),
         line.kind = "D" => line.value = Asked(c)
  PROVE  LinesAbout(Append(lines, line), c)
BY Appended DEF LinesAbout

\* Commands likewise.
LEMMA CommandsTaken ==
  ASSUME NEW S, NEW commands \in Seq(S), commands # <<>>, NEW c \in Calls,
         CommandsAbout(commands, c)
  PROVE  CommandsAbout(Tail(commands), c) /\ CommandAbout(Head(commands), c)
<1>1. /\ 1 \in DOMAIN commands /\ Head(commands) = commands[1]
      /\ \A i \in DOMAIN Tail(commands) :
           i + 1 \in DOMAIN commands /\ Tail(commands)[i] = commands[i + 1]
  BY Taken
<1>2. QED
  BY <1>1 DEF CommandsAbout

LEMMA CommandsAdded ==
  ASSUME NEW S, NEW commands \in Seq(S), NEW command \in S, NEW c \in Calls,
         CommandsAbout(commands, c), CommandAbout(command, c)
  PROVE  CommandsAbout(Append(commands, command), c)
<1>1. \A i \in DOMAIN Append(commands, command) :
        (i \in DOMAIN commands /\ Append(commands, command)[i] = commands[i])
          \/ Append(commands, command)[i] = command
  BY Appended
<1>2. QED
  BY <1>1 DEF CommandsAbout

\* The answer that whole own data gives is the call's own.
LEMMA ParsedOwn ==
  ASSUME NEW c \in Calls, NEW lines, LinesAbout(lines, c)
  PROVE  Parsed(lines) \in {Failed, Asked(c)}
<1>1. CASE \E value \in Values : lines = Reply(value)
  <2>1. PICK value \in Values : lines = Reply(value)
    BY <1>1
  <2>2. 1 \in 1..Parts
    BY CallsAssumption
  <2>3. 1 \in DOMAIN lines /\ lines[1].kind = "D"
    BY <2>1, <2>2 DEF Reply, Data
  <2>4. lines[1].value = Asked(c)
    BY <2>3 DEF LinesAbout
  <2>5. QED
    BY <1>1, <2>4 DEF Parsed
<1>2. CASE ~\E value \in Values : lines = Reply(value)
  BY <1>2 DEF Parsed
<1>3. QED
  BY <1>1, <1>2

-----------------------------------------------------------------------------
(* The inductive invariant.                                                *)

\* Nothing is connected at first.
LEMMA InvariantInit == Init => IInv
<1> SUFFICES ASSUME Init PROVE IInv
  OBVIOUS
<1>1. TypeOK
  BY TypeInit
<1>2. \A c \in Calls : conn[c] = None /\ answer[c] = None /\ data[c] = <<>>
  BY DEF Init
<1>3. \A k \in Connections :
        toAgent[k] = <<>> /\ toClient[k] = <<>> /\ agent[k].key = None /\ agent[k].hash = None
  BY DEF Init
<1>4. QED
  BY <1>1, <1>2, <1>3 DEF IInv, Private, LinesAbout, AnswersAsked

\* A step of one task changes its own data, answer and connection at most.
LEMMA OneTask ==
  ASSUME IInv, TypeOK', NEW c \in Calls, conn[c] # None, conn' = conn,
         \A k \in Connections \ {conn[c]} :
           toClient'[k] = toClient[k] /\ toAgent'[k] = toAgent[k],
         agent' = agent,
         LinesAbout(toClient'[conn[c]], c), CommandsAbout(toAgent'[conn[c]], c),
         \A d \in Calls \ {c} : data'[d] = data[d] /\ answer'[d] = answer[d],
         LinesAbout(data'[c], c), answer'[c] \in {None, Failed, Asked(c)}
  PROVE  IInv'
<1>1. /\ \A d \in Calls : conn[d] \in Connections \union {None}
      /\ conn[c] \in Connections
  BY DEF IInv, TypeOK
<1>2. /\ \A d \in Calls : d # c => conn[d] # conn[c]
      /\ agent[conn[c]].state # "unused"
  BY DEF IInv, Private
<1>3. Private'
  BY <1>1, <1>2 DEF IInv, Private
<1>4. ASSUME NEW d \in Calls, conn[d] # None
      PROVE  IsAbout(conn[d], d)'
  <2>1. IsAbout(conn[d], d)
    BY <1>4 DEF IInv
  <2>2. CASE d = c
    BY <2>1, <2>2 DEF IsAbout
  <2>3. CASE d # c
    <3>1. conn[d] \in Connections \ {conn[c]}
      BY <1>1, <1>2, <1>4, <2>3
    <3>2. /\ toClient'[conn[d]] = toClient[conn[d]]
          /\ toAgent'[conn[d]] = toAgent[conn[d]]
      BY <3>1
    <3>3. QED
      BY <2>1, <3>2 DEF IsAbout
  <2>4. QED
    BY <2>2, <2>3
<1>5. \A d \in Calls : LinesAbout(data'[d], d)
  BY DEF IInv
<1>6. AnswersAsked'
  BY DEF IInv, AnswersAsked
<1>7. QED
  BY <1>3, <1>4, <1>5, <1>6 DEF IInv

\* A step of the agent changes one connection that has been opened.
LEMMA OneAgent ==
  ASSUME IInv, TypeOK', NEW k \in Connections, UNCHANGED task,
         \A j \in Connections \ {k} : /\ toClient'[j] = toClient[j] /\ toAgent'[j] = toAgent[j]
                                     /\ agent'[j] = agent[j],
         agent'[k].state # "unused",
         \A c \in Calls : conn[c] = k => IsAbout(k, c)'
  PROVE  IInv'
<1>1. /\ \A d \in Calls : conn[d] \in Connections \union {None}
      /\ conn' = conn /\ data' = data /\ answer' = answer
  BY DEF IInv, TypeOK, task
<1>2. Private'
  BY <1>1 DEF IInv, Private
<1>3. ASSUME NEW d \in Calls, conn[d] # None
      PROVE  IsAbout(conn[d], d)'
  <2>1. IsAbout(conn[d], d)
    BY <1>3 DEF IInv
  <2>2. CASE conn[d] = k
    BY <1>1, <2>2
  <2>3. CASE conn[d] # k
    <3>1. conn[d] \in Connections \ {k}
      BY <1>1, <1>3, <2>3
    <3>2. /\ toClient'[conn[d]] = toClient[conn[d]]
          /\ toAgent'[conn[d]] = toAgent[conn[d]]
          /\ agent'[conn[d]] = agent[conn[d]]
      BY <3>1
    <3>3. QED
      BY <1>1, <2>1, <3>2 DEF IsAbout
  <2>4. QED
    BY <2>2, <2>3
<1>4. (\A d \in Calls : LinesAbout(data[d], d))' /\ AnswersAsked'
  BY <1>1 DEF IInv, AnswersAsked
<1>5. QED
  BY <1>1, <1>2, <1>3, <1>4 DEF IInv

\* A task that ends before it has read or sent anything.
LEMMA EndsOwn ==
  ASSUME IInv, TypeOK', NEW c \in Calls, NEW result \in {Failed, Asked(c)},
         AnswerWith(c, result), UNCHANGED <<data, socket, agent>>
  PROVE  IInv'
<1>1. /\ UNCHANGED <<conn, data, toAgent, toClient, agent>>
      /\ answer' = [answer EXCEPT ![c] = result]
  BY DEF AnswerWith, socket
<1>2. Private' /\ \A d \in Calls : conn[d] # None => IsAbout(conn[d], d)'
  BY <1>1 DEF IInv, Private, IsAbout
<1>3. AnswersAsked'
  BY <1>1 DEF IInv, AnswersAsked, TypeOK
<1>4. QED
  BY <1>1, <1>2, <1>3 DEF IInv

\* A connection that is opened has belonged to nobody.
LEMMA ConnectOwn ==
  ASSUME IInv, TypeOK', NEW c \in Calls, NEW k \in Connections, Connect(c, k)
  PROVE  IInv'
<1>1. /\ agent[k].state = "unused" /\ agent' = [agent EXCEPT ![k].state = "greet"]
      /\ conn' = [conn EXCEPT ![c] = k]
      /\ UNCHANGED <<data, answer, toAgent, toClient>>
  BY DEF Connect, socket
<1>2. conn \in [Calls -> Connections \union {None}] /\ agent \in [Connections -> Agents]
  BY DEF IInv, TypeOK
<1>3. /\ \A d \in Calls : conn[d] # k
      /\ toAgent[k] = <<>> /\ toClient[k] = <<>>
      /\ agent[k].key = None /\ agent[k].hash = None
  BY <1>1, Facts DEF IInv, Private
<1>4. /\ \A j \in Connections : j # k => agent'[j] = agent[j]
      /\ agent'[k] = [agent[k] EXCEPT !.state = "greet"]
      /\ conn'[c] = k /\ \A d \in Calls : d # c => conn'[d] = conn[d]
  BY <1>1, <1>2
<1>5. agent'[k].state = "greet" /\ agent'[k].key = None /\ agent'[k].hash = None
  BY <1>2, <1>3, <1>4 DEF Agents
<1>6. Private'
  <2>1. \A d, e \in Calls : d # e /\ conn'[d] # None => conn'[d] # conn'[e]
    BY <1>3, <1>4 DEF IInv, Private
  <2>2. \A d \in Calls : conn'[d] # None => agent'[conn'[d]].state # "unused"
    <3>1. ASSUME NEW d \in Calls, d # c, conn'[d] # None
          PROVE  agent'[conn'[d]].state # "unused"
      <4>1. conn'[d] = conn[d] /\ conn[d] \in Connections /\ conn[d] # k
        BY <1>2, <1>3, <1>4, <3>1
      <4>2. agent'[conn[d]] = agent[conn[d]]
        BY <1>4, <4>1
      <4>3. QED
        BY <3>1, <4>1, <4>2 DEF IInv, Private
    <3>2. QED
      BY <1>4, <1>5, <3>1
  <2>3. ASSUME NEW j \in Connections, agent'[j].state = "unused"
        PROVE  /\ toAgent'[j] = <<>> /\ toClient'[j] = <<>>
               /\ agent'[j].key = None /\ agent'[j].hash = None
    <3>1. j # k /\ agent'[j] = agent[j]
      BY <1>4, <1>5, <2>3
    <3>2. QED
      BY <1>1, <2>3, <3>1 DEF IInv, Private
  <2>4. QED
    BY <2>1, <2>2, <2>3 DEF Private
<1>7. ASSUME NEW d \in Calls, conn'[d] # None
      PROVE  IsAbout(conn[d], d)'
  <2>1. CASE d = c
    <3>1. IsAbout(k, c)'
      BY <1>1, <1>3, <1>5 DEF IsAbout, LinesAbout, CommandsAbout, ServesOnly
    <3>2. QED
      BY <1>4, <2>1, <3>1 DEF IsAbout
  <2>2. CASE d # c
    <3>1. conn'[d] = conn[d] /\ conn[d] \in Connections /\ conn[d] # k
      BY <1>2, <1>3, <1>4, <1>7, <2>2
    <3>2. agent'[conn[d]] = agent[conn[d]]
      BY <1>4, <3>1
    <3>3. IsAbout(conn[d], d)
      BY <1>7, <3>1 DEF IInv
    <3>4. QED
      BY <1>1, <3>1, <3>2, <3>3 DEF IsAbout
  <2>3. QED
    BY <2>1, <2>2
<1>8. (\A d \in Calls : LinesAbout(data[d], d))' /\ AnswersAsked'
  BY <1>1 DEF IInv, AnswersAsked
<1>9. QED
  BY <1>6, <1>7, <1>8 DEF IInv

\* A line that is taken leaves the connection about its call.
LEMMA ConsumeOwn ==
  ASSUME IInv, NEW c \in Calls, Waiting(c), Arrived(c), Consume(c)
  PROVE  /\ LinesAbout(toClient'[conn[c]], c)
         /\ \A k \in Connections \ {conn[c]} : toClient'[k] = toClient[k]
         /\ Kind(c) = "D" => Head(toClient[conn[c]]).value = Asked(c)
<1>1. /\ conn[c] \in Connections /\ conn[c] # None
      /\ toClient[conn[c]] \in Seq(Lines \union DataLines)
      /\ toClient \in [Connections -> Seq(Lines \union DataLines)]
  BY DEF IInv, TypeOK, Waiting
<1>2. LinesAbout(toClient[conn[c]], c) /\ toClient[conn[c]] # <<>>
  BY <1>1 DEF IInv, IsAbout, Arrived
<1>3. /\ LinesAbout(Tail(toClient[conn[c]]), c)
      /\ Head(toClient[conn[c]]).kind = "D" => Head(toClient[conn[c]]).value = Asked(c)
  BY <1>1, <1>2, LinesTaken
<1>4. QED
  BY <1>1, <1>3 DEF Consume, Kind

\* A task that answers keeps its connection about itself.
LEMMA AnswerOwn ==
  ASSUME IInv, TypeOK', NEW c \in Calls, Waiting(c), NEW result \in {Failed, Asked(c)},
         AnswerWith(c, result), UNCHANGED <<data, toAgent, agent>>,
         LinesAbout(toClient'[conn[c]], c),
         \A k \in Connections \ {conn[c]} : toClient'[k] = toClient[k]
  PROVE  IInv'
<1>1. conn[c] # None /\ LinesAbout(data[c], c) /\ CommandsAbout(toAgent[conn[c]], c)
  BY DEF IInv, TypeOK, Waiting, IsAbout
<1>2. conn' = conn /\ answer'[c] = result /\ \A d \in Calls \ {c} : answer'[d] = answer[d]
  BY DEF AnswerWith, IInv, TypeOK
<1>3. QED
  BY <1>1, <1>2, OneTask

\* So does one that sends a command about its call.
LEMMA SendOwn ==
  ASSUME IInv, TypeOK', NEW c \in Calls, Waiting(c), NEW verb, NEW arg, NEW next,
         [verb |-> verb, arg |-> arg] \in Commands,
         CommandAbout([verb |-> verb, arg |-> arg], c),
         Send(c, verb, arg, next), UNCHANGED <<data, agent>>,
         LinesAbout(toClient'[conn[c]], c),
         \A k \in Connections \ {conn[c]} : toClient'[k] = toClient[k]
  PROVE  IInv'
<1>1. CASE agent[conn[c]].state # "closed"
  <2>1. /\ conn[c] \in Connections /\ conn[c] # None
        /\ toAgent \in [Connections -> Seq(Commands)] /\ toAgent[conn[c]] \in Seq(Commands)
    BY DEF IInv, TypeOK, Waiting
  <2>2. /\ CommandsAbout(toAgent[conn[c]], c) /\ LinesAbout(data[c], c)
        /\ answer[c] \in {None, Failed, Asked(c)}
    BY <2>1 DEF IInv, IsAbout, AnswersAsked
  <2>3. CommandsAbout(Append(toAgent[conn[c]], [verb |-> verb, arg |-> arg]), c)
    BY <2>1, <2>2, CommandsAdded
  <2>4. /\ toAgent' = [toAgent EXCEPT ![conn[c]] = Append(@, [verb |-> verb, arg |-> arg])]
        /\ conn' = conn /\ answer' = answer
    BY <1>1 DEF Send
  <2>5. /\ CommandsAbout(toAgent'[conn[c]], c)
        /\ \A k \in Connections \ {conn[c]} : toAgent'[k] = toAgent[k]
    BY <2>1, <2>3, <2>4
  <2>6. QED
    BY <2>1, <2>2, <2>4, <2>5, OneTask
<1>2. CASE ~(agent[conn[c]].state # "closed")
  BY <1>2, AnswerOwn DEF Send
<1>3. QED
  BY <1>1, <1>2

\* Every step of a task keeps the invariant.
LEMMA RunOwn ==
  ASSUME IInv, TypeOK', NEW c \in Calls, Run(c)
  PROVE  IInv'
<1>1. CASE Export(c)
  BY <1>1, EndsOwn DEF Export
<1>2. ASSUME NEW k \in Connections, Connect(c, k)
      PROVE  IInv'
  BY <1>2, ConnectOwn
<1>3. CASE ConnectFails(c)
  BY <1>3, EndsOwn DEF ConnectFails
<1>4. CASE ExpectOk(c)
  <2>1. Waiting(c) /\ UNCHANGED <<data, agent>>
    BY <1>4 DEF ExpectOk, Waiting
  <2>2. conn[c] # None /\ LinesAbout(toClient[conn[c]], c)
    BY <2>1 DEF IInv, TypeOK, Waiting, IsAbout
  <2>3. CASE Arrived(c) /\ Consume(c) /\ Kind(c) = "OK" /\ SendNext(c)
    <3>1. /\ LinesAbout(toClient'[conn[c]], c)
          /\ \A k \in Connections \ {conn[c]} : toClient'[k] = toClient[k]
      BY <2>1, <2>3, ConsumeOwn
    <3>2. /\ [verb |-> "SIGKEY", arg |-> Key[c]] \in Commands
          /\ [verb |-> "READKEY", arg |-> Key[c]] \in Commands
          /\ [verb |-> "SETHASH", arg |-> Hash[c]] \in Commands
          /\ [verb |-> "PKSIGN", arg |-> None] \in Commands
      BY Facts DEF Commands
    <3>3. /\ CommandAbout([verb |-> "SIGKEY", arg |-> Key[c]], c)
          /\ ~Signs(c) => CommandAbout([verb |-> "READKEY", arg |-> Key[c]], c)
          /\ CommandAbout([verb |-> "SETHASH", arg |-> Hash[c]], c)
          /\ CommandAbout([verb |-> "PKSIGN", arg |-> None], c)
      BY DEF CommandAbout
    <3>4. \/ Send(c, "SIGKEY", Key[c], "sigkey")
          \/ ~Signs(c) /\ Send(c, "READKEY", Key[c], "data")
          \/ Send(c, "SETHASH", Hash[c], "sethash")
          \/ Send(c, "PKSIGN", None, "data")
      BY <2>3 DEF SendNext
    <3>5. QED
      BY <2>1, <3>1, <3>2, <3>3, <3>4, SendOwn
  <2>4. CASE Arrived(c) /\ Consume(c) /\ AnswerWith(c, Failed) /\ UNCHANGED toAgent
    BY <2>1, <2>4, ConsumeOwn, AnswerOwn
  <2>5. CASE AnswerWith(c, Failed) /\ UNCHANGED socket
    BY <2>1, <2>2, <2>5, AnswerOwn DEF socket
  <2>6. QED
    BY <1>4, <2>3, <2>4, <2>5 DEF ExpectOk
<1>5. CASE ReadData(c)
  <2>1. Waiting(c) /\ UNCHANGED agent
    BY <1>5 DEF ReadData, Waiting
  <2>2. /\ conn[c] \in Connections /\ conn[c] # None
        /\ LinesAbout(toClient[conn[c]], c) /\ CommandsAbout(toAgent[conn[c]], c)
        /\ data[c] \in Seq(DataLines) /\ data \in [Calls -> Seq(DataLines)]
        /\ LinesAbout(data[c], c) /\ answer[c] \in {None, Failed, Asked(c)}
    BY <2>1 DEF IInv, TypeOK, Waiting, IsAbout, AnswersAsked
  <2>3. Parsed(data[c]) \in {Failed, Asked(c)}
    BY <2>2, ParsedOwn
  <2>4. CASE Arrived(c) /\ Consume(c)
    <3>1. /\ LinesAbout(toClient'[conn[c]], c)
          /\ \A k \in Connections \ {conn[c]} : toClient'[k] = toClient[k]
          /\ Kind(c) = "D" => Head(toClient[conn[c]]).value = Asked(c)
      BY <2>1, <2>4, ConsumeOwn
    <3>2. CASE /\ Kind(c) = "D"
               /\ data' = [data EXCEPT ![c] = Append(@, Head(toClient[conn[c]]))]
               /\ UNCHANGED <<mailbox, pc, conn, answer, toAgent>>
      <4>1. TypeOK
        BY DEF IInv
      <4>2. Head(toClient[conn[c]]) \in DataLines
        BY <2>1, <2>4, <3>2, <4>1, ConsumeTyped DEF Kind, Lines
      <4>3. LinesAbout(Append(data[c], Head(toClient[conn[c]])), c)
        BY <2>2, <3>1, <3>2, <4>2, LinesAdded
      <4>4. LinesAbout(data'[c], c) /\ \A d \in Calls \ {c} : data'[d] = data[d]
        BY <2>2, <3>2, <4>3
      <4>5. QED
        BY <2>1, <2>2, <3>1, <3>2, <4>4, OneTask
    <3>3. CASE Send(c, "END", None, "data") /\ UNCHANGED data
      <4>1. /\ [verb |-> "END", arg |-> None] \in Commands
            /\ CommandAbout([verb |-> "END", arg |-> None], c)
        BY DEF Commands, CommandAbout
      <4>2. QED
        BY <2>1, <3>1, <3>3, <4>1, SendOwn
    <3>4. CASE UNCHANGED <<mailbox, pc, task, toAgent>>
      BY <2>1, <2>2, <3>1, <3>4, OneTask DEF task
    <3>5. CASE AnswerWith(c, Parsed(data[c])) /\ UNCHANGED <<data, toAgent>>
      BY <2>1, <2>3, <3>1, <3>5, AnswerOwn
    <3>6. CASE AnswerWith(c, Failed) /\ UNCHANGED <<data, toAgent>>
      BY <2>1, <3>1, <3>6, AnswerOwn
    <3>7. ~AtEnd(c) /\ ~Reset(c)
      BY <2>4 DEF AtEnd, Reset
    <3>8. QED
      BY <1>5, <3>2, <3>3, <3>4, <3>5, <3>6, <3>7 DEF ReadData
  <2>5. CASE AnswerWith(c, Failed) /\ UNCHANGED <<data, socket>>
    BY <2>1, <2>2, <2>5, AnswerOwn DEF socket
  <2>6. CASE UNCHANGED <<mailbox, pc, task, socket>>
    BY <2>1, <2>2, <2>6, OneTask DEF task, socket
  <2>7. QED
    BY <1>5, <2>4, <2>5, <2>6 DEF ReadData
<1>6. QED
  BY <1>1, <1>2, <1>3, <1>4, <1>5 DEF Run

\* What the agent says on a connection is about the call that has it.
LEMMA SayOwn ==
  ASSUME IInv, TypeOK', NEW k \in Connections, NEW line \in Lines \union DataLines, Say(k, line),
         \A c \in Calls : conn[c] = k =>
           /\ line.kind = "D" => line.value = Asked(c)
           /\ CommandsAbout(toAgent'[k], c)
           /\ ServesOnly(agent'[k], c),
         \A j \in Connections \ {k} : toAgent'[j] = toAgent[j] /\ agent'[j] = agent[j],
         agent'[k].state # "unused"
  PROVE  IInv'
<1>1. /\ toClient \in [Connections -> Seq(Lines \union DataLines)]
      /\ toClient[k] \in Seq(Lines \union DataLines)
      /\ k # None
  BY Facts DEF IInv, TypeOK
<1>2. /\ toClient'[k] = Append(toClient[k], line) /\ UNCHANGED task
      /\ \A j \in Connections \ {k} : toClient'[j] = toClient[j]
  BY <1>1 DEF Say
<1>3. ASSUME NEW c \in Calls, conn[c] = k
      PROVE  IsAbout(k, c)'
  <2>1. LinesAbout(toClient[k], c)
    BY <1>1, <1>3 DEF IInv, IsAbout
  <2>2. LinesAbout(Append(toClient[k], line), c)
    BY <1>1, <1>3, <2>1, LinesAdded
  <2>3. QED
    BY <1>2, <1>3, <2>2 DEF IsAbout
<1>4. QED
  BY <1>2, <1>3, OneAgent

\* What the agent does without a word.
LEMMA MuteOwn ==
  ASSUME IInv, TypeOK', NEW k \in Connections, UNCHANGED <<mailbox, pc, task, toClient>>,
         \A c \in Calls : conn[c] = k =>
           CommandsAbout(toAgent'[k], c) /\ ServesOnly(agent'[k], c),
         \A j \in Connections \ {k} : toAgent'[j] = toAgent[j] /\ agent'[j] = agent[j],
         agent'[k].state # "unused"
  PROVE  IInv'
<1>1. k # None
  BY Facts
<1>2. ASSUME NEW c \in Calls, conn[c] = k
      PROVE  IsAbout(k, c)'
  BY <1>1, <1>2 DEF IInv, IsAbout
<1>3. QED
  BY <1>2, OneAgent

\* Every step of the agent keeps the invariant.
LEMMA AgentOwn ==
  ASSUME IInv, TypeOK', NEW k \in Connections, Answers(k) \/ Noise(k) \/ HangUp(k)
  PROVE  IInv'
<1>1. /\ toAgent \in [Connections -> Seq(Commands)] /\ toAgent[k] \in Seq(Commands)
      /\ agent \in [Connections -> Agents] /\ agent[k] \in Agents
      /\ k # None /\ AgentsOK
  BY Facts DEF IInv, TypeOK, AgentsOK
<1>2. \A c \in Calls : conn[c] = k => CommandsAbout(toAgent[k], c) /\ ServesOnly(agent[k], c)
  BY <1>1 DEF IInv, IsAbout
<1>3. ASSUME toAgent[k] # <<>>, toAgent' = [toAgent EXCEPT ![k] = Tail(@)]
      PROVE  /\ \A j \in Connections \ {k} : toAgent'[j] = toAgent[j]
             /\ \A c \in Calls : conn[c] = k =>
                  CommandsAbout(toAgent'[k], c) /\ CommandAbout(Head(toAgent[k]), c)
  <2>1. toAgent'[k] = Tail(toAgent[k]) /\ \A j \in Connections \ {k} : toAgent'[j] = toAgent[j]
    BY <1>1, <1>3
  <2>2. QED
    BY <1>1, <1>2, <1>3, <2>1, CommandsTaken
<1>4. \A kind \in {"OK", "ERR", "S", "INQUIRE"} :
        Line(kind) \in Lines \union DataLines /\ Line(kind).kind # "D"
  BY Said DEF Line
<1>5. ASSUME NEW state \in {"ready", "closed"}, NEW a,
             a = [agent[k] EXCEPT !.state = state]
               \/ a = [agent[k] EXCEPT !.state = state, !.failed = TRUE]
      PROVE  /\ a.state = state
             /\ \A c \in Calls : conn[c] = k => ServesOnly(a, c)
  BY <1>1, <1>2, <1>5 DEF Agents, ServesOnly
<1>6. CASE Greet(k)
  <2>1. PICK kind \in {"OK", "ERR"},
             a \in {[agent[k] EXCEPT !.state = "ready"],
                   [agent[k] EXCEPT !.state = "ready", !.failed = TRUE]} :
          /\ Say(k, Line(kind))
          /\ agent' = [agent EXCEPT ![k] = a]
    BY <1>1, <1>6 DEF Greet
  <2>2. toAgent' = toAgent
    BY <1>6 DEF Greet
  <2>3. agent'[k] = a /\ \A j \in Connections \ {k} : agent'[j] = agent[j]
    BY <1>1, <2>1
  <2>4. QED
    BY <1>2, <1>4, <1>5, <2>1, <2>2, <2>3, SayOwn
<1>7. ASSUME Refuses(k), \A j \in Connections \ {k} : toAgent'[j] = toAgent[j],
             \A c \in Calls : conn[c] = k => CommandsAbout(toAgent'[k], c)
      PROVE  IInv'
  <2> DEFINE a == [agent[k] EXCEPT !.state = "ready", !.failed = TRUE]
  <2>1. agent' = [agent EXCEPT ![k] = a] /\ Say(k, Line("ERR"))
    BY <1>1, <1>7 DEF Refuses
  <2>2. agent'[k] = a /\ \A j \in Connections \ {k} : agent'[j] = agent[j]
    BY <1>1, <2>1
  <2>3. a.state = "ready" /\ \A c \in Calls : conn[c] = k => ServesOnly(a, c)
    BY <1>5
  <2>4. /\ agent'[k].state # "unused"
        /\ \A c \in Calls : conn[c] = k => ServesOnly(agent'[k], c)
    BY <2>2, <2>3
  <2> HIDE DEF a
  <2>5. /\ Line("ERR") \in Lines \union DataLines
        /\ Line("ERR").kind # "D"
    BY <1>4
  <2>6. QED
    BY <1>7, <2>1, <2>2, <2>4, <2>5, SayOwn
<1>8. CASE Serve(k)
  <2> DEFINE command == Head(toAgent[k])
  <2>1. /\ \A j \in Connections \ {k} : toAgent'[j] = toAgent[j]
        /\ \A c \in Calls : conn[c] = k =>
             CommandsAbout(toAgent'[k], c) /\ CommandAbout(command, c)
        /\ agent[k].state = "ready"
    BY <1>3, <1>8 DEF Serve
  <2>2. CASE Refuses(k)
    BY <1>7, <2>1, <2>2
  <2>3. CASE Obeys(k, command)
    <3>1. CASE /\ command.verb = "SIGKEY" /\ agent' = [agent EXCEPT ![k].key = command.arg]
               /\ Say(k, Line("OK"))
      <4>1. /\ agent'[k] = [agent[k] EXCEPT !.key = command.arg]
            /\ \A j \in Connections \ {k} : agent'[j] = agent[j]
        BY <1>1, <3>1
      <4>2. /\ agent'[k].state = "ready"
            /\ \A c \in Calls : conn[c] = k => ServesOnly(agent'[k], c)
        BY <1>1, <1>2, <2>1, <3>1, <4>1 DEF Agents, ServesOnly, CommandAbout
      <4>3. QED
        BY <1>4, <2>1, <3>1, <4>1, <4>2, SayOwn
    <3>2. CASE /\ command.verb = "SETHASH" /\ agent' = [agent EXCEPT ![k].hash = command.arg]
               /\ Say(k, Line("OK"))
      <4>1. /\ agent'[k] = [agent[k] EXCEPT !.hash = command.arg]
            /\ \A j \in Connections \ {k} : agent'[j] = agent[j]
        BY <1>1, <3>2
      <4>2. /\ agent'[k].state = "ready"
            /\ \A c \in Calls : conn[c] = k => ServesOnly(agent'[k], c)
        BY <1>1, <1>2, <2>1, <3>2, <4>1 DEF Agents, ServesOnly, CommandAbout
      <4>3. QED
        BY <1>4, <2>1, <3>2, <4>1, <4>2, SayOwn
    <3>3. ASSUME NEW value, \A c \in Calls : conn[c] = k => value = Asked(c),
                 agent' = [agent EXCEPT ![k].state = "work", ![k].sent = 0, ![k].doing = value],
                 UNCHANGED <<mailbox, pc, task, toClient>>
          PROVE  IInv'
      <4> DEFINE a == [agent[k] EXCEPT !.state = "work", !.sent = 0, !.doing = value]
      <4>1. agent' = [agent EXCEPT ![k] = a]
        BY <1>1, <3>3
      <4>2. agent'[k] = a /\ \A j \in Connections \ {k} : agent'[j] = agent[j]
        BY <1>1, <4>1
      <4>3. /\ agent'[k].state # "unused"
            /\ \A c \in Calls : conn[c] = k => ServesOnly(agent'[k], c)
        BY <1>1, <1>2, <3>3, <4>2 DEF Agents, ServesOnly
      <4> HIDE DEF a
      <4>4. QED
        BY <2>1, <3>3, <4>2, <4>3, MuteOwn
    <3>4. ASSUME command.verb = "PKSIGN", agent[k].key # None, agent[k].hash # None,
                 NEW c \in Calls, conn[c] = k
          PROVE  [key |-> agent[k].key, hash |-> agent[k].hash] = Asked(c)
      BY <1>2, <3>4 DEF ServesOnly, Asked
    <3>5. ASSUME command.verb = "READKEY", NEW c \in Calls, conn[c] = k
          PROVE  [key |-> command.arg, hash |-> None] = Asked(c)
      BY <2>1, <3>5 DEF CommandAbout, Asked, Signs
    <3>6. QED
      BY <2>3, <3>1, <3>2, <3>3, <3>4, <3>5 DEF Obeys
  <2>4. QED
    BY <1>8, <2>2, <2>3 DEF Serve
<1>9. CASE Work(k)
  <2>1. /\ toAgent' = toAgent /\ agent[k].state = "work"
        /\ \A c \in Calls : conn[c] = k => agent[k].doing = Asked(c)
    BY <1>2, <1>9 DEF Work, ServesOnly
  <2>2. CASE Refuses(k)
    BY <1>2, <1>7, <2>1, <2>2
  <2>3. CASE /\ agent[k].sent < Parts /\ agent' = [agent EXCEPT ![k].sent = @ + 1]
             /\ Say(k, Data(agent[k].doing, agent[k].sent + 1))
    <3>1. /\ agent'[k] = [agent[k] EXCEPT !.sent = @ + 1]
          /\ \A j \in Connections \ {k} : agent'[j] = agent[j]
      BY <1>1, <2>3
    <3>2. /\ agent'[k].state = "work"
          /\ \A c \in Calls : conn[c] = k => ServesOnly(agent'[k], c)
      BY <1>1, <1>2, <2>1, <3>1 DEF Agents, ServesOnly
    <3>3. agent[k].doing \in Values /\ agent[k].sent \in 0..Parts
      BY <1>1, <2>1 DEF Agents, AgentsOK
    <3>4. agent[k].sent + 1 \in 1..Parts
      BY <2>3, <3>3, CallsAssumption
    <3>5. /\ Data(agent[k].doing, agent[k].sent + 1) \in Lines \union DataLines
          /\ Data(agent[k].doing, agent[k].sent + 1).value = agent[k].doing
      BY <3>3, <3>4 DEF Data, DataLines
    <3>6. QED
      BY <1>2, <2>1, <2>3, <3>1, <3>2, <3>5, SayOwn
  <2>4. CASE agent' = [agent EXCEPT ![k].state = "ready"] /\ Say(k, Line("OK"))
    <3> DEFINE a == [agent[k] EXCEPT !.state = "ready"]
    <3>1. agent' = [agent EXCEPT ![k] = a]
      BY <1>1, <2>4
    <3>2. agent'[k] = a /\ \A j \in Connections \ {k} : agent'[j] = agent[j]
      BY <1>1, <3>1
    <3>3. a.state = "ready" /\ \A c \in Calls : conn[c] = k => ServesOnly(a, c)
      BY <1>5
    <3>4. QED
      BY <1>2, <1>4, <2>1, <2>4, <3>2, <3>3, SayOwn
  <2>5. QED
    BY <1>9, <2>2, <2>3, <2>4 DEF Work
<1>10. CASE Resume(k)
  <2>1. /\ agent[k].state = "inquire" /\ agent' = [agent EXCEPT ![k].state = "work"]
        /\ UNCHANGED <<mailbox, pc, task, toClient>>
    BY <1>10 DEF Resume
  <2>2. /\ \A j \in Connections \ {k} : toAgent'[j] = toAgent[j]
        /\ \A c \in Calls : conn[c] = k => CommandsAbout(toAgent'[k], c)
    BY <1>3, <1>10 DEF Resume
  <2>3. /\ agent'[k] = [agent[k] EXCEPT !.state = "work"]
        /\ \A j \in Connections \ {k} : agent'[j] = agent[j]
    BY <1>1, <2>1
  <2>4. /\ agent'[k].state = "work"
        /\ \A c \in Calls : conn[c] = k => ServesOnly(agent'[k], c)
    BY <1>1, <1>2, <2>1, <2>3 DEF Agents, ServesOnly
  <2>5. QED
    BY <2>1, <2>2, <2>3, <2>4, MuteOwn
<1>11. CASE Noise(k)
  <2>1. PICK a :
          /\ agent' = [agent EXCEPT ![k] = a]
          /\ \E kind \in {"S", "INQUIRE"} : Say(k, Line(kind))
          /\ a.key = agent[k].key /\ a.hash = agent[k].hash /\ a.doing = agent[k].doing
          /\ \/ agent[k].state = "work" /\ a.state \in {"work", "inquire"}
             \/ a.state = "ready"
    <3> DEFINE status == [agent[k] EXCEPT !.noise = @ + 1]
               inquiry == [agent[k] EXCEPT !.noise = @ + 1, !.state = "inquire"]
               early == [agent[k] EXCEPT !.noise = @ + 1, !.failed = TRUE]
    <3>1. \/ /\ agent[k].state = "work" /\ agent' = [agent EXCEPT ![k] = status]
             /\ Say(k, Line("S"))
          \/ /\ agent[k].state = "work" /\ agent' = [agent EXCEPT ![k] = inquiry]
             /\ Say(k, Line("INQUIRE"))
          \/ /\ agent[k].state = "ready" /\ agent' = [agent EXCEPT ![k] = early]
             /\ Say(k, Line("S"))
      BY <1>1, <1>11 DEF Noise
    <3>2. \A a \in {status, inquiry, early} :
            a.key = agent[k].key /\ a.hash = agent[k].hash /\ a.doing = agent[k].doing
      BY <1>1 DEF Agents
    <3>3. /\ status.state = agent[k].state /\ early.state = agent[k].state
          /\ inquiry.state = "inquire"
      BY <1>1 DEF Agents
    <3>4. QED
      BY <3>1, <3>2, <3>3
  <2>2. toAgent' = toAgent
    BY <1>11 DEF Noise
  <2>3. agent'[k] = a /\ \A j \in Connections \ {k} : agent'[j] = agent[j]
    BY <1>1, <2>1
  <2>4. a.state # "unused" /\ \A c \in Calls : conn[c] = k => ServesOnly(a, c)
    BY <1>2, <2>1 DEF ServesOnly
  <2>5. PICK kind \in {"S", "INQUIRE"} : Say(k, Line(kind))
    BY <2>1
  <2>6. QED
    BY <1>2, <1>4, <2>2, <2>3, <2>4, <2>5, SayOwn
<1>12. CASE HangUp(k)
  <2> DEFINE a == [agent[k] EXCEPT !.state = "closed", !.failed = TRUE]
  <2>1. /\ agent' = [agent EXCEPT ![k] = a] /\ toAgent' = toAgent
        /\ UNCHANGED <<mailbox, pc, task, toClient>>
    BY <1>1, <1>12 DEF HangUp, socket
  <2>2. agent'[k] = a /\ \A j \in Connections \ {k} : agent'[j] = agent[j]
    BY <1>1, <2>1
  <2>3. a.state = "closed" /\ \A c \in Calls : conn[c] = k => ServesOnly(a, c)
    BY <1>5
  <2>4. QED
    BY <1>2, <2>1, <2>2, <2>3, MuteOwn
<1>13. QED
  BY <1>6, <1>8, <1>9, <1>10, <1>11, <1>12 DEF Answers

\* Every step keeps the invariant.
LEMMA InvariantNext == IInv /\ [Next]_vars => IInv'
<1> SUFFICES ASSUME IInv, [Next]_vars PROVE IInv'
  OBVIOUS
<1>1. TypeOK /\ TypeOK'
  BY TypeNext DEF IInv
<1>2. CASE UNCHANGED <<conn, data, answer, toAgent, toClient, agent>>
  <2>1. Private' /\ \A c \in Calls : conn[c] # None => IsAbout(conn[c], c)'
    BY <1>2 DEF IInv, Private, IsAbout
  <2>2. QED
    BY <1>1, <1>2, <2>1 DEF IInv, AnswersAsked
<1>3. ASSUME NEW c \in Calls, Run(c)
      PROVE  IInv'
  BY <1>1, <1>3, RunOwn
<1>4. ASSUME NEW k \in Connections, Answers(k) \/ Noise(k) \/ HangUp(k)
      PROVE  IInv'
  BY <1>1, <1>4, AgentOwn
<1>5. QED
  BY <1>2, <1>3, <1>4 DEF Next, Handle, Ask, vars, task, socket

\* Each connection, its sockets and the agent behind it are about the call of
\* the one task that opened it, and the data a task collects is about its own.
THEOREM InvariantHolds == Spec => []IInv
<1>1. Init => IInv
  BY InvariantInit
<1>2. IInv /\ [Next]_vars => IInv'
  BY InvariantNext
<1>3. QED
  BY <1>1, <1>2, PTL DEF Spec

\* A task answers with the signature or the key its caller asked for, or fails,
\* for any number of calls side by side and however the agent behaves.
THEOREM AnswersWhatIsAsked == Spec => []AnswersAsked
<1>1. IInv => AnswersAsked
  BY DEF IInv
<1>2. QED
  BY <1>1, InvariantHolds, PTL

-----------------------------------------------------------------------------
(* The lines of a reply.                                                   *)

\* Append and Tail by position.
LEMMA AppendedAt ==
  ASSUME NEW S, NEW s \in Seq(S), NEW x \in S
  PROVE  /\ Len(s) \in Nat /\ DOMAIN s = 1..Len(s)
         /\ Len(Append(s, x)) = Len(s) + 1 /\ DOMAIN Append(s, x) = 1..(Len(s) + 1)
         /\ \A i \in 1..Len(s) : Append(s, x)[i] = s[i]
         /\ Append(s, x)[Len(s) + 1] = x
         /\ Append(s, x) # <<>>
BY AppendProperties, LenProperties

LEMMA TakenAt ==
  ASSUME NEW S, NEW s \in Seq(S), s # <<>>
  PROVE  /\ Len(s) \in Nat \ {0} /\ DOMAIN s = 1..Len(s)
         /\ Head(s) = s[1] /\ Tail(s) \in Seq(S)
         /\ Len(Tail(s)) = Len(s) - 1 /\ DOMAIN Tail(s) = 1..(Len(s) - 1)
         /\ \A i \in 1..(Len(s) - 1) : Tail(s)[i] = s[i + 1]
BY HeadTailProperties, LenProperties, EmptySeq

\* A sequence that has a length is not empty.
LEMMA NotEmpty ==
  ASSUME NEW S, NEW s \in Seq(S), Len(s) # 0
  PROVE  s # <<>>
OBVIOUS

\* The first element of a sequence.
LEMMA AppendedFirst == \A x : Append(<<>>, x) = <<x>>
OBVIOUS

\* A sequence of one element.
LEMMA OneLeft ==
  ASSUME NEW S, NEW s \in Seq(S), Len(s) = 1
  PROVE  s # <<>> /\ Tail(s) = <<>>
<1>1. s # <<>>
  OBVIOUS
<1>2. Tail(s) \in Seq(S) /\ Len(Tail(s)) = 0
  BY <1>1, TakenAt
<1>3. QED
  BY <1>1, <1>2, EmptySeq

\* The next part is sent.
LEMMA CarriesPart ==
  ASSUME NEW S, NEW lines \in Seq(S), NEW value, NEW first \in Nat, NEW last \in Nat,
         first <= last + 1, Carries(lines, value, first, last),
         Data(value, last + 1) \in S
  PROVE  Carries(Append(lines, Data(value, last + 1)), value, first, last + 1)
<1> DEFINE more == Append(lines, Data(value, last + 1))
<1>1. /\ Len(lines) \in Nat /\ DOMAIN lines = 1..Len(lines)
      /\ DOMAIN more = 1..(Len(lines) + 1)
      /\ \A i \in 1..Len(lines) : more[i] = lines[i]
      /\ more[Len(lines) + 1] = Data(value, last + 1)
  BY AppendedAt
<1> HIDE DEF more
<1>2. ASSUME NEW i \in DOMAIN more, more[i].kind = "D"
      PROVE  \E part \in first..(last + 1) : more[i] = Data(value, part)
  <2>1. CASE i = Len(lines) + 1
    BY <1>1, <2>1
  <2>2. CASE i \in 1..Len(lines)
    <3>1. PICK part \in first..last : lines[i] = Data(value, part)
      BY <1>1, <1>2, <2>2 DEF Carries
    <3>2. part \in first..(last + 1)
      OBVIOUS
    <3>3. QED
      BY <1>1, <2>2, <3>1, <3>2
  <2>3. QED
    BY <1>1, <2>1, <2>2
<1>3. ASSUME NEW part \in first..(last + 1)
      PROVE  \E i \in DOMAIN more : more[i] = Data(value, part)
  <2>1. CASE part = last + 1
    BY <1>1, <2>1
  <2>2. CASE part \in first..last
    <3>1. PICK i \in DOMAIN lines : lines[i] = Data(value, part)
      BY <2>2 DEF Carries
    <3>2. i \in DOMAIN more /\ more[i] = lines[i]
      BY <1>1
    <3>3. QED
      BY <3>1, <3>2
  <2>3. QED
    BY <2>1, <2>2
<1>4. ASSUME NEW i \in DOMAIN more, NEW j \in DOMAIN more, i < j,
             more[i].kind = "D", more[j].kind = "D"
      PROVE  more[i].part < more[j].part
  <2>1. i \in 1..Len(lines) /\ more[i] = lines[i]
    BY <1>1, <1>4
  <2>2. CASE j \in 1..Len(lines)
    BY <1>1, <1>4, <2>1, <2>2 DEF Carries
  <2>3. CASE j = Len(lines) + 1
    <3>1. PICK part \in first..last : lines[i] = Data(value, part)
      BY <1>1, <1>4, <2>1 DEF Carries
    <3>2. more[i].part = part /\ more[j].part = last + 1
      BY <1>1, <2>1, <2>3, <3>1 DEF Data
    <3>3. QED
      BY <3>2
  <2>4. QED
    BY <1>1, <2>2, <2>3
<1>5. QED
  BY <1>2, <1>3, <1>4 DEF Carries, more

\* A line without data is sent.
LEMMA CarriesMore ==
  ASSUME NEW S, NEW lines \in Seq(S), NEW line \in S, line.kind # "D",
         NEW value, NEW first \in Nat, NEW last \in Nat,
         Carries(lines, value, first, last)
  PROVE  Carries(Append(lines, line), value, first, last)
<1> DEFINE more == Append(lines, line)
<1>1. /\ Len(lines) \in Nat /\ DOMAIN lines = 1..Len(lines)
      /\ DOMAIN more = 1..(Len(lines) + 1)
      /\ \A i \in 1..Len(lines) : more[i] = lines[i]
      /\ more[Len(lines) + 1] = line
  BY AppendedAt
<1> HIDE DEF more
<1>2. \A i \in DOMAIN more : more[i].kind = "D" => i \in DOMAIN lines /\ more[i] = lines[i]
  BY <1>1
<1>3. \A i \in DOMAIN lines : i \in DOMAIN more /\ more[i] = lines[i]
  BY <1>1
<1>4. QED
  BY <1>2, <1>3 DEF Carries, more

\* A line without data is taken.
LEMMA CarriesLess ==
  ASSUME NEW S, NEW lines \in Seq(S), lines # <<>>, Head(lines).kind # "D",
         NEW value, NEW first \in Nat, NEW last \in Nat,
         Carries(lines, value, first, last)
  PROVE  Carries(Tail(lines), value, first, last)
<1>1. /\ Len(lines) \in Nat \ {0} /\ DOMAIN lines = 1..Len(lines)
      /\ DOMAIN Tail(lines) = 1..(Len(lines) - 1)
      /\ lines[1].kind # "D"
      /\ \A i \in 1..(Len(lines) - 1) : Tail(lines)[i] = lines[i + 1]
  BY TakenAt
<1>2. \A i \in DOMAIN Tail(lines) : i + 1 \in DOMAIN lines /\ Tail(lines)[i] = lines[i + 1]
  BY <1>1
<1>3. ASSUME NEW part \in first..last
      PROVE  \E i \in DOMAIN Tail(lines) : Tail(lines)[i] = Data(value, part)
  <2>1. PICK i \in DOMAIN lines : lines[i] = Data(value, part)
    BY DEF Carries
  <2>2. i # 1
    BY <1>1, <2>1 DEF Data
  <2>3. i - 1 \in DOMAIN Tail(lines) /\ Tail(lines)[i - 1] = lines[i]
    BY <1>1, <2>2
  <2>4. QED
    BY <2>1, <2>3
<1>4. \A i, j \in DOMAIN Tail(lines) : i < j => i + 1 < j + 1
  BY <1>1
<1>5. QED
  BY <1>2, <1>3, <1>4 DEF Carries

\* A line of data is taken: it is the first part under way.
LEMMA CarriesNext ==
  ASSUME NEW S, NEW lines \in Seq(S), lines # <<>>, Head(lines).kind = "D",
         NEW value, NEW first \in Nat, NEW last \in Nat,
         Carries(lines, value, first, last)
  PROVE  /\ first <= last /\ Head(lines) = Data(value, first)
         /\ Carries(Tail(lines), value, first + 1, last)
<1>1. /\ Len(lines) \in Nat \ {0} /\ DOMAIN lines = 1..Len(lines)
      /\ DOMAIN Tail(lines) = 1..(Len(lines) - 1)
      /\ Head(lines) = lines[1]
      /\ \A i \in 1..(Len(lines) - 1) : Tail(lines)[i] = lines[i + 1]
  BY TakenAt
<1>2. 1 \in DOMAIN lines
  BY <1>1
<1>3. PICK part \in first..last : lines[1] = Data(value, part)
  BY <1>1, <1>2 DEF Carries
<1>4. \A i \in DOMAIN lines : i # 1 /\ lines[i].kind = "D" => part < lines[i].part
  <2>1. lines[1].kind = "D" /\ lines[1].part = part
    BY <1>3 DEF Data
  <2>2. \A i \in DOMAIN lines : i # 1 => 1 < i
    BY <1>1
  <2>3. QED
    BY <1>2, <2>1, <2>2 DEF Carries
<1>5. part = first
  <2>1. PICK i \in DOMAIN lines : lines[i] = Data(value, first)
    BY <1>3 DEF Carries
  <2>2. lines[i].kind = "D" /\ lines[i].part = first
    BY <2>1 DEF Data
  <2>3. i = 1
    BY <1>3, <1>4, <2>2
  <2>4. QED
    BY <1>3, <2>2, <2>3 DEF Data
<1>6. \A i \in DOMAIN Tail(lines) : i + 1 \in DOMAIN lines /\ i + 1 # 1 /\ Tail(lines)[i] = lines[i + 1]
  BY <1>1
<1>7. ASSUME NEW i \in DOMAIN Tail(lines), Tail(lines)[i].kind = "D"
      PROVE  \E q \in (first + 1)..last : Tail(lines)[i] = Data(value, q)
  <2>1. PICK q \in first..last : Tail(lines)[i] = Data(value, q)
    BY <1>6, <1>7 DEF Carries
  <2>2. first < q
    BY <1>4, <1>5, <1>6, <1>7, <2>1 DEF Data
  <2>3. QED
    BY <2>1, <2>2
<1>8. ASSUME NEW q \in (first + 1)..last
      PROVE  \E i \in DOMAIN Tail(lines) : Tail(lines)[i] = Data(value, q)
  <2>1. q \in first..last /\ q # first
    OBVIOUS
  <2>2. PICK i \in DOMAIN lines : lines[i] = Data(value, q)
    BY <2>1 DEF Carries
  <2>3. i # 1
    <3>1. lines[1].part = first /\ lines[i].part = q
      BY <1>3, <1>5, <2>2 DEF Data
    <3>2. QED
      BY <2>1, <3>1
  <2>4. i - 1 \in DOMAIN Tail(lines) /\ Tail(lines)[i - 1] = lines[i]
    BY <1>1, <2>3
  <2>5. QED
    BY <2>2, <2>4
<1>9. \A i, j \in DOMAIN Tail(lines) :
        i < j /\ Tail(lines)[i].kind = "D" /\ Tail(lines)[j].kind = "D" =>
          Tail(lines)[i].part < Tail(lines)[j].part
  <2>1. \A i, j \in DOMAIN Tail(lines) : i < j => i + 1 < j + 1
    BY <1>1
  <2>2. QED
    BY <1>6, <2>1 DEF Carries
<1>10. first <= last /\ Head(lines) = Data(value, first)
  BY <1>1, <1>3, <1>5
<1>11. QED
  BY <1>7, <1>8, <1>9, <1>10 DEF Carries

\* What a sequence of lines ends in when a line is added or taken.
LEMMA EndsAppended ==
  ASSUME NEW S, NEW lines \in Seq(S), NEW line \in S, NEW kind
  PROVE  EndsIn(Append(lines, line), kind) <=> line.kind = kind
BY AppendedAt DEF EndsIn

LEMMA EndsTaken ==
  ASSUME NEW S, NEW lines \in Seq(S), lines # <<>>, NEW kind
  PROVE  EndsIn(Tail(lines), kind) <=> EndsIn(lines, kind) /\ Len(lines) # 1
<1>1. /\ Len(lines) \in Nat \ {0} /\ Tail(lines) \in Seq(S)
      /\ Len(Tail(lines)) = Len(lines) - 1
      /\ \A i \in 1..(Len(lines) - 1) : Tail(lines)[i] = lines[i + 1]
  BY TakenAt
<1>2. CASE Len(lines) = 1
  <2>1. Tail(lines) = <<>>
    BY <1>2, OneLeft
  <2>2. QED
    BY <1>2, <2>1 DEF EndsIn
<1>3. CASE Len(lines) # 1
  <2>1. Len(Tail(lines)) \in 1..(Len(lines) - 1) /\ Tail(lines) # <<>>
    <3> DEFINE rest == Tail(lines)
    <3>1. Len(rest) \in 1..(Len(lines) - 1) /\ rest \in Seq(S)
      BY <1>1, <1>3
    <3> HIDE DEF rest
    <3>2. rest # <<>>
      BY <1>1, <3>1, NotEmpty
    <3>3. QED
      BY <3>1, <3>2 DEF rest
  <2>2. Tail(lines)[Len(Tail(lines))] = lines[Len(lines)]
    BY <1>1, <2>1
  <2>3. QED
    BY <1>3, <2>1, <2>2 DEF EndsIn
<1>4. QED
  BY <1>2, <1>3

\* The first line, if it is of the kinds that only the last one is.
LEMMA LastTaken ==
  ASSUME NEW S, NEW lines \in Seq(S), lines # <<>>, NEW kinds,
         \A i \in DOMAIN lines : lines[i].kind \in kinds => i = Len(lines)
  PROVE  /\ \A i \in DOMAIN Tail(lines) : Tail(lines)[i].kind \in kinds => i = Len(Tail(lines))
         /\ Head(lines).kind \in kinds =>
              Len(lines) = 1 /\ Tail(lines) = <<>> /\ EndsIn(lines, Head(lines).kind)
<1>1. /\ Len(lines) \in Nat \ {0} /\ DOMAIN lines = 1..Len(lines)
      /\ Head(lines) = lines[1] /\ Len(Tail(lines)) = Len(lines) - 1
      /\ DOMAIN Tail(lines) = 1..(Len(lines) - 1)
      /\ \A i \in 1..(Len(lines) - 1) : Tail(lines)[i] = lines[i + 1]
  BY TakenAt
<1>2. ASSUME NEW i \in DOMAIN Tail(lines), Tail(lines)[i].kind \in kinds
      PROVE  i = Len(Tail(lines))
  <2>1. i + 1 \in DOMAIN lines /\ lines[i + 1].kind \in kinds
    BY <1>1, <1>2
  <2>2. i + 1 = Len(lines)
    BY <2>1
  <2>3. QED
    BY <1>1, <2>2
<1>3. ASSUME Head(lines).kind \in kinds
      PROVE  Len(lines) = 1 /\ Tail(lines) = <<>> /\ EndsIn(lines, Head(lines).kind)
  <2>1. Len(lines) = 1
    BY <1>1, <1>3
  <2>2. QED
    BY <1>1, <2>1, OneLeft DEF EndsIn
<1>4. QED
  BY <1>2, <1>3

\* The agent sends one more line of its reply.
LEMMA ReplyingSays ==
  ASSUME NEW value \in Values, NEW got \in Seq(DataLines),
         NEW lines \in Seq(Lines \union DataLines), NEW line \in Lines \union DataLines,
         NEW a \in Agents, NEW b \in Agents, a.state = "work",
         Replying(value, got, <<>>, lines, a),
         \/ line = Data(value, a.sent + 1) /\ b.sent = a.sent + 1 /\ b.state = "work"
         \/ line.kind = "S" /\ b.sent = a.sent /\ b.state = "work"
         \/ line.kind = "INQUIRE" /\ b.sent = a.sent /\ b.state = "inquire"
         \/ line.kind = "OK" /\ a.sent = Parts /\ b.sent = a.sent /\ b.state = "ready"
  PROVE  Replying(value, got, <<>>, Append(lines, line), b)
<1> DEFINE more == Append(lines, line)
<1>1. /\ Len(lines) \in Nat /\ DOMAIN lines = 1..Len(lines)
      /\ Len(more) = Len(lines) + 1 /\ DOMAIN more = 1..(Len(lines) + 1)
      /\ \A i \in 1..Len(lines) : more[i] = lines[i]
      /\ more[Len(lines) + 1] = line
  BY AppendedAt
<1>2. \A kind : EndsIn(more, kind) <=> line.kind = kind
  BY EndsAppended
<1>3. a.sent \in Nat /\ b.sent \in Nat /\ Len(got) \in Nat
  BY CallsAssumption DEF Agents
<1>4. Len(got) <= a.sent /\ Carries(lines, value, Len(got) + 1, a.sent)
  BY DEF Replying
<1>5. Carries(more, value, Len(got) + 1, b.sent) /\ Len(got) <= b.sent
  <2>1. CASE line = Data(value, a.sent + 1) /\ b.sent = a.sent + 1
    BY <1>3, <1>4, <2>1, CarriesPart
  <2>2. CASE line.kind # "D" /\ b.sent = a.sent
    BY <1>3, <1>4, <2>2, CarriesMore
  <2>3. QED
    BY <2>1, <2>2
<1> HIDE DEF more
<1>6. \A i \in DOMAIN more : more[i].kind \in {"OK", "ERR", "INQUIRE"} => i = Len(more)
  <2>1. \A i \in DOMAIN lines : lines[i].kind \notin {"OK", "ERR", "INQUIRE"}
    BY <1>1 DEF Replying, EndsIn
  <2>2. QED
    BY <1>1, <2>1
<1>7. line.kind = "ERR" <=> FALSE
  BY DEF Data
<1>8. line.kind = "OK" <=> b.state = "ready"
  BY DEF Data
<1>9. line.kind = "INQUIRE" <=> b.state = "inquire"
  BY DEF Data
<1>10. b.state = "ready" => b.sent = Parts
  OBVIOUS
<1>11. b.state \in {"work", "inquire", "ready"}
  OBVIOUS
<1>12. \A i \in DOMAIN got : got[i] = Data(value, i)
  BY DEF Replying
<1>13. QED
  BY <1>2, <1>5, <1>6, <1>7, <1>8, <1>9, <1>10, <1>11, <1>12 DEF Replying, more

\* The task takes one line of the reply.
LEMMA ReplyingReads ==
  ASSUME NEW value \in Values, NEW got \in Seq(DataLines), NEW commands,
         NEW lines \in Seq(Lines \union DataLines), lines # <<>>, NEW a \in Agents,
         Replying(value, got, commands, lines, a)
  PROVE  /\ Head(lines).kind = "D" =>
              /\ Head(lines) \in DataLines
              /\ Replying(value, Append(got, Head(lines)), commands, Tail(lines), a)
         /\ Head(lines).kind = "S" => Replying(value, got, commands, Tail(lines), a)
         /\ Head(lines).kind = "INQUIRE" =>
              /\ commands = <<>>
              /\ \A command : command.verb = "END" =>
                   Replying(value, got, <<command>>, Tail(lines), a)
         /\ Head(lines).kind = "OK" => got = Reply(value)
         /\ Head(lines).kind # "ERR"
<1> DEFINE line == Head(lines)
           rest == Tail(lines)
<1>1. /\ Len(lines) \in Nat \ {0} /\ line \in Lines \union DataLines
      /\ 1 \in DOMAIN lines /\ line = lines[1]
  BY Taken, TakenAt
<1>2. /\ \A i \in DOMAIN got : got[i] = Data(value, i)
      /\ Len(got) <= a.sent
      /\ Carries(lines, value, Len(got) + 1, a.sent)
      /\ \A i \in DOMAIN lines : lines[i].kind \in {"OK", "ERR", "INQUIRE"} => i = Len(lines)
      /\ ~EndsIn(lines, "ERR")
      /\ EndsIn(lines, "OK") <=> a.state = "ready"
      /\ EndsIn(lines, "INQUIRE") <=> a.state = "inquire" /\ commands = <<>>
      /\ \/ a.state = "work" /\ commands = <<>>
         \/ a.state = "ready" /\ commands = <<>> /\ a.sent = Parts
         \/ a.state = "inquire" /\ commands = <<>>
         \/ a.state = "inquire" /\ Len(commands) = 1 /\ Head(commands).verb = "END"
  BY DEF Replying
<1>3. a.sent \in Nat /\ Len(got) \in Nat /\ Len(got) + 1 \in Nat /\ a.sent <= Parts
  BY CallsAssumption DEF Agents
<1>4. /\ \A i \in DOMAIN rest : rest[i].kind \in {"OK", "ERR", "INQUIRE"} => i = Len(rest)
      /\ line.kind \in {"OK", "ERR", "INQUIRE"} =>
           Len(lines) = 1 /\ rest = <<>> /\ EndsIn(lines, line.kind)
  BY <1>2, LastTaken
<1>5. \A kind : EndsIn(rest, kind) <=> EndsIn(lines, kind) /\ Len(lines) # 1
  BY EndsTaken
<1>6. \A kind : EndsIn(lines, kind) /\ line.kind # kind => Len(lines) # 1
  BY <1>1 DEF EndsIn
<1> HIDE DEF line, rest
<1>7. ASSUME line.kind = "D"
      PROVE  line \in DataLines /\ Replying(value, Append(got, line), commands, rest, a)
  <2>1. line \in DataLines
    BY <1>1, <1>7 DEF Lines
  <2>2. /\ Len(got) + 1 <= a.sent /\ line = Data(value, Len(got) + 1)
        /\ Carries(rest, value, Len(got) + 1 + 1, a.sent)
    BY <1>2, <1>3, <1>7, CarriesNext DEF line, rest
  <2>3. /\ Len(Append(got, line)) = Len(got) + 1
        /\ DOMAIN Append(got, line) = 1..(Len(got) + 1) /\ DOMAIN got = 1..Len(got)
        /\ \A i \in 1..Len(got) : Append(got, line)[i] = got[i]
        /\ Append(got, line)[Len(got) + 1] = line
    BY <2>1, AppendedAt
  <2>4. \A i \in DOMAIN Append(got, line) : Append(got, line)[i] = Data(value, i)
    BY <1>2, <1>3, <2>2, <2>3
  <2>5. Len(Append(got, line)) <= a.sent
    BY <2>2, <2>3
  <2>6. Carries(rest, value, Len(Append(got, line)) + 1, a.sent)
    BY <2>2, <2>3
  <2>7. /\ ~EndsIn(rest, "ERR")
        /\ EndsIn(rest, "OK") <=> a.state = "ready"
        /\ EndsIn(rest, "INQUIRE") <=> a.state = "inquire" /\ commands = <<>>
    BY <1>2, <1>5, <1>6, <1>7
  <2>8. QED
    BY <1>2, <1>4, <2>1, <2>4, <2>5, <2>6, <2>7 DEF Replying
<1>8. line.kind # "D" => Carries(rest, value, Len(got) + 1, a.sent)
  BY <1>2, <1>3, CarriesLess DEF line, rest
<1>9. ASSUME line.kind = "S"
      PROVE  Replying(value, got, commands, rest, a)
  <2>1. /\ ~EndsIn(rest, "ERR")
        /\ EndsIn(rest, "OK") <=> a.state = "ready"
        /\ EndsIn(rest, "INQUIRE") <=> a.state = "inquire" /\ commands = <<>>
    BY <1>2, <1>5, <1>6, <1>9
  <2>2. QED
    BY <1>2, <1>4, <1>8, <1>9, <2>1 DEF Replying
<1>10. ASSUME line.kind = "INQUIRE"
       PROVE  /\ commands = <<>>
              /\ \A command : command.verb = "END" => Replying(value, got, <<command>>, rest, a)
  <2>1. a.state = "inquire" /\ commands = <<>> /\ Len(lines) = 1 /\ rest = <<>>
    BY <1>2, <1>4, <1>10
  <2>2. \A kind : ~EndsIn(rest, kind)
    BY <1>5, <2>1
  <2>3. Carries(rest, value, Len(got) + 1, a.sent)
    BY <1>8, <1>10
  <2>4. ASSUME NEW command, command.verb = "END"
        PROVE  Replying(value, got, <<command>>, rest, a)
    <3>1. Len(<<command>>) = 1 /\ Head(<<command>>) = command /\ <<command>> # <<>>
      OBVIOUS
    <3>2. QED
      BY <1>2, <1>4, <2>1, <2>2, <2>3, <2>4, <3>1 DEF Replying
  <2>5. QED
    BY <2>1, <2>4
<1>11. ASSUME line.kind = "OK"
       PROVE  got = Reply(value)
  <2>1. a.sent = Parts /\ Len(lines) = 1
    BY <1>2, <1>4, <1>11
  <2>2. \A i \in DOMAIN lines : i = 1
    BY <2>1
  <2>3. ~(Len(got) + 1 <= Parts)
    <3>1. SUFFICES ASSUME Len(got) + 1 <= Parts PROVE FALSE
      OBVIOUS
    <3>2. Parts \in (Len(got) + 1)..a.sent
      BY <1>3, <2>1, <3>1
    <3>3. PICK i \in DOMAIN lines : lines[i] = Data(value, Parts)
      BY <1>2, <3>2 DEF Carries
    <3>4. QED
      BY <1>1, <1>11, <2>2, <3>3 DEF Data
  <2>4. Len(got) = Parts
    BY <1>2, <1>3, <2>1, <2>3
  <2>5. DOMAIN got = 1..Parts
    BY <2>4
  <2>6. QED
    BY <1>2, <2>5 DEF Reply
<1>12. line.kind # "ERR"
  BY <1>2, <1>4
<1>13. QED
  BY <1>7, <1>9, <1>10, <1>11, <1>12 DEF line, rest

-----------------------------------------------------------------------------
(* The lock step.                                                          *)

\* Nothing is connected at first.
LEMMA LockInit == Init => LockStep
<1> SUFFICES ASSUME Init PROVE LockStep
  OBVIOUS
<1>1. \A c \in Calls : conn[c] = None /\ data[c] = <<>>
  BY DEF Init
<1>2. QED
  BY <1>1 DEF LockStep, InStep

\* A call whose connection nobody has touched.
LEMMA Elsewhere ==
  ASSUME NEW d \in Calls, InStep(d), conn'[d] = conn[d], data'[d] = data[d],
         conn[d] # None =>
           /\ pc'[d] = pc[d] /\ answer'[d] = answer[d]
           /\ toAgent'[conn[d]] = toAgent[conn[d]]
           /\ toClient'[conn[d]] = toClient[conn[d]]
           /\ agent'[conn[d]] = agent[conn[d]]
  PROVE  InStep(d)'
BY DEF InStep

\* At every point the agent's end is open.
LEMMA PointOpen ==
  ASSUME NEW c \in Calls, NEW step \in {"greeting", "sigkey", "sethash", "data"},
         NEW got, NEW commands, NEW lines, NEW a,
         AtPoint(c, step, got, commands, lines, a)
  PROVE  a.state \in {"greet", "ready", "work", "inquire"}
BY DEF AtPoint, Greeting, Commanded, Requested, Replying

\* The actor's steps move calls that have no connection.
LEMMA ActorInStep ==
  ASSUME IInv, LockStep, Handle \/ \E c \in Calls : Ask(c)
  PROVE  LockStep'
<1>1. UNCHANGED <<conn, data, answer, toAgent, toClient, agent>>
  BY DEF Handle, Ask, task, socket
<1>2. PICK c \in Calls : pc[c] \in {"idle", "queued"} /\ \A d \in Calls : d # c => pc'[d] = pc[d]
  <2>1. CASE \E c \in Calls : Ask(c)
    BY <2>1 DEF Ask, IInv, TypeOK
  <2>2. CASE Handle
    <3>1. mailbox \in Seq(Calls) /\ mailbox # <<>>
      BY <2>2 DEF Handle, IInv, TypeOK
    <3>2. 1 \in DOMAIN mailbox /\ Head(mailbox) = mailbox[1] /\ Head(mailbox) \in Calls
      BY <3>1, Taken
    <3>3. pc[Head(mailbox)] = "queued"
      BY <3>2 DEF IInv, TypeOK
    <3>4. QED
      BY <2>2, <3>2, <3>3 DEF Handle, IInv, TypeOK
  <2>3. QED
    BY <2>1, <2>2
<1>3. conn[c] = None
  BY <1>2 DEF LockStep, InStep
<1>4. ASSUME NEW d \in Calls
      PROVE  InStep(d)'
  <2>1. InStep(d)
    BY DEF LockStep
  <2>2. QED
    BY <1>1, <1>2, <1>3, <2>1, Elsewhere
<1>5. QED
  BY <1>4 DEF LockStep

\* A step of a task touches its own call and its own connection.
LEMMA RunLocal ==
  ASSUME IInv, NEW c \in Calls, Run(c)
  PROVE  /\ \A d \in Calls : d # c =>
              /\ pc'[d] = pc[d] /\ conn'[d] = conn[d]
              /\ data'[d] = data[d] /\ answer'[d] = answer[d]
         /\ \A j \in Connections : j # conn[c] =>
              toAgent'[j] = toAgent[j] /\ toClient'[j] = toClient[j]
         /\ \A j \in Connections : agent[j].state # "unused" => agent'[j] = agent[j]
<1>1. /\ pc \in [Calls -> {"idle", "queued", "task", "greeting", "sigkey", "sethash",
                           "data", "over"}]
      /\ conn \in [Calls -> Connections \union {None}]
      /\ data \in [Calls -> Seq(DataLines)]
      /\ answer \in [Calls -> Values \union {Failed, None}]
      /\ toAgent \in [Connections -> Seq(Commands)]
      /\ toClient \in [Connections -> Seq(Lines \union DataLines)]
      /\ agent \in [Connections -> Agents]
  BY DEF IInv, TypeOK
<1>2. \A result : AnswerWith(c, result) =>
        /\ conn' = conn
        /\ \A d \in Calls : d # c => pc'[d] = pc[d] /\ answer'[d] = answer[d]
  BY <1>1 DEF AnswerWith
<1>3. \A verb, arg, next : Send(c, verb, arg, next) =>
        /\ conn' = conn
        /\ \A d \in Calls : d # c => pc'[d] = pc[d] /\ answer'[d] = answer[d]
        /\ \A j \in Connections : j # conn[c] => toAgent'[j] = toAgent[j]
  BY <1>1, <1>2 DEF Send
<1>4. Consume(c) => \A j \in Connections : j # conn[c] => toClient'[j] = toClient[j]
  BY <1>1 DEF Consume
<1>5. CASE Export(c) \/ ConnectFails(c)
  BY <1>2, <1>5 DEF Export, ConnectFails, socket
<1>6. ASSUME NEW k \in Connections, Connect(c, k)
      PROVE  /\ \A d \in Calls : d # c =>
                  /\ pc'[d] = pc[d] /\ conn'[d] = conn[d]
                  /\ data'[d] = data[d] /\ answer'[d] = answer[d]
             /\ UNCHANGED <<toAgent, toClient>>
             /\ \A j \in Connections : agent[j].state # "unused" => agent'[j] = agent[j]
  BY <1>1, <1>6 DEF Connect, socket
<1>7. CASE ExpectOk(c)
  <2>1. SendNext(c) => \E verb, arg, next : Send(c, verb, arg, next)
    BY DEF SendNext
  <2>2. QED
    BY <1>2, <1>3, <1>4, <1>7, <2>1 DEF ExpectOk, socket
<1>8. CASE ReadData(c)
  <2>1. \A line : data' = [data EXCEPT ![c] = Append(@, line)] =>
          \A d \in Calls : d # c => data'[d] = data[d]
    BY <1>1
  <2>2. QED
    BY <1>2, <1>3, <1>4, <1>8, <2>1 DEF ReadData, task, socket
<1>9. QED
  BY <1>5, <1>6, <1>7, <1>8 DEF Run

\* A task that answers is in step when it has a cause to fail.
LEMMA AnswerInStep ==
  ASSUME IInv, NEW c \in Calls, conn[c] # None, NEW result, AnswerWith(c, result),
         agent' = agent, ~agent[conn[c]].failed => result # Failed
  PROVE  InStep(c)'
<1>1. conn' = conn /\ pc'[c] = "over" /\ answer'[c] = result
  BY DEF AnswerWith, IInv, TypeOK
<1>2. QED
  BY <1>1 DEF InStep, AtPoint

\* A task that may send has a command under way next.
LEMMA SendInStep ==
  ASSUME IInv, NEW c \in Calls, conn[c] # None, NEW verb, NEW arg,
         NEW next \in {"sigkey", "sethash", "data"},
         [verb |-> verb, arg |-> arg] \in Commands,
         Send(c, verb, arg, next), agent' = agent,
         answer[c] # Failed,
         ~agent[conn[c]].failed =>
           /\ agent[conn[c]].state # "closed"
           /\ AtPoint(c, next, data'[c], Append(toAgent[conn[c]], [verb |-> verb, arg |-> arg]),
                      toClient'[conn[c]], agent[conn[c]])
  PROVE  InStep(c)'
<1>1. CASE agent[conn[c]].state # "closed"
  <2>1. /\ pc' = [pc EXCEPT ![c] = next] /\ conn' = conn /\ answer' = answer
        /\ toAgent' = [toAgent EXCEPT ![conn[c]] = Append(@, [verb |-> verb, arg |-> arg])]
    BY <1>1 DEF Send
  <2>2. /\ pc'[c] = next /\ conn[c] \in Connections
        /\ toAgent'[conn[c]] = Append(toAgent[conn[c]], [verb |-> verb, arg |-> arg])
    BY <2>1 DEF IInv, TypeOK
  <2>3. QED
    BY <2>1, <2>2 DEF InStep
<1>2. CASE ~(agent[conn[c]].state # "closed")
  BY <1>2, AnswerInStep DEF Send
<1>3. QED
  BY <1>1, <1>2

\* The greeting and the lines that answer commands without data.
LEMMA ExpectInStep ==
  ASSUME IInv, NEW c \in Calls, InStep(c), ExpectOk(c)
  PROVE  InStep(c)'
<1> DEFINE k == conn[c]
<1>1. /\ pc[c] \in {"greeting", "sigkey", "sethash"} /\ UNCHANGED <<data, agent>>
      /\ Waiting(c)
  BY DEF ExpectOk, Waiting
<1>2. /\ k \in Connections /\ k # None /\ answer[c] # Failed
      /\ toClient \in [Connections -> Seq(Lines \union DataLines)]
      /\ toClient[k] \in Seq(Lines \union DataLines)
      /\ toAgent[k] \in Seq(Commands)
  BY <1>1, Facts DEF IInv, TypeOK
<1>3. ~agent[k].failed => AtPoint(c, pc[c], data[c], toAgent[k], toClient[k], agent[k])
  BY <1>2 DEF InStep
<1>4. ~agent[k].failed => agent[k].state # "closed" /\ data[c] = <<>>
  <2>1. ~agent[k].failed => agent[k].state \in {"greet", "ready", "work", "inquire"}
    BY <1>1, <1>3, PointOpen
  <2>2. QED
    BY <1>1, <1>3, <2>1 DEF AtPoint
<1>5. ~agent[k].failed /\ toClient[k] # <<>> =>
        toClient[k] = <<Line("OK")>> /\ toAgent[k] = <<>> /\ agent[k].state = "ready"
  BY <1>1, <1>3 DEF AtPoint, Greeting, Commanded
<1>6. CASE Arrived(c) /\ Consume(c) /\ Kind(c) = "OK" /\ SendNext(c)
  <2>1. /\ toClient'[k] = Tail(toClient[k])
        /\ ~agent[k].failed => toClient'[k] = <<>> /\ toAgent[k] = <<>> /\ agent[k].state = "ready"
    <3>1. toClient'[k] = Tail(toClient[k]) /\ toClient[k] # <<>>
      BY <1>2, <1>6 DEF Arrived, Consume
    <3>2. Tail(<<Line("OK")>>) = <<>>
      OBVIOUS
    <3>3. QED
      BY <1>5, <3>1, <3>2
  <2>2. ASSUME NEW verb, NEW arg, NEW next \in {"sigkey", "sethash", "data"},
               [verb |-> verb, arg |-> arg] \in Commands,
               Send(c, verb, arg, next),
               \/ next = "sigkey" /\ verb = "SIGKEY"
               \/ next = "sethash" /\ verb = "SETHASH"
               \/ next = "data" /\ verb \in {"PKSIGN", "READKEY"}
        PROVE  InStep(c)'
    <3> DEFINE command == [verb |-> verb, arg |-> arg]
    <3>1. ASSUME ~agent[k].failed
          PROVE  AtPoint(c, next, data'[c], Append(toAgent[k], command), toClient'[k], agent[k])
      <4>1. Append(toAgent[k], command) = <<command>>
        <5>1. toAgent[k] = <<>>
          BY <2>1, <3>1
        <5> HIDE DEF command
        <5>2. QED
          BY <5>1, AppendedFirst
      <4>2. Len(<<command>>) = 1 /\ Head(<<command>>).verb = verb
        OBVIOUS
      <4>3. data'[c] = <<>> /\ toClient'[k] = <<>> /\ agent[k].state = "ready"
        BY <1>1, <1>4, <2>1, <3>1
      <4> HIDE DEF command
      <4>4. QED
        BY <2>2, <4>1, <4>2, <4>3 DEF AtPoint, Commanded, Requested
    <3>2. QED
      BY <1>1, <1>2, <1>4, <2>2, <3>1, SendInStep
  <2>3. /\ [verb |-> "SIGKEY", arg |-> Key[c]] \in Commands
        /\ [verb |-> "READKEY", arg |-> Key[c]] \in Commands
        /\ [verb |-> "SETHASH", arg |-> Hash[c]] \in Commands
        /\ [verb |-> "PKSIGN", arg |-> None] \in Commands
    BY Facts DEF Commands
  <2>4. \/ Send(c, "SIGKEY", Key[c], "sigkey")
        \/ Send(c, "READKEY", Key[c], "data")
        \/ Send(c, "SETHASH", Hash[c], "sethash")
        \/ Send(c, "PKSIGN", None, "data")
    BY <1>6 DEF SendNext
  <2>5. QED
    BY <2>2, <2>3, <2>4
<1>7. CASE Arrived(c) /\ Kind(c) # "OK" /\ AnswerWith(c, Failed)
  <2>1. agent[k].failed
    BY <1>2, <1>5, <1>7 DEF Arrived, Kind, Line, Agents, IInv, TypeOK
  <2>2. QED
    BY <1>1, <1>2, <1>7, <2>1, AnswerInStep
<1>8. CASE AtEnd(c) /\ AnswerWith(c, Failed)
  <2>1. agent[k].failed
    BY <1>4, <1>8 DEF AtEnd, IInv, TypeOK
  <2>2. QED
    BY <1>1, <1>2, <1>8, <2>1, AnswerInStep
<1>9. QED
  BY <1>6, <1>7, <1>8 DEF ExpectOk

\* A turn of the loop that reads a reply.
LEMMA ReadInStep ==
  ASSUME IInv, NEW c \in Calls, InStep(c), ReadData(c)
  PROVE  InStep(c)'
<1> DEFINE k == conn[c]
<1>1. pc[c] = "data" /\ agent' = agent /\ Waiting(c)
  BY DEF ReadData, Waiting
<1>2. /\ k \in Connections /\ k # None /\ answer[c] = None /\ None # Failed
      /\ toClient \in [Connections -> Seq(Lines \union DataLines)]
      /\ toClient[k] \in Seq(Lines \union DataLines)
      /\ toAgent[k] \in Seq(Commands)
      /\ data[c] \in Seq(DataLines) /\ data \in [Calls -> Seq(DataLines)]
      /\ agent[k] \in Agents
      /\ Asked(c) \in Values
  BY <1>1, Facts DEF IInv, TypeOK
<1>3. ASSUME ~agent[k].failed
      PROVE  /\ agent[k].state # "closed"
             /\ \/ Requested(data[c], toAgent[k], toClient[k], agent[k])
                \/ Replying(Asked(c), data[c], toAgent[k], toClient[k], agent[k])
  <2>1. AtPoint(c, pc[c], data[c], toAgent[k], toClient[k], agent[k])
    BY <1>2, <1>3 DEF InStep
  <2>2. QED
    BY <1>1, <2>1, PointOpen DEF AtPoint
<1>4. ASSUME Arrived(c), ~agent[k].failed
      PROVE  Replying(Asked(c), data[c], toAgent[k], toClient[k], agent[k])
  BY <1>3, <1>4 DEF Arrived, Requested
<1>5. CASE Arrived(c) /\ Consume(c)
  <2> DEFINE line == Head(toClient[k])
             rest == Tail(toClient[k])
  <2>1. toClient'[k] = rest /\ toClient[k] # <<>> /\ Kind(c) = line.kind
    BY <1>2, <1>5 DEF Arrived, Consume, Kind
  <2>2. ASSUME ~agent[k].failed
        PROVE  /\ line.kind = "D" =>
                    /\ line \in DataLines
                    /\ Replying(Asked(c), Append(data[c], line), toAgent[k], rest, agent[k])
               /\ line.kind = "S" => Replying(Asked(c), data[c], toAgent[k], rest, agent[k])
               /\ line.kind = "INQUIRE" =>
                    /\ toAgent[k] = <<>>
                    /\ \A command : command.verb = "END" =>
                         Replying(Asked(c), data[c], <<command>>, rest, agent[k])
               /\ line.kind = "OK" => data[c] = Reply(Asked(c))
               /\ line.kind # "ERR"
    BY <1>2, <1>4, <1>5, <2>1, <2>2, ReplyingReads
  <2> HIDE DEF line, rest
  <2>3. CASE /\ line.kind = "D" /\ data' = [data EXCEPT ![c] = Append(@, line)]
             /\ UNCHANGED <<mailbox, pc, conn, answer, toAgent>>
    <3>1. data'[c] = Append(data[c], line)
      BY <1>2, <2>3
    <3>2. ~agent[k].failed =>
            AtPoint(c, "data", data'[c], toAgent[k], rest, agent[k])
      BY <2>2, <2>3, <3>1 DEF AtPoint
    <3>3. QED
      BY <1>1, <1>2, <2>1, <2>3, <3>2 DEF InStep
  <2>4. CASE line.kind = "INQUIRE" /\ Send(c, "END", None, "data") /\ UNCHANGED data
    <3> DEFINE command == [verb |-> "END", arg |-> None]
    <3>1. command \in Commands
      BY DEF Commands
    <3>2. ASSUME ~agent[k].failed
          PROVE  /\ agent[k].state # "closed"
                 /\ AtPoint(c, "data", data'[c], Append(toAgent[k], command), rest, agent[k])
      <4>1. Append(toAgent[k], command) = <<command>> /\ command.verb = "END"
        <5>1. toAgent[k] = <<>> /\ command.verb = "END"
          BY <2>2, <2>4, <3>2
        <5> HIDE DEF command
        <5>2. QED
          BY <5>1, AppendedFirst
      <4> HIDE DEF command
      <4>2. Replying(Asked(c), data'[c], <<command>>, rest, agent[k])
        BY <2>2, <2>4, <3>2, <4>1
      <4>3. QED
        BY <1>3, <3>2, <4>1, <4>2 DEF AtPoint
    <3>3. QED
      BY <1>1, <1>2, <2>1, <2>4, <3>1, <3>2, SendInStep
  <2>5. CASE line.kind = "S" /\ UNCHANGED <<mailbox, pc, task, toAgent>>
    <3>1. ~agent[k].failed => AtPoint(c, "data", data[c], toAgent[k], rest, agent[k])
      BY <2>2, <2>5 DEF AtPoint
    <3>2. QED
      BY <1>1, <1>2, <2>1, <2>5, <3>1 DEF InStep, task
  <2>6. CASE line.kind = "OK" /\ AnswerWith(c, Parsed(data[c]))
    <3>1. data[c] = Reply(Asked(c)) => Parsed(data[c]) # Failed
      <4>1. SUFFICES ASSUME data[c] = Reply(Asked(c)) PROVE Parsed(data[c]) # Failed
        OBVIOUS
      <4>2. 1 \in 1..Parts
        BY CallsAssumption
      <4>3. data[c][1].value = Asked(c)
        BY <4>1, <4>2 DEF Reply, Data
      <4>4. Parsed(data[c]) = Asked(c)
        BY <1>2, <4>1, <4>3 DEF Parsed
      <4>5. Asked(c) # Failed
        BY DEF Asked, Failed
      <4>6. QED
        BY <4>4, <4>5
    <3>2. QED
      BY <1>1, <1>2, <2>2, <2>6, <3>1, AnswerInStep
  <2>7. CASE line.kind = "ERR" /\ AnswerWith(c, Failed)
    BY <1>1, <1>2, <2>2, <2>7, AnswerInStep
  <2>8. ~AtEnd(c) /\ ~Reset(c)
    BY <1>5 DEF AtEnd, Reset
  <2>9. QED
    BY <2>1, <2>3, <2>4, <2>5, <2>6, <2>7, <2>8 DEF ReadData, line
<1>6. CASE Reset(c) /\ AnswerWith(c, Failed)
  <2>1. agent[k].failed
    BY <1>2, <1>3, <1>6 DEF Reset, AtEnd
  <2>2. QED
    BY <1>1, <1>2, <1>6, <2>1, AnswerInStep
<1>7. CASE AtEnd(c) /\ UNCHANGED <<mailbox, pc, task, socket>>
  BY <1>1, <1>2, <1>7 DEF InStep, task, socket
<1>8. QED
  BY <1>5, <1>6, <1>7 DEF ReadData

\* Every step of a task keeps the lock step.
LEMMA RunInStep ==
  ASSUME IInv, LockStep, NEW c \in Calls, Run(c)
  PROVE  LockStep'
<1>1. InStep(c) /\ conn[c] \in Connections \union {None} /\ None \notin Connections
  BY Facts DEF LockStep, IInv, TypeOK
<1>2. ASSUME Export(c) \/ ConnectFails(c)
      PROVE  InStep(c)'
  <2>1. pc[c] = "task" /\ data' = data /\ conn' = conn
    BY <1>2 DEF Export, ConnectFails, AnswerWith
  <2>2. conn[c] = None /\ data[c] = <<>>
    BY <1>1, <2>1 DEF InStep
  <2>3. QED
    BY <2>1, <2>2 DEF InStep
<1>3. ASSUME NEW k \in Connections, Connect(c, k)
      PROVE  InStep(c)'
  <2>1. /\ conn'[c] = k /\ k # None /\ pc'[c] = "greeting" /\ answer' = answer
        /\ toAgent'[k] = <<>> /\ toClient'[k] = <<>> /\ agent'[k].state = "greet"
        /\ data'[c] = <<>> /\ answer[c] # Failed
    <3>1. /\ pc[c] = "task" /\ agent[k].state = "unused" /\ conn' = [conn EXCEPT ![c] = k]
          /\ agent' = [agent EXCEPT ![k].state = "greet"]
          /\ pc' = [pc EXCEPT ![c] = "greeting"]
          /\ UNCHANGED <<data, answer, toAgent, toClient>>
      BY <1>3 DEF Connect, socket
    <3>2. toAgent[k] = <<>> /\ toClient[k] = <<>>
      BY <3>1 DEF IInv, Private
    <3>3. data[c] = <<>>
      BY <1>1, <3>1 DEF InStep
    <3>4. answer[c] = None /\ None # Failed
      BY <3>1, Facts DEF IInv, TypeOK
    <3>5. agent'[k].state = "greet"
      BY <3>1 DEF IInv, TypeOK, Agents
    <3>6. conn'[c] = k /\ pc'[c] = "greeting"
      BY <3>1 DEF IInv, TypeOK
    <3>7. QED
      BY <1>1, <3>1, <3>2, <3>3, <3>4, <3>5, <3>6
  <2>2. AtPoint(c, "greeting", <<>>, <<>>, <<>>, agent'[k])
    BY <2>1 DEF AtPoint, Greeting
  <2>3. QED
    BY <2>1, <2>2 DEF InStep
<1>4. InStep(c)'
  <2>1. CASE ExpectOk(c)
    BY <1>1, <2>1, ExpectInStep
  <2>2. CASE ReadData(c)
    BY <1>1, <2>2, ReadInStep
  <2>3. QED
    BY <1>2, <1>3, <2>1, <2>2 DEF Run
<1>5. ASSUME NEW d \in Calls, d # c
      PROVE  InStep(d)'
  <2>1. conn[d] # None => conn[d] \in Connections /\ conn[d] # conn[c] /\ agent[conn[d]].state # "unused"
    BY <1>5 DEF IInv, TypeOK, Private
  <2>2. InStep(d)
    BY DEF LockStep
  <2>3. QED
    BY <1>5, <2>1, <2>2, RunLocal, Elsewhere
<1>6. QED
  BY <1>4, <1>5 DEF LockStep

\* The agent speaks or acts on connection k, whose call, if it waits, stays at
\* its point unless the agent has failed.
LEMMA AgentStays ==
  ASSUME IInv, LockStep, NEW k \in Connections, UNCHANGED <<mailbox, pc, task>>,
         \A j \in Connections : j # k => /\ toAgent'[j] = toAgent[j] /\ agent'[j] = agent[j]
                                        /\ toClient'[j] = toClient[j],
         agent[k].failed => agent'[k].failed,
         ASSUME NEW c \in Calls, conn[c] = k, ~agent[k].failed, ~agent'[k].failed,
                AtPoint(c, pc[c], data[c], toAgent[k], toClient[k], agent[k])
         PROVE  AtPoint(c, pc[c], data[c], toAgent'[k], toClient'[k], agent'[k])
  PROVE  LockStep'
<1>1. k # None /\ UNCHANGED <<conn, data, answer, pc>>
  BY Facts DEF task
<1>2. ASSUME NEW c \in Calls
      PROVE  InStep(c)'
  <2>1. InStep(c) /\ conn[c] \in Connections \union {None}
    BY DEF LockStep, IInv, TypeOK
  <2>2. CASE conn[c] = k
    <3>1. pc[c] \notin {"idle", "queued", "task"}
      BY <1>1, <2>1, <2>2 DEF InStep
    <3>2. ASSUME ~agent'[k].failed
          PROVE  /\ AtPoint(c, pc[c], data[c], toAgent'[k], toClient'[k], agent'[k])
                 /\ answer[c] # Failed
      <4>1. ~agent[k].failed
        BY <3>2
      <4>2. /\ AtPoint(c, pc[c], data[c], toAgent[k], toClient[k], agent[k])
            /\ answer[c] # Failed
        BY <1>1, <2>1, <2>2, <4>1 DEF InStep
      <4>3. QED
        BY <2>2, <3>2, <4>1, <4>2
    <3>3. QED
      BY <1>1, <2>2, <3>1, <3>2 DEF InStep
  <2>3. CASE conn[c] # k
    BY <1>1, <2>1, <2>3, Elsewhere
  <2>4. QED
    BY <2>2, <2>3
<1>3. QED
  BY <1>2 DEF LockStep

\* Whoever has not failed is at no point where the agent would be closed, and
\* what it says next keeps the point.
LEMMA PointGreet ==
  ASSUME NEW c \in Calls, NEW step, NEW got, NEW commands, NEW lines, NEW a, NEW b,
         AtPoint(c, step, got, commands, lines, a),
         a.state = "greet", b.state = "ready"
  PROVE  AtPoint(c, step, got, commands, Append(lines, Line("OK")), b)
<1>1. step = "greeting" => commands = <<>> /\ lines = <<>>
  BY DEF AtPoint, Greeting
<1>2. step \notin {"sigkey", "sethash", "data"}
  BY DEF AtPoint, Commanded, Requested, Replying
<1>3. lines = <<>> => Append(lines, Line("OK")) = <<Line("OK")>>
  BY AppendedFirst
<1>4. QED
  BY <1>1, <1>2, <1>3 DEF AtPoint, Greeting

\* It obeys a command without data.
LEMMA PointObeyed ==
  ASSUME NEW c \in Calls, NEW step, NEW got, NEW commands \in Seq(Commands), NEW lines,
         NEW a, NEW b,
         AtPoint(c, step, got, commands, lines, a),
         a.state = "ready", b.state = "ready", commands # <<>>,
         Head(commands).verb \in {"SIGKEY", "SETHASH"}
  PROVE  AtPoint(c, step, got, Tail(commands), Append(lines, Line("OK")), b)
<1>1. step # "greeting" /\ step # "data"
  BY DEF AtPoint, Greeting, Requested, Replying
<1>2. step \in {"sigkey", "sethash"} => Len(commands) = 1 /\ lines = <<>>
  BY DEF AtPoint, Commanded
<1>3. step \in {"sigkey", "sethash"} => Tail(commands) = <<>>
  BY <1>2, OneLeft
<1>4. lines = <<>> => Append(lines, Line("OK")) = <<Line("OK")>>
  BY AppendedFirst
<1>5. QED
  BY <1>1, <1>2, <1>3, <1>4 DEF AtPoint, Commanded

\* It goes to work.
LEMMA PointWorks ==
  ASSUME NEW c \in Calls, NEW step, NEW got, NEW commands \in Seq(Commands), NEW lines,
         NEW a, NEW b,
         AtPoint(c, step, got, commands, lines, a),
         a.state = "ready", b.state = "work", b.sent = 0, commands # <<>>,
         Head(commands).verb \in {"PKSIGN", "READKEY"}
  PROVE  AtPoint(c, step, got, Tail(commands), lines, b)
<1>1. step \notin {"greeting", "sigkey", "sethash"}
  BY DEF AtPoint, Greeting, Commanded
<1>2. ASSUME step = "data"
      PROVE  Len(commands) = 1 /\ lines = <<>> /\ got = <<>>
  BY <1>2 DEF AtPoint, Requested, Replying
<1>3. step = "data" => Tail(commands) = <<>>
  BY <1>2, OneLeft
<1>4. Replying(Asked(c), <<>>, <<>>, <<>>, b)
  <2>1. Carries(<<>>, Asked(c), 0 + 1, 0)
    BY DEF Carries
  <2>2. QED
    BY <2>1 DEF Replying, EndsIn
<1>5. QED
  BY <1>1, <1>2, <1>3, <1>4 DEF AtPoint

\* It says the next line of its reply.
LEMMA PointSays ==
  ASSUME NEW c \in Calls, NEW step, NEW got \in Seq(DataLines), NEW commands,
         NEW lines \in Seq(Lines \union DataLines), NEW line \in Lines \union DataLines,
         NEW a \in Agents, NEW b \in Agents, a.state = "work",
         AtPoint(c, step, got, commands, lines, a),
         \/ line = Data(Asked(c), a.sent + 1) /\ b.sent = a.sent + 1 /\ b.state = "work"
         \/ line.kind = "S" /\ b.sent = a.sent /\ b.state = "work"
         \/ line.kind = "INQUIRE" /\ b.sent = a.sent /\ b.state = "inquire"
         \/ line.kind = "OK" /\ a.sent = Parts /\ b.sent = a.sent /\ b.state = "ready"
  PROVE  AtPoint(c, step, got, commands, Append(lines, line), b)
<1>1. step \notin {"greeting", "sigkey", "sethash"}
  BY DEF AtPoint, Greeting, Commanded
<1>2. step = "data" => commands = <<>> /\ Replying(Asked(c), got, <<>>, lines, a)
  BY DEF AtPoint, Requested, Replying
<1>3. step = "data" => Replying(Asked(c), got, <<>>, Append(lines, line), b)
  BY <1>2, Facts, ReplyingSays
<1>4. QED
  BY <1>1, <1>2, <1>3 DEF AtPoint

\* It goes on after an inquiry.
LEMMA PointResumes ==
  ASSUME NEW c \in Calls, NEW step, NEW got, NEW commands \in Seq(Commands), NEW lines,
         NEW a, NEW b,
         AtPoint(c, step, got, commands, lines, a), commands # <<>>,
         a.state = "inquire", b.state = "work", b.sent = a.sent
  PROVE  AtPoint(c, step, got, Tail(commands), lines, b)
<1>1. step \notin {"greeting", "sigkey", "sethash"}
  BY DEF AtPoint, Greeting, Commanded
<1>2. step = "data" => Replying(Asked(c), got, commands, lines, a)
  BY DEF AtPoint, Requested
<1>3. step = "data" => Tail(commands) = <<>>
  <2>1. step = "data" => Len(commands) = 1
    BY <1>2 DEF Replying
  <2>2. QED
    BY <2>1, OneLeft
<1>4. step = "data" => Replying(Asked(c), got, <<>>, lines, b)
  BY <1>2 DEF Replying
<1>5. QED
  BY <1>1, <1>3, <1>4 DEF AtPoint

\* Every step of the agent keeps the lock step: what it says or does is next at
\* the point of the call, or makes it fail.
LEMMA AgentInStep ==
  ASSUME IInv, LockStep, NEW k \in Connections, Answers(k) \/ Noise(k) \/ HangUp(k)
  PROVE  LockStep'
<1>1. /\ toAgent \in [Connections -> Seq(Commands)] /\ toAgent[k] \in Seq(Commands)
      /\ toClient \in [Connections -> Seq(Lines \union DataLines)]
      /\ toClient[k] \in Seq(Lines \union DataLines)
      /\ agent \in [Connections -> Agents] /\ agent[k] \in Agents
      /\ \A c \in Calls : data[c] \in Seq(DataLines)
      /\ agent' \in [Connections -> Agents] /\ agent'[k] \in Agents
  <2>1. TypeOK /\ TypeOK'
    BY TypeNext DEF IInv, Next
  <2>2. QED
    BY <2>1 DEF TypeOK
<1>2. /\ UNCHANGED <<mailbox, pc, task>>
      /\ \A j \in Connections : j # k => /\ toAgent'[j] = toAgent[j] /\ agent'[j] = agent[j]
                                         /\ toClient'[j] = toClient[j]
      /\ agent[k].failed => agent'[k].failed
  <2>1. ASSUME NEW line, Say(k, line)
        PROVE  /\ UNCHANGED <<mailbox, pc, task>>
               /\ \A j \in Connections : j # k => toClient'[j] = toClient[j]
    BY <1>1, <2>1 DEF Say
  <2>2. CASE Greet(k)
    BY <1>1, <2>1, <2>2 DEF Greet, Agents
  <2>3. CASE Serve(k)
    BY <1>1, <2>1, <2>3 DEF Serve, Obeys, Refuses, Agents
  <2>4. CASE Work(k)
    BY <1>1, <2>1, <2>4 DEF Work, Refuses, Agents
  <2>5. CASE Resume(k)
    BY <1>1, <2>5 DEF Resume, Agents
  <2>6. CASE Noise(k)
    BY <1>1, <2>1, <2>6 DEF Noise, Agents
  <2>7. CASE HangUp(k)
    BY <1>1, <2>7 DEF HangUp, Agents, socket
  <2>8. QED
    BY <2>2, <2>3, <2>4, <2>5, <2>6, <2>7 DEF Answers
<1>3. ASSUME NEW c \in Calls, conn[c] = k, ~agent[k].failed, ~agent'[k].failed,
             AtPoint(c, pc[c], data[c], toAgent[k], toClient[k], agent[k])
      PROVE  AtPoint(c, pc[c], data[c], toAgent'[k], toClient'[k], agent'[k])
  <2>1. ASSUME NEW line, Say(k, line)
        PROVE  toClient'[k] = Append(toClient[k], line)
    BY <1>1, <2>1 DEF Say
  <2>2. \A kind \in {"OK", "ERR", "S", "INQUIRE"} :
          Line(kind) \in Lines \union DataLines /\ Line(kind).kind = kind
    BY Said DEF Line
  <2>3. ~Refuses(k)
    BY <1>1, <1>3 DEF Refuses, Agents
  <2>4. agent[k].state = "work" => agent[k].doing = Asked(c)
    BY <1>3, Facts DEF IInv, IsAbout, ServesOnly
  <2>5. CASE Greet(k)
    <3>1. /\ agent[k].state = "greet" /\ agent'[k].state = "ready"
          /\ toAgent'[k] = toAgent[k] /\ toClient'[k] = Append(toClient[k], Line("OK"))
      BY <1>1, <1>3, <2>1, <2>5 DEF Greet, Agents
    <3>2. QED
      BY <1>3, <3>1, PointGreet
  <2>6. CASE Serve(k)
    <3> DEFINE command == Head(toAgent[k])
    <3>1. /\ agent[k].state = "ready" /\ toAgent[k] # <<>>
          /\ toAgent'[k] = Tail(toAgent[k]) /\ Obeys(k, command)
      BY <1>1, <2>3, <2>6 DEF Serve
    <3>2. CASE command.verb \in {"SIGKEY", "SETHASH"}
      <4>1. agent'[k].state = "ready" /\ toClient'[k] = Append(toClient[k], Line("OK"))
        BY <1>1, <2>1, <3>1, <3>2 DEF Obeys, Agents
      <4>2. QED
        BY <1>1, <1>3, <3>1, <3>2, <4>1, PointObeyed
    <3>3. CASE command.verb \in {"PKSIGN", "READKEY"}
      <4>1. agent'[k].state = "work" /\ agent'[k].sent = 0 /\ toClient'[k] = toClient[k]
        BY <1>1, <3>1, <3>3 DEF Obeys, Agents
      <4>2. QED
        BY <1>1, <1>3, <3>1, <3>3, <4>1, PointWorks
    <3>4. QED
      BY <3>1, <3>2, <3>3 DEF Obeys
  <2>7. ASSUME NEW line \in Lines \union DataLines, agent[k].state = "work",
               toAgent' = toAgent, Say(k, line),
               \/ /\ line = Data(Asked(c), agent[k].sent + 1)
                  /\ agent'[k].sent = agent[k].sent + 1 /\ agent'[k].state = "work"
               \/ /\ line.kind = "S"
                  /\ agent'[k].sent = agent[k].sent /\ agent'[k].state = "work"
               \/ /\ line.kind = "INQUIRE"
                  /\ agent'[k].sent = agent[k].sent /\ agent'[k].state = "inquire"
               \/ /\ line.kind = "OK" /\ agent[k].sent = Parts
                  /\ agent'[k].sent = agent[k].sent /\ agent'[k].state = "ready"
        PROVE  AtPoint(c, pc[c], data[c], toAgent'[k], toClient'[k], agent'[k])
    <3>1. AtPoint(c, pc[c], data[c], toAgent[k], Append(toClient[k], line), agent'[k])
      BY <1>1, <1>3, <2>7, PointSays
    <3>2. QED
      BY <2>1, <2>7, <3>1
  <2>8. CASE Work(k)
    <3>1. agent[k].state = "work" /\ toAgent' = toAgent /\ agent[k].doing = Asked(c)
      BY <2>4, <2>8 DEF Work
    <3>2. CASE /\ agent[k].sent < Parts
               /\ agent' = [agent EXCEPT ![k].sent = @ + 1]
               /\ Say(k, Data(agent[k].doing, agent[k].sent + 1))
      <4>1. agent'[k].sent = agent[k].sent + 1 /\ agent'[k].state = "work"
        BY <1>1, <3>1, <3>2 DEF Agents
      <4>2. Data(Asked(c), agent[k].sent + 1) \in Lines \union DataLines
        <5>1. agent[k].sent + 1 \in 1..Parts
          BY <1>1, <3>2, CallsAssumption DEF Agents
        <5>2. QED
          BY <5>1, Facts DEF Data, DataLines
      <4>3. QED
        BY <2>7, <3>1, <3>2, <4>1, <4>2
    <3>3. CASE /\ agent[k].sent = Parts /\ agent' = [agent EXCEPT ![k].state = "ready"]
               /\ Say(k, Line("OK"))
      <4>1. agent'[k].sent = agent[k].sent /\ agent'[k].state = "ready"
        BY <1>1, <3>3 DEF Agents
      <4>2. QED
        BY <2>2, <2>7, <3>1, <3>3, <4>1
    <3>4. QED
      BY <2>3, <2>8, <3>2, <3>3 DEF Work
  <2>9. CASE Resume(k)
    <3>1. /\ agent[k].state = "inquire" /\ toAgent[k] # <<>>
          /\ toAgent'[k] = Tail(toAgent[k]) /\ toClient'[k] = toClient[k]
          /\ agent'[k].state = "work" /\ agent'[k].sent = agent[k].sent
      BY <1>1, <2>9 DEF Resume, Agents
    <3>2. QED
      BY <1>1, <1>3, <3>1, PointResumes
  <2>10. CASE Noise(k)
    <3>1. PICK kind \in {"S", "INQUIRE"} :
            /\ Say(k, Line(kind)) /\ agent[k].state = "work"
            /\ agent'[k].sent = agent[k].sent
            /\ agent'[k].state = IF kind = "S" THEN "work" ELSE "inquire"
      BY <1>1, <1>3, <2>10 DEF Noise, Agents
    <3>2. toAgent' = toAgent
      BY <2>10 DEF Noise
    <3>3. QED
      BY <2>2, <2>7, <3>1, <3>2
  <2>11. ~HangUp(k)
    BY <1>1, <1>3 DEF HangUp, Agents
  <2>12. QED
    BY <2>5, <2>6, <2>8, <2>9, <2>10, <2>11 DEF Answers
<1>4. QED
  BY <1>2, <1>3, AgentStays

\* Every step keeps the lock step.
LEMMA LockNext == IInv /\ LockStep /\ [Next]_vars => LockStep'
<1> SUFFICES ASSUME IInv, LockStep, [Next]_vars PROVE LockStep'
  OBVIOUS
<1>1. CASE UNCHANGED vars
  BY <1>1 DEF LockStep, InStep, vars, task, socket
<1>2. CASE Handle \/ \E c \in Calls : Ask(c)
  BY <1>2, ActorInStep
<1>3. ASSUME NEW c \in Calls, Run(c)
      PROVE  LockStep'
  BY <1>3, RunInStep
<1>4. ASSUME NEW k \in Connections, Answers(k) \/ Noise(k) \/ HangUp(k)
      PROVE  LockStep'
  BY <1>4, AgentInStep
<1>5. QED
  BY <1>1, <1>2, <1>3, <1>4 DEF Next

\* A task and an agent that has not failed are always at the same point of the
\* protocol: nothing of an earlier command is left on the connection, and the
\* parts of a reply are between them once each and in order.
THEOREM LockStepHolds == Spec => []LockStep
<1>1. Init => LockStep
  BY LockInit
<1>2. IInv /\ LockStep /\ [Next]_vars => LockStep'
  BY LockNext
<1>3. QED
  BY <1>1, <1>2, InvariantHolds, PTL DEF Spec

\* A connected task fails only when the agent has refused, broken the lock step
\* or hung up, for any number of parts, status lines and inquiries.
THEOREM FailsOnlyForCause == Spec => []FailsForCause
<1>1. LockStep => FailsForCause
  BY DEF LockStep, InStep, FailsForCause
<1>2. QED
  BY <1>1, LockStepHolds, PTL
=============================================================================
