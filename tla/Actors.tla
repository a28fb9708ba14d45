-------------------------------- MODULE Actors --------------------------------
(***************************************************************************)
(* RuntimeRoot's actors and the messages between them: a handler asks      *)
(* CertificateIssuer, GpgAgentSession or YggdrasilKey; the issuer, inside  *)
(* its handler, asks the session for a signature; and each of them tells   *)
(* the TraceRecorder what it has received and replied.  Mailboxes are      *)
(* bounded: a tell or an ask waits until there is room.                    *)
(*                                                                         *)
(* The issuer answers from its handler, which holds its mailbox up.  The   *)
(* other two spawn a task and delegate the reply to it.  What a task does  *)
(* (GpgAgent, Yggdrasil) is one step here, which succeeds or fails, or     *)
(* never comes: nothing in the code bounds how long it takes.              *)
(***************************************************************************)
EXTENDS Naturals, Sequences

CONSTANTS
  Asks,      \* the messages that handlers ask
  To,        \* To[a]: the actor asked, "tracer" for a ReportTrace
  Signs,     \* the asks of the issuer that need a signature
  Before,    \* Before[a]: the asks whose answers its asker awaits before it
  Capacity   \* bound: the messages a mailbox holds

Actors == {"issuer", "session", "key", "tracer"}
Reports == {a \in Asks : To[a] = "tracer"}

ASSUME AsksAssumption ==
  /\ To \in [Asks -> Actors]
  /\ Signs \subseteq {a \in Asks : To[a] = "issuer"}
  /\ Before \in [Asks -> SUBSET Asks]
ASSUME CapacityAssumption == Capacity \in Nat \ {0}

\* A message: an ask, or the question for its signature.
Messages == [of : Asks, signature : BOOLEAN]
Events == [at : Actors, of : Asks, signature : BOOLEAN, what : {"received", "replied"}]
\* A message being handled, by its actor's handler or by the task it spawned.
Jobs == [at : Actors, of : Asks, signature : BOOLEAN,
         step : {"received", "spawn", "work", "await", "replied", "send"}, ok : BOOLEAN]

VARIABLES
  mailbox,  \* mailbox[x]: the messages (events, for the tracer) actor x has not taken
  jobs,     \* the messages being handled
  signed,   \* signed[a]: the session's reply to the issuer: "none", "ok", "failed"
  answer,   \* answer[a]: "unsent", "sent", "ok" or "failed"
  events,   \* the recorder's trace
  report    \* report[a]: the trace a ReportTrace was answered with

vars == <<mailbox, jobs, signed, answer, events, report>>

TypeOK ==
  /\ mailbox \in [Actors -> Seq(Events \union Messages)]
  /\ \A x \in Actors \ {"tracer"} : mailbox[x] \in Seq(Messages)
  /\ \A x \in Actors : Len(mailbox[x]) <= Capacity
  /\ jobs \subseteq Jobs
  /\ signed \in [Asks -> {"none", "ok", "failed"}]
  /\ answer \in [Asks -> {"unsent", "sent", "ok", "failed"}]
  /\ events \in Seq(Events)
  /\ report \in [Asks -> Seq(Events)]

Init ==
  /\ mailbox = [x \in Actors |-> <<>>]
  /\ jobs = {}
  /\ signed = [a \in Asks |-> "none"]
  /\ answer = [a \in Asks |-> "unsent"]
  /\ events = <<>>
  /\ report = [a \in Asks |-> <<>>]

-----------------------------------------------------------------------------
(* Messages.                                                               *)

Ended(a) == answer[a] \in {"ok", "failed"}

\* Mutant: a mailbox without a bound.
DeliverUnbounded(x, m) == mailbox' = [mailbox EXCEPT ![x] = Append(@, m)]

\* A message or event enters x's mailbox when there is room.
Deliver(x, m) ==
  /\ Len(mailbox[x]) < Capacity
  /\ mailbox' = [mailbox EXCEPT ![x] = Append(@, m)]

\* A handler returns at the first error; a test asks for the trace regardless.
Ask(a) ==
  /\ answer[a] = "unsent"
  /\ \A b \in Before[a] : answer[b] = "ok" \/ (a \in Reports /\ Ended(b))
  /\ Deliver(To[a], [of |-> a, signature |-> FALSE])
  /\ answer' = [answer EXCEPT ![a] = "sent"]
  /\ UNCHANGED <<jobs, signed, events, report>>

\* Whether job j holds its actor's mailbox up.
Holds(j) == j.at = "issuer" \/ j.step \in {"received", "spawn"}

Take(x) ==
  /\ x # "tracer" /\ mailbox[x] # <<>>
  /\ \A j \in jobs : Holds(j) => j.at # x
  /\ LET m == Head(mailbox[x]) IN
       jobs' = jobs \union {[at |-> x, of |-> m.of, signature |-> m.signature,
                             step |-> "received", ok |-> TRUE]}
  /\ mailbox' = [mailbox EXCEPT ![x] = Tail(@)]
  /\ UNCHANGED <<signed, answer, events, report>>

\* The recorder takes an event, or answers a report.
Record ==
  /\ mailbox["tracer"] # <<>>
  /\ LET m == Head(mailbox["tracer"]) IN
       IF m \in Events
       THEN events' = Append(events, m) /\ UNCHANGED <<answer, report>>
       ELSE /\ report' = [report EXCEPT ![m.of] = events]
            /\ answer' = [answer EXCEPT ![m.of] = "ok"]
            /\ UNCHANGED events
  /\ mailbox' = [mailbox EXCEPT !["tracer"] = Tail(@)]
  /\ UNCHANGED <<jobs, signed>>

-----------------------------------------------------------------------------
(* Handlers and tasks.                                                     *)

Move(j, step) == jobs' = (jobs \ {j}) \union {[j EXCEPT !.step = step]}

Event(at, a, s, what) == [at |-> at, of |-> a, signature |-> s, what |-> what]

Emit(j, what) == Deliver("tracer", Event(j.at, j.of, j.signature, what))

\* The reply reaches the asker: a handler, or the issuer for a signature.
Answers(j, how) ==
  /\ jobs' = jobs \ {j}
  /\ IF j.signature
     THEN signed' = [signed EXCEPT ![j.of] = how] /\ UNCHANGED answer
     ELSE answer' = [answer EXCEPT ![j.of] = how] /\ UNCHANGED signed

EmitReceived(j) ==
  /\ j.step = "received"
  /\ Emit(j, "received")
  /\ Move(j, IF j.at = "issuer" THEN "work" ELSE "spawn")
  /\ UNCHANGED <<signed, answer, events, report>>

\* The reply is delegated to a task and the handler returns.
SpawnTask(j) ==
  /\ j.step = "spawn"
  /\ Move(j, "work")
  /\ UNCHANGED <<mailbox, signed, answer, events, report>>

\* The task has done its work, failed, or failed to join.
Work(j) ==
  /\ j.step = "work" /\ j.at # "issuer"
  /\ \E ok \in BOOLEAN :
       jobs' = (jobs \ {j}) \union {[j EXCEPT !.step = "replied", !.ok = ok]}
  /\ UNCHANGED <<mailbox, signed, answer, events, report>>

\* The issuer builds a certificate and asks for its signature.
AskSignature(j) ==
  /\ j.step = "work" /\ j.at = "issuer" /\ j.of \in Signs
  /\ Deliver("session", [of |-> j.of, signature |-> TRUE])
  /\ Move(j, "await")
  /\ UNCHANGED <<signed, answer, events, report>>

\* It verifies a chain by itself; an error is returned without a trace.
VerifyChain(j) ==
  /\ j.step = "work" /\ j.at = "issuer" /\ j.of \notin Signs
  /\ \/ Move(j, "replied") /\ UNCHANGED <<signed, answer>>
     \/ Answers(j, "failed")
  /\ UNCHANGED <<mailbox, events, report>>

\* Mutant: the issuer waits for a signature and takes no error.
AwaitSigned(j) ==
  /\ j.step = "await" /\ signed[j.of] = "ok"
  /\ Move(j, "replied")
  /\ UNCHANGED <<mailbox, signed, answer, events, report>>

\* translate_send_error passes the session's error on, again without a trace.
AwaitSignature(j) ==
  /\ j.step = "await" /\ signed[j.of] # "none"
  /\ IF signed[j.of] = "ok"
     THEN Move(j, "replied") /\ UNCHANGED <<signed, answer>>
     ELSE Answers(j, "failed")
  /\ UNCHANGED <<mailbox, events, report>>

\* Mutant: the event is dropped when the recorder's mailbox is full.
EmitRepliedTried(j) ==
  /\ j.step = "replied"
  /\ Emit(j, "replied") \/ (Len(mailbox["tracer"]) = Capacity /\ UNCHANGED mailbox)
  /\ Move(j, "send")
  /\ UNCHANGED <<signed, answer, events, report>>

EmitReplied(j) ==
  /\ j.step = "replied"
  /\ Emit(j, "replied")
  /\ Move(j, "send")
  /\ UNCHANGED <<signed, answer, events, report>>

Reply(j) ==
  /\ j.step = "send"
  /\ Answers(j, IF j.ok THEN "ok" ELSE "failed")
  /\ UNCHANGED <<mailbox, events, report>>

\* What the runtime does with a job, all but the work of its task.
Proceed(j) ==
  \/ EmitReceived(j)
  \/ SpawnTask(j)
  \/ AskSignature(j)
  \/ VerifyChain(j)
  \/ AwaitSignature(j)
  \/ EmitReplied(j)
  \/ Reply(j)

Handle(j) == Proceed(j) \/ Work(j)

Next ==
  \/ \E a \in Asks : Ask(a)
  \/ \E x \in Actors : Take(x)
  \/ Record
  \/ \E j \in jobs : Handle(j)

Spec == Init /\ [][Next]_vars

\* The runtime polls what is ready: an actor, the recorder, and each handler
\* and task (a message's job, whichever step it is at).  Fairness is strong
\* where a mailbox may be full: it admits its senders in their order.  Nothing
\* makes a task's work end: it may wait on gpg-agent or on a binary without a
\* timeout, or spin when the agent hangs up within a data response.
FairSpec ==
  /\ Spec
  /\ \A x \in Actors : WF_vars(Take(x))
  /\ WF_vars(Record)
  /\ \A a \in Asks, s \in BOOLEAN :
       a \notin Reports /\ (s => a \in Signs) =>
         SF_vars(\E j \in jobs : j.of = a /\ j.signature = s /\ Proceed(j))

-----------------------------------------------------------------------------
(* Properties.                                                             *)

\* The events of ask a and of its signature.
Received(a) == Event(To[a], a, FALSE, "received")
Replied(a) == Event(To[a], a, FALSE, "replied")
SessionReceived(a) == Event("session", a, TRUE, "received")
SessionReplied(a) == Event("session", a, TRUE, "replied")

\* Trace t has the first event before the second.
Precedes(t, first, second) == \E i, k \in DOMAIN t : i < k /\ t[i] = first /\ t[k] = second

\* Trace t tells the whole of ask a: received before replied, a signature
\* between the two, and nothing of a before the reply to what its asker awaited.
Complete(t, a) ==
  /\ Precedes(t, Received(a), Replied(a))
  /\ a \in Signs =>
       /\ Precedes(t, Received(a), SessionReceived(a))
       /\ Precedes(t, SessionReceived(a), SessionReplied(a))
       /\ Precedes(t, SessionReplied(a), Replied(a))
  /\ \A b \in Before[a] \ Reports : Precedes(t, Replied(b), Received(a))

\* A trace asked for after a successful ask tells what happened, all of it and
\* in the order in which it happened (so that ensure is seen before read).
TraceOrdered ==
  \A r \in Reports : answer[r] = "ok" =>
    \A a \in Before[r] \ Reports : answer[a] = "ok" => Complete(report[r], a)

\* The tasks ask a waits for, by what they are for: its own, or, when it is the
\* issuer that is asked, any that signs, for the issuer takes one ask at a time.
WaitsFor(a) == IF To[a] = "issuer" THEN Signs \X {TRUE} ELSE {<<a, FALSE>>}

\* The task for ask b, or for its signature, is at work.
AtWork(b, signature) ==
  \E j \in jobs : j.of = b /\ j.signature = signature /\ j.step = "work"

\* Nobody waits on everybody: whatever fails and however small the mailboxes
\* are, every ask that is sent is answered, with a result or an error, but for
\* one whose task never ends, or one of the issuer's when a task that signs never
\* ends.  A hanging task holds up no ask of another actor.
Answered ==
  \A a \in Asks :
    <>[](answer[a] = "sent") => \E t \in WaitsFor(a) : <>[]AtWork(t[1], t[2])

-----------------------------------------------------------------------------
(* Why TraceOrdered holds: what a message or a job has been through is in  *)
(* the trace, or waits at the recorder in its place.                       *)

\* The trace up to the first n messages that wait at the recorder.
Trace(n) == [i \in 1..(Len(events) + n) |->
  IF i <= Len(events) THEN events[i] ELSE mailbox["tracer"][i - Len(events)]]
Told == Trace(Len(mailbox["tracer"]))

Tells(t, event) == \E i \in DOMAIN t : t[i] = event

\* Ask a may be received: what its asker awaited has been replied to.
Due(t, a) == \A b \in Before[a] \ Reports : Tells(t, Replied(b))
\* It has been received since.
Opened(t, a) ==
  /\ Tells(t, Received(a))
  /\ \A b \in Before[a] \ Reports : Precedes(t, Replied(b), Received(a))
\* And so has been the question for its signature, and the reply to it.
SessionOpened(t, a) == Precedes(t, Received(a), SessionReceived(a))
Signed(t, a) == SessionOpened(t, a) /\ Precedes(t, SessionReceived(a), SessionReplied(a))

\* A message or a job of an ask is at the actor asked, one of a signature at the session.
At(x, m) == IF m.signature THEN x = "session" /\ m.of \in Signs ELSE x = To[m.of]

\* What the trace tells of a message that waits, and of one that is handled.
MessageTold(t, m) ==
  IF m.signature THEN Tells(t, Received(m.of)) ELSE m.of \notin Reports => Due(t, m.of)
JobTold(t, j) ==
  IF j.signature
  THEN /\ Tells(t, Received(j.of))
       /\ j.step # "received" => SessionOpened(t, j.of)
       /\ j.step = "send" => Signed(t, j.of)
  ELSE /\ Due(t, j.of)
       /\ j.step # "received" => Opened(t, j.of)
       /\ j.step \in {"replied", "send"} /\ j.of \in Signs => Signed(t, j.of)
       /\ j.step = "send" => Complete(t, j.of)

\* Messages and jobs are where they belong, and the trace tells of them.
QueuedTold == \A x \in Actors : \A i \in DOMAIN mailbox[x] : mailbox[x][i] \in Messages =>
  At(x, mailbox[x][i]) /\ MessageTold(Told, mailbox[x][i])
HandledTold == \A j \in jobs : j.at # "tracer" /\ At(j.at, j) /\ JobTold(Told, j)
AnsweredTold ==
  /\ \A a \in Signs : signed[a] = "ok" => Signed(Told, a)
  /\ \A a \in Asks \ Reports : answer[a] = "ok" => Complete(Told, a)

\* Of ask a there is one message or one job while it is sent, and none after.
Waits(x, i, a) == mailbox[x][i] = [of |-> a, signature |-> FALSE]
Works(j, a) == j.of = a /\ ~j.signature
Once(a) ==
  /\ \A x \in Actors : \A i \in DOMAIN mailbox[x] : Waits(x, i, a) =>
       /\ answer[a] = "sent"
       /\ \A k \in DOMAIN mailbox[x] : Waits(x, k, a) => k = i
       /\ \A j \in jobs : ~Works(j, a)
  /\ \A j \in jobs : Works(j, a) =>
       /\ answer[a] = "sent"
       /\ \A k \in jobs : Works(k, a) => k = j

\* Trace t tells all that report r was asked after.
ToldAll(t, r) == \A a \in Before[r] \ Reports :
  Ended(a) /\ (answer[a] = "ok" => Complete(t, a))

\* So does the trace of a report, and will that of one that waits.
ReportsTell == \A r \in Reports :
  /\ answer[r] = "ok" => ToldAll(report[r], r)
  /\ \A i \in DOMAIN mailbox["tracer"] : Waits("tracer", i, r) => ToldAll(Trace(i - 1), r)

IInv ==
  /\ TypeOK
  /\ QueuedTold
  /\ HandledTold
  /\ AnsweredTold
  /\ \A a \in Asks : Once(a)
  /\ ReportsTell
=============================================================================
