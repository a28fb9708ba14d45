----------------------------- MODULE ActorsProofs -----------------------------
(***************************************************************************)
(* What Actors keeps for any asks, any order among them and any capacity   *)
(* of the mailboxes: a report tells the whole of every successful ask that *)
(* its asker awaited, in the order in which it happened.                   *)
(***************************************************************************)
EXTENDS Actors, SequenceTheorems, TLAPS

-----------------------------------------------------------------------------
(* Sequences, messages and events.                                         *)

\* Append and Tail by position.
LEMMA AppendedAt ==
  ASSUME NEW S, NEW s \in Seq(S), NEW x \in S
  PROVE  /\ Append(s, x) \in Seq(S)
         /\ Len(s) \in Nat /\ DOMAIN s = 1..Len(s)
         /\ Len(Append(s, x)) = Len(s) + 1 /\ DOMAIN Append(s, x) = 1..(Len(s) + 1)
         /\ \A i \in 1..Len(s) : Append(s, x)[i] = s[i]
         /\ Append(s, x)[Len(s) + 1] = x
BY AppendProperties, LenProperties

LEMMA TakenAt ==
  ASSUME NEW S, NEW s \in Seq(S), s # <<>>
  PROVE  /\ Len(s) \in Nat \ {0} /\ DOMAIN s = 1..Len(s)
         /\ Head(s) \in S /\ Head(s) = s[1] /\ Tail(s) \in Seq(S)
         /\ Len(Tail(s)) = Len(s) - 1 /\ DOMAIN Tail(s) = 1..(Len(s) - 1)
         /\ \A i \in 1..(Len(s) - 1) : Tail(s)[i] = s[i + 1]
BY HeadTailProperties, LenProperties, EmptySeq

\* The elements that are left, by position.
LEMMA Left ==
  ASSUME NEW S, NEW s \in Seq(S), s # <<>>, NEW u, u = Tail(s)
  PROVE  \E size \in Nat : /\ size = Len(s) /\ DOMAIN s = 1..size /\ size > 0
                           /\ Head(s) = s[1] /\ DOMAIN u = 1..(size - 1)
                           /\ \A i \in 1..(size - 1) : u[i] = s[i + 1]
<1>1. /\ Len(s) \in Nat \ {0} /\ DOMAIN s = 1..Len(s) /\ Head(s) = s[1]
      /\ DOMAIN u = 1..(Len(s) - 1)
      /\ \A i \in 1..(Len(s) - 1) : u[i] = s[i + 1]
  BY TakenAt
<1>2. Len(s) \in Nat /\ Len(s) > 0
  BY <1>1
<1> DEFINE n == Len(s)
<1>3. n = Len(s)
  OBVIOUS
<1> HIDE DEF n
<1>4. QED
  BY <1>1, <1>2, <1>3

\* A message is no event: it has no actor.
LEMMA NoEvent == \A m \in Messages, e \in Events : m # e
<1>1. \A m \in Messages : DOMAIN m = {"of", "signature"}
  BY DEF Messages
<1>2. \A e \in Events : DOMAIN e = {"at", "of", "signature", "what"}
  BY DEF Events
<1>3. QED
  BY <1>1, <1>2

\* What is told and asked has its type.
LEMMA Typed ==
  /\ \A a \in Asks : /\ {Received(a), Replied(a), SessionReceived(a), SessionReplied(a)} \subseteq Events
                     /\ \A s \in BOOLEAN : [of |-> a, signature |-> s] \in Messages
                     /\ To[a] \in Actors /\ Before[a] \subseteq Asks
                     /\ a \in Signs => To[a] = "issuer" /\ a \notin Reports
  /\ \A j \in Jobs : \A what \in {"received", "replied"} :
       Event(j.at, j.of, j.signature, what) \in Events
BY AsksAssumption DEF Received, Replied, SessionReceived, SessionReplied, Event, Events, Messages,
   Actors, Jobs, Reports

-----------------------------------------------------------------------------
(* Types.                                                                  *)

LEMMA TypeInit == Init => TypeOK
<1> SUFFICES ASSUME Init PROVE TypeOK
  OBVIOUS
<1>1. \A x \in Actors : mailbox[x] = <<>> /\ Len(mailbox[x]) = 0
  BY DEF Init
<1>2. QED
  BY <1>1, CapacityAssumption DEF Init, TypeOK

\* A message that enters a mailbox keeps it within its capacity.
LEMMA DeliverTyped ==
  ASSUME TypeOK, NEW x \in Actors, NEW m \in Events \union Messages,
         x # "tracer" => m \in Messages, Deliver(x, m)
  PROVE  /\ mailbox' \in [Actors -> Seq(Events \union Messages)]
         /\ \A y \in Actors \ {"tracer"} : mailbox'[y] \in Seq(Messages)
         /\ \A y \in Actors : Len(mailbox'[y]) <= Capacity
         /\ mailbox'[x] = Append(mailbox[x], m)
         /\ \A y \in Actors \ {x} : mailbox'[y] = mailbox[y]
<1>1. /\ mailbox'[x] = Append(mailbox[x], m) /\ Len(mailbox[x]) < Capacity
      /\ \A y \in Actors \ {x} : mailbox'[y] = mailbox[y]
      /\ mailbox[x] \in Seq(Events \union Messages)
  BY DEF Deliver, TypeOK
<1>2. /\ Append(mailbox[x], m) \in Seq(Events \union Messages)
      /\ Len(Append(mailbox[x], m)) = Len(mailbox[x]) + 1 /\ Len(mailbox[x]) \in Nat
  BY <1>1, AppendedAt
<1>3. x # "tracer" => Append(mailbox[x], m) \in Seq(Messages)
  BY AppendedAt DEF TypeOK
<1>4. mailbox' \in [Actors -> Seq(Events \union Messages)]
  BY <1>2 DEF Deliver, TypeOK
<1>5. Len(mailbox'[x]) <= Capacity
  BY <1>1, <1>2, CapacityAssumption
<1>6. QED
  BY <1>1, <1>3, <1>4, <1>5 DEF TypeOK

\* So does one that leaves it.
LEMMA TakeTyped ==
  ASSUME TypeOK, NEW x \in Actors, mailbox[x] # <<>>,
         mailbox' = [mailbox EXCEPT ![x] = Tail(@)]
  PROVE  /\ mailbox' \in [Actors -> Seq(Events \union Messages)]
         /\ \A y \in Actors \ {"tracer"} : mailbox'[y] \in Seq(Messages)
         /\ \A y \in Actors : Len(mailbox'[y]) <= Capacity
         /\ mailbox'[x] = Tail(mailbox[x])
         /\ \A y \in Actors \ {x} : mailbox'[y] = mailbox[y]
         /\ Head(mailbox[x]) \in Events \union Messages
         /\ x # "tracer" => Head(mailbox[x]) \in Messages
<1>1. /\ mailbox'[x] = Tail(mailbox[x])
      /\ \A y \in Actors \ {x} : mailbox'[y] = mailbox[y]
      /\ mailbox[x] \in Seq(Events \union Messages)
  BY DEF TypeOK
<1>2. /\ Tail(mailbox[x]) \in Seq(Events \union Messages)
      /\ Len(Tail(mailbox[x])) = Len(mailbox[x]) - 1 /\ Len(mailbox[x]) \in Nat \ {0}
      /\ Head(mailbox[x]) \in Events \union Messages
  BY <1>1, TakenAt
<1>3. x # "tracer" => Tail(mailbox[x]) \in Seq(Messages) /\ Head(mailbox[x]) \in Messages
  BY TakenAt DEF TypeOK
<1>4. mailbox' \in [Actors -> Seq(Events \union Messages)]
  BY <1>2 DEF TypeOK
<1>5. Len(mailbox'[x]) <= Capacity
  BY <1>1, <1>2, CapacityAssumption DEF TypeOK
<1>6. QED
  BY <1>1, <1>2, <1>3, <1>4, <1>5 DEF TypeOK

\* Every step of a job keeps the types.
LEMMA TypeHandle ==
  ASSUME TypeOK, NEW j \in jobs, Handle(j)
  PROVE  TypeOK'
<1>1. j \in Jobs /\ jobs \subseteq Jobs /\ "tracer" \in Actors /\ "session" \in Actors
  BY DEF TypeOK, Actors
<1>2. \A step \in {"received", "spawn", "work", "await", "replied", "send"} :
        Move(j, step) => jobs' \subseteq Jobs
  BY <1>1 DEF Move, Jobs
<1>3. \A how \in {"ok", "failed"} : Answers(j, how) =>
        /\ jobs' \subseteq Jobs
        /\ signed' \in [Asks -> {"none", "ok", "failed"}]
        /\ answer' \in [Asks -> {"unsent", "sent", "ok", "failed"}]
  BY <1>1 DEF Answers, TypeOK
<1>4. \A what \in {"received", "replied"} : Emit(j, what) =>
        /\ mailbox' \in [Actors -> Seq(Events \union Messages)]
        /\ \A y \in Actors \ {"tracer"} : mailbox'[y] \in Seq(Messages)
        /\ \A y \in Actors : Len(mailbox'[y]) <= Capacity
  BY <1>1, Typed, DeliverTyped DEF Emit
<1>5. CASE EmitReceived(j)
  BY <1>2, <1>4, <1>5 DEF EmitReceived, TypeOK
<1>6. CASE SpawnTask(j)
  BY <1>2, <1>6 DEF SpawnTask, TypeOK
<1>7. CASE Work(j)
  <2>1. jobs' \subseteq Jobs
    BY <1>1, <1>7 DEF Work, Jobs
  <2>2. QED
    BY <1>7, <2>1 DEF Work, TypeOK
<1>8. CASE AskSignature(j)
  <2>1. [of |-> j.of, signature |-> TRUE] \in Messages
    BY <1>1 DEF Jobs, Messages
  <2>2. QED
    BY <1>1, <1>2, <1>8, <2>1, DeliverTyped DEF AskSignature, TypeOK
<1>9. CASE VerifyChain(j)
  BY <1>2, <1>3, <1>9 DEF VerifyChain, TypeOK
<1>10. CASE AwaitSignature(j)
  BY <1>2, <1>3, <1>10 DEF AwaitSignature, TypeOK
<1>11. CASE EmitReplied(j)
  BY <1>2, <1>4, <1>11 DEF EmitReplied, TypeOK
<1>12. CASE Reply(j)
  <2>1. PICK how \in {"ok", "failed"} : Answers(j, how)
    BY <1>12 DEF Reply
  <2>2. QED
    BY <1>3, <1>12, <2>1 DEF Reply, TypeOK
<1>13. QED
  BY <1>5, <1>6, <1>7, <1>8, <1>9, <1>10, <1>11, <1>12 DEF Handle, Proceed

LEMMA TypeNext == TypeOK /\ [Next]_vars => TypeOK'
<1> SUFFICES ASSUME TypeOK, [Next]_vars PROVE TypeOK'
  OBVIOUS
<1>1. CASE UNCHANGED vars
  BY <1>1 DEF TypeOK, vars
<1>2. ASSUME NEW a \in Asks, Ask(a)
      PROVE  TypeOK'
  <2>1. [of |-> a, signature |-> FALSE] \in Messages /\ To[a] \in Actors
    BY Typed
  <2>2. QED
    BY <1>2, <2>1, DeliverTyped DEF Ask, TypeOK
<1>3. ASSUME NEW x \in Actors, Take(x)
      PROVE  TypeOK'
  <2>1. [at |-> x, of |-> Head(mailbox[x]).of, signature |-> Head(mailbox[x]).signature,
         step |-> "received", ok |-> TRUE] \in Jobs
    BY <1>3, TakeTyped DEF Take, Messages, Jobs
  <2>2. QED
    BY <1>3, <2>1, TakeTyped DEF Take, TypeOK
<1>4. CASE Record
  <2>1. /\ "tracer" \in Actors /\ Head(mailbox["tracer"]) \in Events \union Messages
        /\ mailbox' \in [Actors -> Seq(Events \union Messages)]
        /\ \A y \in Actors \ {"tracer"} : mailbox'[y] \in Seq(Messages)
        /\ \A y \in Actors : Len(mailbox'[y]) <= Capacity
    BY <1>4, TakeTyped DEF Record, Actors
  <2>2. CASE Head(mailbox["tracer"]) \in Events
    <3>1. /\ events' = Append(events, Head(mailbox["tracer"]))
          /\ UNCHANGED <<jobs, signed, answer, report>>
      BY <1>4, <2>2 DEF Record
    <3>2. events' \in Seq(Events)
      BY <2>2, <3>1, AppendedAt DEF TypeOK
    <3>3. QED
      BY <2>1, <3>1, <3>2 DEF TypeOK
  <2>3. CASE Head(mailbox["tracer"]) \notin Events
    <3>1. PICK a \in Asks : /\ report' = [report EXCEPT ![a] = events]
                           /\ answer' = [answer EXCEPT ![a] = "ok"]
                           /\ UNCHANGED <<jobs, signed, events>>
      BY <1>4, <2>1, <2>3 DEF Record, Messages
    <3>2. QED
      BY <2>1, <3>1 DEF TypeOK
  <2>4. QED
    BY <2>2, <2>3
<1>5. ASSUME NEW j \in jobs, Handle(j)
      PROVE  TypeOK'
  BY <1>5, TypeHandle
<1>6. QED
  BY <1>1, <1>2, <1>3, <1>4, <1>5 DEF Next

\* Mailboxes hold what their actors take, and never more than their capacity.
THEOREM TypeCorrect == Spec => []TypeOK
<1>1. Init => TypeOK
  BY TypeInit
<1>2. TypeOK /\ [Next]_vars => TypeOK'
  BY TypeNext
<1>3. QED
  BY <1>1, <1>2, PTL DEF Spec

-----------------------------------------------------------------------------
(* The trace.                                                              *)

\* Trace u tells what t tells, in the same order.
Keeps(t, u) ==
  /\ \A e \in Events : Tells(t, e) => Tells(u, e)
  /\ \A e, g \in Events : Precedes(t, e, g) => Precedes(u, e, g)

\* What is told stays told.
LEMMA Kept ==
  ASSUME NEW t, NEW u, Keeps(t, u)
  PROVE  /\ \A a \in Asks : /\ Due(t, a) => Due(u, a)
                            /\ Opened(t, a) => Opened(u, a)
                            /\ a \in Signs /\ SessionOpened(t, a) => SessionOpened(u, a)
                            /\ a \in Signs /\ Signed(t, a) => Signed(u, a)
                            /\ Complete(t, a) => Complete(u, a)
         /\ \A m \in Messages : MessageTold(t, m) => MessageTold(u, m)
         /\ \A j \in Jobs : At(j.at, j) /\ JobTold(t, j) => JobTold(u, j)
<1>1. ASSUME NEW a \in Asks
      PROVE  /\ Due(t, a) => Due(u, a)
             /\ Opened(t, a) => Opened(u, a)
             /\ SessionOpened(t, a) => SessionOpened(u, a)
             /\ Signed(t, a) => Signed(u, a)
             /\ Complete(t, a) => Complete(u, a)
             /\ Tells(t, Received(a)) => Tells(u, Received(a))
  <2>1. /\ {Received(a), Replied(a), SessionReceived(a), SessionReplied(a)} \subseteq Events
        /\ \A b \in Before[a] : Replied(b) \in Events
    BY Typed
  <2>2. QED
    BY <2>1 DEF Keeps, Due, Opened, SessionOpened, Signed, Complete
<1>2. \A m \in Messages : m.of \in Asks
  BY DEF Messages
<1>3. \A j \in Jobs : j.of \in Asks
  BY DEF Jobs
<1>4. QED
  BY <1>1, <1>2, <1>3 DEF MessageTold, JobTold

LEMMA KeepsItself == \A t : Keeps(t, t)
BY DEF Keeps

\* Of two events the trace tells one after the other it tells both.
LEMMA Told2 == \A t, e, g : Precedes(t, e, g) => Tells(t, e) /\ Tells(t, g)
BY DEF Precedes, Tells

\* The trace by position.
LEMMA TraceAt ==
  ASSUME TypeOK
  PROVE  /\ Len(events) \in Nat /\ DOMAIN events = 1..Len(events)
         /\ Len(mailbox["tracer"]) \in Nat
         /\ DOMAIN mailbox["tracer"] = 1..Len(mailbox["tracer"])
         /\ Trace(0) = events
<1>1. events \in Seq(Events) /\ mailbox["tracer"] \in Seq(Events \union Messages)
  BY DEF TypeOK, Actors
<1>2. /\ Len(events) \in Nat /\ DOMAIN events = 1..Len(events)
      /\ Len(mailbox["tracer"]) \in Nat
      /\ DOMAIN mailbox["tracer"] = 1..Len(mailbox["tracer"])
      /\ events = [i \in 1..Len(events) |-> events[i]]
  BY <1>1, LenProperties
<1>3. Trace(0) = [i \in 1..Len(events) |-> events[i]]
  BY <1>2 DEF Trace
<1>4. QED
  BY <1>2, <1>3

\* Nothing comes to the recorder or leaves it.
LEMMA TraceSame ==
  ASSUME mailbox'["tracer"] = mailbox["tracer"], events' = events
  PROVE  Told' = Told /\ \A n : Trace(n)' = Trace(n)
BY DEF Told, Trace

\* Something comes to the recorder: it is told last.
LEMMA TraceGrows ==
  ASSUME TypeOK, events' = events, NEW m \in Events \union Messages,
         mailbox'["tracer"] = Append(mailbox["tracer"], m)
  PROVE  /\ \A n \in 0..Len(mailbox["tracer"]) : Trace(n)' = Trace(n)
         /\ Keeps(Told, Told')
         /\ m \in Events =>
              Tells(Told', m) /\ \A e \in Events : Tells(Told, e) => Precedes(Told', e, m)
<1> DEFINE waiting == mailbox["tracer"]
<1> PICK size \in Nat, last \in Nat : size = Len(waiting) /\ last = Len(events) + size + 1
  BY TraceAt
<1>1. /\ Len(events) \in Nat /\ Len(waiting) \in Nat
      /\ Len(Append(waiting, m)) = Len(waiting) + 1
      /\ \A i \in 1..Len(waiting) : Append(waiting, m)[i] = waiting[i]
      /\ Append(waiting, m)[Len(waiting) + 1] = m
  <2>1. waiting \in Seq(Events \union Messages)
    BY DEF TypeOK, Actors
  <2>2. QED
    BY <2>1, TraceAt, AppendedAt
<1>2. ASSUME NEW n \in 0..size
      PROVE  Trace(n)' = Trace(n)
  <2>1. \A i \in 1..(Len(events) + n) : i > Len(events) => i - Len(events) \in 1..size
    BY <1>1
  <2>2. QED
    BY <1>1, <2>1 DEF Trace
<1>3. /\ Told' = Trace(size + 1)' /\ Told = Trace(size) /\ Trace(size)' = Trace(size)
      /\ DOMAIN Told = 1..(Len(events) + size) /\ DOMAIN Told' = 1..last
  <2>1. Told' = Trace(size + 1)' /\ Told = Trace(size)
    BY <1>1 DEF Told
  <2>2. QED
    BY <1>1, <1>2, <2>1 DEF Trace
<1>4. Told'[last] = m
  BY <1>1, <1>3 DEF Trace
<1>5. \A i \in DOMAIN Told : i \in DOMAIN Told' /\ i < last /\ Told'[i] = Told[i]
  <2>1. ASSUME NEW i \in DOMAIN Told
        PROVE  Told'[i] = Told[i]
    <3>1. Trace(size + 1)'[i] = Trace(size)'[i]
      BY <1>1, <1>3 DEF Trace
    <3>2. QED
      BY <1>3, <3>1
  <2>2. QED
    BY <1>1, <1>3, <2>1
<1>6. last \in DOMAIN Told'
  BY <1>1, <1>3
<1>7. Keeps(Told, Told')
  BY <1>5 DEF Keeps, Tells, Precedes
<1>8. Tells(Told', m) /\ \A e : Tells(Told, e) => Precedes(Told', e, m)
  BY <1>4, <1>5, <1>6 DEF Tells, Precedes
<1>9. QED
  BY <1>2, <1>7, <1>8

\* The recorder takes an event: it is told where it was.
LEMMA TraceRecords ==
  ASSUME TypeOK, mailbox["tracer"] # <<>>, Head(mailbox["tracer"]) \in Events,
         mailbox'["tracer"] = Tail(mailbox["tracer"]),
         events' = Append(events, Head(mailbox["tracer"]))
  PROVE  Told' = Told /\ \A n \in 0..(Len(mailbox["tracer"]) - 1) : Trace(n)' = Trace(n + 1)
<1> DEFINE waiting == mailbox["tracer"]
<1>1. /\ Len(waiting) \in Nat \ {0} /\ Len(Tail(waiting)) = Len(waiting) - 1
      /\ Head(waiting) = waiting[1]
      /\ \A i \in 1..(Len(waiting) - 1) : Tail(waiting)[i] = waiting[i + 1]
  <2>1. waiting \in Seq(Events \union Messages)
    BY DEF TypeOK, Actors
  <2>2. QED
    BY <2>1, TakenAt
<1>2. /\ Len(events) \in Nat /\ Len(events') = Len(events) + 1
      /\ \A i \in 1..Len(events) : events'[i] = events[i]
      /\ events'[Len(events) + 1] = waiting[1]
  BY <1>1, AppendedAt DEF TypeOK
<1>3. ASSUME NEW n \in 0..(Len(waiting) - 1)
      PROVE  Trace(n)' = Trace(n + 1)
  <2>1. /\ DOMAIN Trace(n)' = 1..(Len(events) + 1 + n)
        /\ DOMAIN Trace(n + 1) = 1..(Len(events) + (n + 1))
    BY <1>2 DEF Trace
  <2>2. ASSUME NEW i \in 1..(Len(events) + 1 + n)
        PROVE  Trace(n)'[i] = Trace(n + 1)[i]
    <3>1. CASE i <= Len(events)
      BY <1>2, <3>1 DEF Trace
    <3>2. CASE i = Len(events) + 1
      BY <1>2, <3>2 DEF Trace
    <3>3. CASE i > Len(events) + 1
      <4>1. Trace(n)'[i] = Tail(waiting)[i - (Len(events) + 1)]
        BY <1>2, <3>3 DEF Trace
      <4>2. i - (Len(events) + 1) \in 1..(Len(waiting) - 1)
        BY <1>1, <1>2, <3>3
      <4>3. Tail(waiting)[i - (Len(events) + 1)] = waiting[i - Len(events)]
        BY <1>1, <1>2, <4>2
      <4>4. Trace(n + 1)[i] = waiting[i - Len(events)]
        BY <1>2, <3>3 DEF Trace
      <4>5. QED
        BY <4>1, <4>3, <4>4
    <3>4. QED
      BY <1>2, <3>1, <3>2, <3>3
  <2>3. QED
    BY <1>2, <2>1, <2>2 DEF Trace
<1>4. Told' = Told
  <2> PICK size \in Nat : size = Len(waiting) - 1
    <3>1. Len(waiting) - 1 \in Nat
      BY <1>1
    <3>2. QED
      BY <3>1
  <2>1. Told' = Trace(size)' /\ Told = Trace(size + 1)
    BY <1>1 DEF Told
  <2>2. QED
    BY <1>1, <1>3, <2>1
<1>5. QED
  BY <1>3, <1>4

\* The recorder takes a report: the events keep their order.
LEMMA TraceReports ==
  ASSUME TypeOK, mailbox["tracer"] # <<>>, Head(mailbox["tracer"]) \notin Events,
         mailbox'["tracer"] = Tail(mailbox["tracer"]), events' = events
  PROVE  /\ Keeps(Told, Told')
         /\ \A n \in 0..(Len(mailbox["tracer"]) - 1) : Keeps(Trace(n + 1), Trace(n)')
<1> DEFINE waiting == mailbox["tracer"]
           gap == Len(events) + 1
<1>1. /\ Len(waiting) \in Nat \ {0} /\ Len(Tail(waiting)) = Len(waiting) - 1
      /\ Head(waiting) = waiting[1] /\ Len(events) \in Nat
      /\ \A i \in 1..(Len(waiting) - 1) : Tail(waiting)[i] = waiting[i + 1]
  <2>1. waiting \in Seq(Events \union Messages)
    BY DEF TypeOK, Actors
  <2>2. QED
    BY <2>1, TakenAt, TraceAt
<1>2. ASSUME NEW n \in 0..(Len(waiting) - 1)
      PROVE  Keeps(Trace(n + 1), Trace(n)')
  <2> DEFINE now(i) == IF i < gap THEN i ELSE i - 1
  <2>1. /\ DOMAIN Trace(n)' = 1..(Len(events) + n)
        /\ DOMAIN Trace(n + 1) = 1..(Len(events) + (n + 1))
    BY <1>1 DEF Trace
  <2>2. Trace(n + 1)[gap] \notin Events
    <3>1. Trace(n + 1)[gap] = waiting[1]
      BY <1>1 DEF Trace
    <3>2. QED
      BY <1>1, <3>1
  <2>3. ASSUME NEW i \in DOMAIN Trace(n + 1), i # gap
        PROVE  now(i) \in DOMAIN Trace(n)' /\ Trace(n)'[now(i)] = Trace(n + 1)[i]
    <3>1. CASE i < gap
      BY <1>1, <2>1, <3>1 DEF Trace
    <3>2. CASE i > gap
      <4>1. now(i) = i - 1 /\ i - 1 \in 1..(Len(events) + n) /\ i - 1 > Len(events)
        BY <1>1, <2>1, <3>2
      <4>2. Trace(n)'[i - 1] = Tail(waiting)[i - 1 - Len(events)]
        <5>1. i - 1 \in 1..(Len(events) + n) /\ ~(i - 1 <= Len(events))
          BY <1>1, <4>1
        <5>2. QED
          BY <5>1 DEF Trace
      <4>3. i - 1 - Len(events) \in 1..(Len(waiting) - 1)
        BY <1>1, <4>1
      <4>4. Tail(waiting)[i - 1 - Len(events)] = waiting[i - Len(events)]
        <5>1. (i - 1 - Len(events)) + 1 = i - Len(events)
          BY <1>1, <2>1
        <5>2. QED
          BY <1>1, <4>3, <5>1
      <4>5. Trace(n + 1)[i] = waiting[i - Len(events)]
        BY <1>1, <2>1, <3>2 DEF Trace
      <4>6. QED
        BY <2>1, <4>1, <4>2, <4>4, <4>5
    <3>3. QED
      BY <1>1, <2>1, <2>3, <3>1, <3>2
  <2>4. \A i, k \in DOMAIN Trace(n + 1) : i # gap /\ k # gap /\ i < k => now(i) < now(k)
    BY <1>1, <2>1
  <2> HIDE DEF now, gap
  <2>5. QED
    BY <2>2, <2>3, <2>4 DEF Keeps, Tells, Precedes
<1>3. Keeps(Told, Told')
  <2> PICK size \in Nat : size = Len(waiting) - 1
    <3>1. Len(waiting) - 1 \in Nat
      BY <1>1
    <3>2. QED
      BY <3>1
  <2>1. Told' = Trace(size)' /\ Told = Trace(size + 1)
    BY <1>1 DEF Told
  <2>2. QED
    BY <1>1, <1>2, <2>1
<1>4. QED
  BY <1>2, <1>3

-----------------------------------------------------------------------------
(* The invariant, part by part.                                            *)

LEMMA InvariantInit == Init => IInv
<1> SUFFICES ASSUME Init PROVE IInv
  OBVIOUS
<1>1. \A x \in Actors : mailbox[x] = <<>> /\ DOMAIN mailbox[x] = {}
  BY DEF Init
<1>2. /\ jobs = {} /\ "tracer" \in Actors
      /\ \A a \in Asks : signed[a] = "none" /\ answer[a] = "unsent"
  BY DEF Init, Actors
<1>3. Signs \subseteq Asks /\ Reports \subseteq Asks
  BY AsksAssumption DEF Reports
<1>4. QED
  BY <1>1, <1>2, <1>3, TypeInit DEF IInv, QueuedTold, HandledTold, AnsweredTold, Once, ReportsTell

\* The messages that wait after a step waited before it, or are in order.
LEMMA QueuedNext ==
  ASSUME QueuedTold, Keeps(Told, Told'),
         ASSUME NEW x \in Actors, NEW i \in DOMAIN mailbox'[x], mailbox'[x][i] \in Messages
         PROVE  \/ \E k \in DOMAIN mailbox[x] : mailbox[x][k] = mailbox'[x][i]
                \/ At(x, mailbox'[x][i]) /\ MessageTold(Told', mailbox'[x][i])
  PROVE  QueuedTold'
<1>1. ASSUME NEW x \in Actors, NEW i \in DOMAIN mailbox'[x], mailbox'[x][i] \in Messages
      PROVE  At(x, mailbox'[x][i]) /\ MessageTold(Told', mailbox'[x][i])
  <2>1. CASE \E k \in DOMAIN mailbox[x] : mailbox[x][k] = mailbox'[x][i]
    <3>1. At(x, mailbox'[x][i]) /\ MessageTold(Told, mailbox'[x][i])
      BY <1>1, <2>1 DEF QueuedTold
    <3>2. QED
      BY <1>1, <3>1, Kept
  <2>2. QED
    BY <1>1, <2>1
<1>2. QED
  BY <1>1 DEF QueuedTold

\* So with the jobs.
LEMMA HandledNext ==
  ASSUME TypeOK, HandledTold, Keeps(Told, Told'),
         \A j \in jobs' : j \in jobs \/ (j.at # "tracer" /\ At(j.at, j) /\ JobTold(Told', j))
  PROVE  HandledTold'
<1>1. \A j \in jobs : j.at # "tracer" /\ At(j.at, j) /\ JobTold(Told', j)
  BY Kept DEF HandledTold, TypeOK
<1>2. QED
  BY <1>1 DEF HandledTold

\* And with the answers.
LEMMA AnsweredNext ==
  ASSUME AnsweredTold, Keeps(Told, Told'),
         \A a \in Signs : signed'[a] = "ok" => signed[a] = "ok" \/ Signed(Told', a),
         \A a \in Asks \ Reports : answer'[a] = "ok" => answer[a] = "ok" \/ Complete(Told', a)
  PROVE  AnsweredTold'
<1>1. Signs \subseteq Asks
  BY AsksAssumption
<1>2. QED
  BY <1>1, Kept DEF AnsweredTold

\* What a report tells, it tells ever after.
LEMMA ToldAllKept ==
  ASSUME NEW r \in Asks, NEW t, NEW u, Keeps(t, u), ToldAll(t, r),
         \A a \in Asks \ Reports : Ended(a) => answer'[a] = answer[a]
  PROVE  \A a \in Before[r] \ Reports :
           Ended(a)' /\ (answer'[a] = "ok" => Complete(u, a))
<1>1. Before[r] \subseteq Asks
  BY Typed
<1>2. QED
  BY <1>1, Kept DEF ToldAll, Ended

\* And with the reports.
LEMMA ReportsNext ==
  ASSUME ReportsTell,
         \A a \in Asks \ Reports : Ended(a) => answer'[a] = answer[a],
         \A r \in Reports : answer'[r] = "ok" =>
           \/ answer[r] = "ok" /\ report'[r] = report[r]
           \/ \A a \in Before[r] \ Reports :
                Ended(a)' /\ (answer'[a] = "ok" => Complete(report'[r], a)),
         ASSUME NEW r \in Reports, NEW i \in DOMAIN mailbox'["tracer"], Waits("tracer", i, r)'
         PROVE  \/ \E k \in DOMAIN mailbox["tracer"] :
                     Waits("tracer", k, r) /\ Keeps(Trace(k - 1), Trace(i - 1)')
                \/ \A a \in Before[r] \ Reports :
                     Ended(a)' /\ (answer'[a] = "ok" => Complete(Trace(i - 1)', a))
  PROVE  ReportsTell'
<1>1. Reports \subseteq Asks
  BY DEF Reports
<1>2. ASSUME NEW r \in Reports, answer'[r] = "ok"
      PROVE  ToldAll(report[r], r)'
  <2>1. CASE answer[r] = "ok" /\ report'[r] = report[r]
    <3>1. ToldAll(report[r], r)
      BY <2>1 DEF ReportsTell
    <3>2. QED
      BY <1>1, <2>1, <3>1, ToldAllKept, KeepsItself DEF ToldAll
  <2>2. QED
    BY <1>2, <2>1 DEF ToldAll
<1>3. ASSUME NEW r \in Reports, NEW i \in DOMAIN mailbox'["tracer"], Waits("tracer", i, r)'
      PROVE  ToldAll(Trace(i - 1), r)'
  <2>1. ASSUME NEW k \in DOMAIN mailbox["tracer"],
               Waits("tracer", k, r), Keeps(Trace(k - 1), Trace(i - 1)')
        PROVE  ToldAll(Trace(i - 1), r)'
    <3>1. ToldAll(Trace(k - 1), r)
      BY <2>1 DEF ReportsTell
    <3>2. QED
      BY <1>1, <2>1, <3>1, ToldAllKept DEF ToldAll
  <2>2. QED
    BY <1>3, <2>1 DEF ToldAll
<1>4. QED
  BY <1>2, <1>3 DEF ReportsTell

-----------------------------------------------------------------------------
(* The steps.                                                              *)

\* A handler asks: its message is the only one, and what it awaited is told.
LEMMA AskNext ==
  ASSUME IInv, TypeOK', NEW a \in Asks, Ask(a)
  PROVE  IInv'
<1> DEFINE m == [of |-> a, signature |-> FALSE]
           x == To[a]
<1>1. /\ answer[a] = "unsent" /\ answer' = [answer EXCEPT ![a] = "sent"]
      /\ UNCHANGED <<jobs, signed, events, report>> /\ Deliver(x, m)
      /\ \A b \in Before[a] : answer[b] = "ok" \/ (a \in Reports /\ Ended(b))
      /\ TypeOK /\ QueuedTold /\ HandledTold /\ AnsweredTold /\ ReportsTell
      /\ \A b \in Asks : Once(b)
  BY DEF Ask, IInv
<1>2. x \in Actors /\ m \in Messages /\ "tracer" \in Actors
  BY Typed DEF Actors
<1>3. /\ mailbox[x] \in Seq(Events \union Messages)
      /\ mailbox'[x] = Append(mailbox[x], m)
      /\ \A y \in Actors \ {x} : mailbox'[y] = mailbox[y]
  BY <1>1, <1>2, DeliverTyped DEF TypeOK
<1>4. PICK last \in Nat :
        /\ last = Len(mailbox[x]) + 1 /\ DOMAIN mailbox[x] = 1..(last - 1)
        /\ DOMAIN mailbox'[x] = 1..last /\ mailbox'[x][last] = m
        /\ \A i \in 1..(last - 1) : mailbox'[x][i] = mailbox[x][i]
  BY <1>2, <1>3, AppendedAt
<1>5. \A y \in Actors : \A i \in DOMAIN mailbox'[y] :
        \/ i \in DOMAIN mailbox[y] /\ mailbox'[y][i] = mailbox[y][i]
        \/ y = x /\ i = last /\ mailbox'[y][i] = m
  BY <1>3, <1>4
<1>6. /\ \A n \in 0..Len(mailbox["tracer"]) : Trace(n)' = Trace(n)
      /\ Keeps(Told, Told')
  <2>1. CASE x = "tracer"
    BY <1>1, <1>2, <1>3, <2>1, TraceGrows
  <2>2. CASE x # "tracer"
    <3>1. mailbox'["tracer"] = mailbox["tracer"]
      BY <1>2, <1>3, <2>2
    <3>2. QED
      BY <1>1, <3>1, TraceSame, KeepsItself
  <2>3. QED
    BY <2>1, <2>2
<1>7. \A b \in Asks : Ended(b) => answer'[b] = answer[b]
  BY <1>1 DEF Ended, TypeOK
<1>8. \A b \in Before[a] \ Reports : answer[b] = "ok" => Complete(Told, b) /\ Complete(Told', b)
  <2>1. Before[a] \subseteq Asks
    BY Typed
  <2>2. QED
    BY <1>1, <1>6, <2>1, Kept DEF AnsweredTold
<1>9. At(x, m) /\ MessageTold(Told', m)
  <2>1. a \notin Reports => Due(Told', a)
    BY <1>1, <1>8, Told2 DEF Due, Complete
  <2>2. QED
    BY <2>1 DEF At, MessageTold
<1>10. QueuedTold'
  <2>1. ASSUME NEW y \in Actors, NEW i \in DOMAIN mailbox'[y], mailbox'[y][i] \in Messages
        PROVE  \/ \E k \in DOMAIN mailbox[y] : mailbox[y][k] = mailbox'[y][i]
               \/ At(y, mailbox'[y][i]) /\ MessageTold(Told', mailbox'[y][i])
    BY <1>5, <1>9
  <2>2. QED
    BY <1>1, <1>6, <2>1, QueuedNext
<1>11. HandledTold'
  BY <1>1, <1>6, HandledNext
<1>12. AnsweredTold'
  <2>1. \A b \in Asks : answer'[b] = "ok" => answer[b] = "ok"
    BY <1>1 DEF TypeOK
  <2>2. QED
    BY <1>1, <1>6, <2>1, AnsweredNext
<1>13. ASSUME NEW b \in Asks
       PROVE  Once(b)'
  <2>1. /\ \A y \in Actors : \A i \in DOMAIN mailbox[y] : ~Waits(y, i, a)
        /\ \A j \in jobs : ~Works(j, a)
    BY <1>1 DEF Once
  <2>2. CASE b = a
    <3>1. answer'[a] = "sent"
      BY <1>1 DEF TypeOK
    <3>2. ASSUME NEW y \in Actors, NEW i \in DOMAIN mailbox'[y], Waits(y, i, a)'
          PROVE  y = x /\ i = last
      BY <1>5, <2>1, <3>2 DEF Waits
    <3>3. \A y \in Actors : \A i, k \in DOMAIN mailbox'[y] :
            Waits(y, i, a)' /\ Waits(y, k, a)' => k = i
      BY <3>2
    <3>4. QED
      BY <1>1, <2>1, <2>2, <3>1, <3>3 DEF Once, Works
  <2>3. CASE b # a
    <3>1. ASSUME NEW y \in Actors, NEW i \in DOMAIN mailbox'[y], Waits(y, i, b)'
          PROVE  i \in DOMAIN mailbox[y] /\ Waits(y, i, b)
      BY <1>5, <2>3, <3>1 DEF Waits
    <3>2. answer'[b] = answer[b] /\ jobs' = jobs /\ Once(b)
      BY <1>1, <2>3 DEF TypeOK
    <3>3. \A y \in Actors : \A i, k \in DOMAIN mailbox'[y] :
            Waits(y, i, b)' /\ Waits(y, k, b)' => k = i
      BY <3>1, <3>2 DEF Once
    <3>4. \A y \in Actors : \A i \in DOMAIN mailbox'[y] : Waits(y, i, b)' =>
            answer'[b] = "sent" /\ \A j \in jobs' : ~Works(j, b)
      BY <3>1, <3>2 DEF Once
    <3>5. QED
      BY <3>2, <3>3, <3>4 DEF Once
  <2>4. QED
    BY <2>2, <2>3
<1>14. ReportsTell'
  <2>1. \A r \in Reports : answer'[r] = "ok" => answer[r] = "ok" /\ report'[r] = report[r]
    BY <1>1 DEF TypeOK, Reports
  <2>2. ASSUME NEW r \in Reports, NEW i \in DOMAIN mailbox'["tracer"], Waits("tracer", i, r)'
        PROVE  \/ \E k \in DOMAIN mailbox["tracer"] :
                    Waits("tracer", k, r) /\ Keeps(Trace(k - 1), Trace(i - 1)')
               \/ \A b \in Before[r] \ Reports :
                    Ended(b)' /\ (answer'[b] = "ok" => Complete(Trace(i - 1)', b))
    <3>1. CASE i \in DOMAIN mailbox["tracer"] /\ mailbox'["tracer"][i] = mailbox["tracer"][i]
      <4>1. i - 1 \in 0..Len(mailbox["tracer"])
        BY <1>1, <3>1, TraceAt
      <4>2. Trace(i - 1)' = Trace(i - 1) /\ Waits("tracer", i, r)
        BY <1>6, <2>2, <3>1, <4>1 DEF Waits
      <4>3. QED
        BY <3>1, <4>2, KeepsItself
    <3>2. CASE x = "tracer" /\ i = last /\ mailbox'["tracer"][i] = m
      <4>1. r = a
        BY <2>2, <3>2 DEF Waits
      <4>2. i - 1 = Len(mailbox["tracer"]) /\ i - 1 \in 0..Len(mailbox["tracer"])
        BY <1>1, <1>4, <3>2, TraceAt
      <4>3. Trace(i - 1)' = Told
        BY <1>6, <4>2 DEF Told
      <4>4. \A b \in Before[a] \ Reports : Ended(b) /\ (answer[b] = "ok" => Complete(Told, b))
        BY <1>1, <1>8 DEF Ended
      <4>5. \A b \in Before[a] : answer'[b] = answer[b] /\ (Ended(b) => Ended(b)')
        <5>1. Before[a] \subseteq Asks /\ \A b \in Before[a] : Ended(b)
          BY <1>1, Typed DEF Ended
        <5>2. QED
          BY <1>7, <5>1 DEF Ended
      <4>6. QED
        BY <4>1, <4>3, <4>4, <4>5
    <3>3. QED
      BY <1>2, <1>5, <3>1, <3>2
  <2>3. QED
    BY <1>1, <1>7, <2>1, <2>2, ReportsNext
<1>15. QED
  BY <1>10, <1>11, <1>12, <1>13, <1>14 DEF IInv

\* An actor takes a message: what was said of the message holds for its job.
LEMMA TakeNext ==
  ASSUME IInv, TypeOK', NEW x \in Actors, Take(x)
  PROVE  IInv'
<1> DEFINE m == Head(mailbox[x])
           job == [at |-> x, of |-> m.of, signature |-> m.signature,
                   step |-> "received", ok |-> TRUE]
<1>1. /\ x # "tracer" /\ mailbox[x] # <<>> /\ jobs' = jobs \union {job}
      /\ mailbox' = [mailbox EXCEPT ![x] = Tail(@)]
      /\ UNCHANGED <<signed, answer, events, report>>
      /\ TypeOK /\ QueuedTold /\ HandledTold /\ AnsweredTold /\ ReportsTell
      /\ \A b \in Asks : Once(b)
  BY DEF Take, IInv
<1>2. /\ mailbox'[x] = Tail(mailbox[x]) /\ m \in Messages
      /\ \A y \in Actors \ {x} : mailbox'[y] = mailbox[y]
      /\ "tracer" \in Actors
  BY <1>1, TakeTyped DEF Actors
<1>3. PICK size \in Nat :
        /\ DOMAIN mailbox[x] = 1..size /\ size > 0 /\ m = mailbox[x][1]
        /\ DOMAIN mailbox'[x] = 1..(size - 1)
        /\ \A i \in 1..(size - 1) : mailbox'[x][i] = mailbox[x][i + 1]
  <2>1. mailbox[x] \in Seq(Events \union Messages)
    BY <1>1 DEF TypeOK
  <2>2. mailbox[x] # <<>> /\ mailbox'[x] = Tail(mailbox[x])
    BY <1>1, <1>2
  <2>3. QED
    BY <2>1, <2>2, Left
<1> HIDE DEF m
<1>4. 1 \in DOMAIN mailbox[x] /\ \A i \in DOMAIN mailbox'[x] : i + 1 \in DOMAIN mailbox[x] /\ i + 1 # 1
  BY <1>3
<1>5. Told' = Told /\ \A n : Trace(n)' = Trace(n)
  BY <1>1, <1>2, TraceSame
<1>6. Keeps(Told, Told')
  BY <1>5, KeepsItself
<1>7. QueuedTold'
  <2>1. ASSUME NEW y \in Actors, NEW i \in DOMAIN mailbox'[y]
        PROVE  \E k \in DOMAIN mailbox[y] : mailbox[y][k] = mailbox'[y][i]
    BY <1>2, <1>3, <1>4
  <2>2. QED
    BY <1>1, <1>6, <2>1, QueuedNext
<1>8. HandledTold'
  <2>1. At(x, m) /\ MessageTold(Told', m)
    BY <1>1, <1>2, <1>3, <1>4, <1>5 DEF QueuedTold
  <2>2. ~m.signature => m.of \notin Reports
    BY <1>1, <2>1 DEF At, Reports
  <2>3. At(x, job) /\ JobTold(Told', job) /\ job.at = x
    BY <2>1, <2>2 DEF At, MessageTold, JobTold
  <2> HIDE DEF job
  <2>4. QED
    BY <1>1, <1>6, <2>3, HandledNext
<1>9. AnsweredTold'
  BY <1>1, <1>6, AnsweredNext
<1>10. ASSUME NEW b \in Asks
       PROVE  Once(b)'
  <2>1. Once(b) /\ answer' = answer
    BY <1>1
  <2>2. ASSUME Works(job, b)
        PROVE  Waits(x, 1, b) /\ b = m.of /\ ~m.signature
    <3>1. b = m.of /\ ~m.signature
      BY <2>2 DEF Works
    <3>2. m = [of |-> b, signature |-> FALSE]
      BY <1>2, <3>1 DEF Messages
    <3>3. QED
      BY <1>3, <3>1, <3>2 DEF Waits
  <2> HIDE DEF job
  <2>3. ASSUME NEW y \in Actors, NEW i \in DOMAIN mailbox'[y], Waits(y, i, b)'
        PROVE  /\ ~Works(job, b)
               /\ IF y = x THEN i + 1 \in DOMAIN mailbox[x] /\ Waits(x, i + 1, b)
                  ELSE i \in DOMAIN mailbox[y] /\ Waits(y, i, b)
    <3>1. IF y = x THEN i + 1 \in DOMAIN mailbox[x] /\ Waits(x, i + 1, b)
          ELSE i \in DOMAIN mailbox[y] /\ Waits(y, i, b)
      BY <1>2, <1>3, <1>4, <2>3 DEF Waits
    <3>2. ASSUME Works(job, b)
          PROVE  FALSE
      <4>1. Waits(x, 1, b) /\ x = To[b]
        <5>1. Waits(x, 1, b) /\ b = m.of /\ ~m.signature /\ At(x, m)
          BY <1>1, <1>2, <1>3, <1>4, <2>2, <3>2 DEF QueuedTold
        <5>2. QED
          BY <5>1 DEF At
      <4>2. CASE y = x
        BY <1>3, <1>4, <2>1, <2>3, <3>1, <4>1, <4>2 DEF Once
      <4>3. CASE y # x
        <5>1. mailbox[y][i] = [of |-> b, signature |-> FALSE] /\ i \in DOMAIN mailbox[y]
          BY <3>1, <4>3 DEF Waits
        <5>2. [of |-> b, signature |-> FALSE] \in Messages
          BY Typed
        <5>3. At(y, [of |-> b, signature |-> FALSE])
          BY <1>1, <5>1, <5>2 DEF QueuedTold
        <5>4. QED
          BY <4>1, <4>3, <5>3 DEF At
      <4>4. QED
        BY <4>2, <4>3
    <3>3. QED
      BY <3>1, <3>2
  <2>4. \A y \in Actors : \A i \in DOMAIN mailbox'[y] : Waits(y, i, b)' =>
          /\ answer'[b] = "sent"
          /\ \A j \in jobs' : ~Works(j, b)
    BY <1>1, <2>1, <2>3 DEF Once
  <2>5. \A y \in Actors : \A i, k \in DOMAIN mailbox'[y] :
          Waits(y, i, b)' /\ Waits(y, k, b)' => k = i
    <3>1. ASSUME NEW y \in Actors, NEW i \in DOMAIN mailbox'[y], NEW k \in DOMAIN mailbox'[y],
                 Waits(y, i, b)', Waits(y, k, b)'
          PROVE  k = i
      <4>1. CASE y = x
        <5>1. i + 1 = k + 1
          BY <2>1, <2>3, <3>1, <4>1 DEF Once
        <5>2. QED
          BY <1>3, <4>1, <5>1
      <4>2. CASE y # x
        BY <2>1, <2>3, <3>1, <4>2 DEF Once
      <4>3. QED
        BY <4>1, <4>2
    <3>2. QED
      BY <3>1
  <2>6. ASSUME Works(job, b)
        PROVE  answer'[b] = "sent" /\ \A j \in jobs : ~Works(j, b)
    BY <1>4, <2>1, <2>2, <2>6 DEF Once
  <2>7. \A j \in jobs' : Works(j, b) =>
          answer'[b] = "sent" /\ \A k \in jobs' : Works(k, b) => k = j
    BY <1>1, <2>1, <2>6 DEF Once
  <2>8. QED
    BY <2>4, <2>5, <2>7 DEF Once
<1>11. ReportsTell'
  <2>1. ASSUME NEW r \in Reports, NEW i \in DOMAIN mailbox'["tracer"], Waits("tracer", i, r)'
        PROVE  \E k \in DOMAIN mailbox["tracer"] :
                 Waits("tracer", k, r) /\ Keeps(Trace(k - 1), Trace(i - 1)')
    BY <1>1, <1>2, <1>5, <2>1, KeepsItself DEF Waits
  <2>2. QED
    BY <1>1, <2>1, ReportsNext
<1>12. QED
  BY <1>7, <1>8, <1>9, <1>10, <1>11 DEF IInv

\* The recorder takes an event, or answers a report with all that came before.
LEMMA RecordNext ==
  ASSUME IInv, TypeOK', Record
  PROVE  IInv'
<1> DEFINE m == Head(mailbox["tracer"])
<1>1. /\ mailbox["tracer"] # <<>> /\ mailbox' = [mailbox EXCEPT !["tracer"] = Tail(@)]
      /\ UNCHANGED <<jobs, signed>> /\ "tracer" \in Actors
      /\ TypeOK /\ QueuedTold /\ HandledTold /\ AnsweredTold /\ ReportsTell
      /\ \A b \in Asks : Once(b)
  BY DEF Record, IInv, Actors
<1>2. /\ mailbox'["tracer"] = Tail(mailbox["tracer"]) /\ m \in Events \union Messages
      /\ \A y \in Actors \ {"tracer"} : mailbox'[y] = mailbox[y]
  BY <1>1, TakeTyped
<1>3. PICK size \in Nat :
        /\ size = Len(mailbox["tracer"])
        /\ DOMAIN mailbox["tracer"] = 1..size /\ size > 0 /\ m = mailbox["tracer"][1]
        /\ DOMAIN mailbox'["tracer"] = 1..(size - 1)
        /\ \A i \in 1..(size - 1) : mailbox'["tracer"][i] = mailbox["tracer"][i + 1]
  <2>1. mailbox["tracer"] \in Seq(Events \union Messages)
    BY <1>1 DEF TypeOK
  <2>2. mailbox["tracer"] # <<>> /\ mailbox'["tracer"] = Tail(mailbox["tracer"])
    BY <1>1, <1>2
  <2>3. QED
    BY <2>1, <2>2, Left
<1>4. /\ 1 \in DOMAIN mailbox["tracer"]
      /\ \A i \in DOMAIN mailbox'["tracer"] : i + 1 \in DOMAIN mailbox["tracer"] /\ i + 1 # 1
      /\ \A i \in DOMAIN mailbox'["tracer"] : i - 1 \in 0..(size - 1) /\ (i - 1) + 1 = (i + 1) - 1
  BY <1>3
<1>5. \/ /\ m \in Events /\ events' = Append(events, m) /\ UNCHANGED <<answer, report>>
      \/ /\ m \in Messages /\ m \notin Events /\ events' = events
         /\ report' = [report EXCEPT ![m.of] = events]
         /\ answer' = [answer EXCEPT ![m.of] = "ok"]
  BY <1>2 DEF Record
<1>6. Keeps(Told, Told') /\ \A n \in 0..(size - 1) : Keeps(Trace(n + 1), Trace(n)')
  <2>1. CASE m \in Events
    BY <1>1, <1>2, <1>3, <1>5, <2>1, TraceRecords, KeepsItself
  <2>2. CASE m \notin Events
    BY <1>1, <1>2, <1>3, <1>5, <2>2, TraceReports
  <2>3. QED
    BY <2>1, <2>2
<1> HIDE DEF m
<1>7. m \in Messages => At("tracer", m)
  BY <1>1, <1>3, <1>4 DEF QueuedTold
<1>8. m \notin Events => /\ m.of \in Reports /\ Waits("tracer", 1, m.of)
                         /\ m = [of |-> m.of, signature |-> FALSE]
  <2>1. ASSUME m \notin Events
        PROVE  ~m.signature /\ m.of \in Reports
    BY <1>5, <1>7, <2>1, Typed DEF At, Messages, Reports
  <2>2. m \notin Events => m = [of |-> m.of, signature |-> FALSE]
    BY <1>5, <2>1 DEF Messages
  <2>3. QED
    BY <1>3, <2>1, <2>2 DEF Waits
<1>9. ASSUME NEW y \in Actors, NEW i \in DOMAIN mailbox'[y]
      PROVE  IF y = "tracer" THEN i + 1 \in DOMAIN mailbox[y] /\ mailbox'[y][i] = mailbox[y][i + 1]
             ELSE i \in DOMAIN mailbox[y] /\ mailbox'[y][i] = mailbox[y][i]
  BY <1>2, <1>3, <1>4
<1>10. QueuedTold'
  <2>1. ASSUME NEW y \in Actors, NEW i \in DOMAIN mailbox'[y]
        PROVE  \E k \in DOMAIN mailbox[y] : mailbox[y][k] = mailbox'[y][i]
    BY <1>9
  <2>2. QED
    BY <1>1, <1>6, <2>1, QueuedNext
<1>11. HandledTold'
  BY <1>1, <1>6, HandledNext
<1>12. \A b \in Asks \ Reports : answer'[b] = answer[b]
  BY <1>1, <1>5, <1>8 DEF TypeOK
<1>13. AnsweredTold'
  BY <1>1, <1>6, <1>12, AnsweredNext
<1>14. ASSUME NEW b \in Asks
       PROVE  Once(b)'
  <2>1. Once(b) /\ jobs' = jobs
    BY <1>1
  <2>2. ASSUME NEW y \in Actors, NEW i \in DOMAIN mailbox'[y], Waits(y, i, b)'
        PROVE  IF y = "tracer" THEN i + 1 \in DOMAIN mailbox[y] /\ Waits(y, i + 1, b)
               ELSE i \in DOMAIN mailbox[y] /\ Waits(y, i, b)
    BY <1>9, <2>2 DEF Waits
  <2>3. \A y \in Actors : \A i, k \in DOMAIN mailbox'[y] :
          Waits(y, i, b)' /\ Waits(y, k, b)' => k = i
    <3>1. ASSUME NEW y \in Actors, NEW i \in DOMAIN mailbox'[y], NEW k \in DOMAIN mailbox'[y],
                 Waits(y, i, b)', Waits(y, k, b)'
          PROVE  k = i
      <4>1. CASE y = "tracer"
        <5>1. i + 1 = k + 1
          BY <2>1, <2>2, <3>1, <4>1 DEF Once
        <5>2. QED
          BY <1>3, <4>1, <5>1
      <4>2. CASE y # "tracer"
        BY <2>1, <2>2, <3>1, <4>2 DEF Once
      <4>3. QED
        BY <4>1, <4>2
    <3>2. QED
      BY <3>1
  <2>4. \A y \in Actors : \A i \in DOMAIN mailbox'[y] : Waits(y, i, b)' =>
          answer[b] = "sent" /\ \A j \in jobs' : ~Works(j, b)
    BY <2>1, <2>2 DEF Once
  <2>5. \A j \in jobs' : Works(j, b) =>
          answer[b] = "sent" /\ \A k \in jobs' : Works(k, b) => k = j
    BY <2>1 DEF Once
  <2>6. CASE answer'[b] = answer[b]
    BY <2>3, <2>4, <2>5, <2>6 DEF Once
  <2>7. CASE m \notin Events /\ b = m.of
    <3>1. Waits("tracer", 1, b) /\ 1 \in DOMAIN mailbox["tracer"]
      BY <1>4, <1>8, <2>7
    <3>2. \A j \in jobs' : ~Works(j, b)
      BY <1>1, <2>1, <3>1 DEF Once
    <3>3. ASSUME NEW y \in Actors, NEW i \in DOMAIN mailbox'[y], Waits(y, i, b)'
          PROVE  FALSE
      <4>1. CASE y = "tracer"
        BY <1>4, <2>1, <2>2, <3>1, <3>3, <4>1 DEF Once
      <4>2. CASE y # "tracer"
        <5>1. mailbox[y][i] = m /\ i \in DOMAIN mailbox[y]
          BY <1>8, <2>2, <2>7, <3>3, <4>2 DEF Waits
        <5>2. At(y, m) /\ At("tracer", m)
          BY <1>1, <1>5, <1>7, <2>7, <5>1 DEF QueuedTold
        <5>3. ~m.signature
          BY <1>8, <2>7
        <5>4. QED
          BY <4>2, <5>2, <5>3 DEF At
      <4>3. QED
        BY <4>1, <4>2
    <3>4. QED
      BY <3>2, <3>3 DEF Once
  <2>8. QED
    BY <1>1, <1>5, <2>6, <2>7 DEF TypeOK
<1>15. ReportsTell'
  <2>1. ASSUME NEW r \in Reports, answer'[r] = "ok"
        PROVE  \/ answer[r] = "ok" /\ report'[r] = report[r]
               \/ \A a \in Before[r] \ Reports :
                    Ended(a)' /\ (answer'[a] = "ok" => Complete(report'[r], a))
    <3>1. CASE m \in Events \/ r # m.of
      BY <1>1, <1>5, <2>1, <3>1 DEF TypeOK, Reports
    <3>2. CASE m \notin Events /\ r = m.of
      <4>1. ToldAll(Trace(1 - 1), r)
        BY <1>1, <1>4, <1>8, <3>2 DEF ReportsTell
      <4>2. Trace(1 - 1) = events /\ report'[r] = events
        <5>1. 1 - 1 = 0
          OBVIOUS
        <5>2. report'[r] = events
          BY <1>1, <1>5, <3>2 DEF TypeOK, Reports
        <5>3. QED
          BY <1>1, <5>1, <5>2, TraceAt
      <4>3. Before[r] \subseteq Asks
        BY Typed DEF Reports
      <4>4. QED
        BY <1>12, <4>1, <4>2, <4>3 DEF ToldAll, Ended
    <3>3. QED
      BY <3>1, <3>2
  <2>2. ASSUME NEW r \in Reports, NEW i \in DOMAIN mailbox'["tracer"], Waits("tracer", i, r)'
        PROVE  \E k \in DOMAIN mailbox["tracer"] :
                 Waits("tracer", k, r) /\ Keeps(Trace(k - 1), Trace(i - 1)')
    <3>1. i + 1 \in DOMAIN mailbox["tracer"] /\ Waits("tracer", i + 1, r)
      BY <1>1, <1>9, <2>2 DEF Waits
    <3>2. Keeps(Trace((i + 1) - 1), Trace(i - 1)')
      <4>1. i - 1 \in 0..(size - 1) /\ (i - 1) + 1 = (i + 1) - 1
        BY <1>4
      <4>2. Keeps(Trace((i - 1) + 1), Trace(i - 1)')
        BY <1>6, <4>1
      <4>3. QED
        BY <4>1, <4>2
    <3>3. QED
      BY <3>1, <3>2
  <2>3. QED
    BY <1>1, <1>12, <2>1, <2>2, ReportsNext
<1>16. QED
  BY <1>10, <1>11, <1>13, <1>14, <1>15 DEF IInv

\* The messages after a step that sends no ask: the old ones in their places,
\* and perhaps the question for a signature.
SameQueue == \A x \in Actors : \A i \in DOMAIN mailbox'[x] : mailbox'[x][i] \in Messages =>
  \/ /\ i \in DOMAIN mailbox[x] /\ mailbox'[x][i] = mailbox[x][i]
     /\ x = "tracer" => Trace(i - 1)' = Trace(i - 1)
  \/ /\ x = "session" /\ mailbox'[x][i].signature
     /\ At(x, mailbox'[x][i]) /\ MessageTold(Told', mailbox'[x][i])

\* The parts that look at the messages only.
LEMMA SameQueueNext ==
  ASSUME IInv, SameQueue, Keeps(Told, Told'),
         \A a \in Asks \ Reports : Ended(a) => answer'[a] = answer[a],
         \A r \in Reports : answer'[r] = answer[r], report' = report
  PROVE  /\ QueuedTold' /\ ReportsTell'
         /\ \A a \in Asks, y \in Actors : \A i \in DOMAIN mailbox'[y] :
              Waits(y, i, a)' => i \in DOMAIN mailbox[y] /\ Waits(y, i, a)
<1>1. QueuedTold /\ ReportsTell /\ "tracer" \in Actors
  BY DEF IInv, Actors
<1>2. QueuedTold'
  <2>1. ASSUME NEW y \in Actors, NEW i \in DOMAIN mailbox'[y], mailbox'[y][i] \in Messages
        PROVE  \/ \E k \in DOMAIN mailbox[y] : mailbox[y][k] = mailbox'[y][i]
               \/ At(y, mailbox'[y][i]) /\ MessageTold(Told', mailbox'[y][i])
    BY <2>1 DEF SameQueue
  <2>2. QED
    BY <1>1, <2>1, QueuedNext
<1>3. ASSUME NEW a \in Asks, NEW y \in Actors, NEW i \in DOMAIN mailbox'[y], Waits(y, i, a)'
      PROVE  /\ i \in DOMAIN mailbox[y] /\ Waits(y, i, a)
             /\ y = "tracer" => Trace(i - 1)' = Trace(i - 1)
  <2>1. mailbox'[y][i] = [of |-> a, signature |-> FALSE] /\ mailbox'[y][i] \in Messages
    BY <1>3, Typed DEF Waits
  <2>2. ~mailbox'[y][i].signature
    BY <2>1
  <2>3. QED
    BY <2>1, <2>2 DEF SameQueue, Waits
<1>4. ReportsTell'
  <2>1. ASSUME NEW r \in Reports, NEW i \in DOMAIN mailbox'["tracer"], Waits("tracer", i, r)'
        PROVE  \E k \in DOMAIN mailbox["tracer"] :
                 Waits("tracer", k, r) /\ Keeps(Trace(k - 1), Trace(i - 1)')
    BY <1>1, <1>3, <2>1, KeepsItself DEF Reports
  <2>2. QED
    BY <1>1, <2>1, ReportsNext
<1>5. QED
  BY <1>2, <1>3, <1>4

\* A job goes on, and the trace tells what it should of its next step.
LEMMA MovedNext ==
  ASSUME IInv, TypeOK', SameQueue, Keeps(Told, Told'), NEW j \in jobs, NEW k,
         k.at = j.at, k.of = j.of, k.signature = j.signature, JobTold(Told', k),
         jobs' = (jobs \ {j}) \union {k}, UNCHANGED <<signed, answer, events, report>>
  PROVE  IInv'
<1>1. /\ TypeOK /\ HandledTold /\ AnsweredTold /\ \A a \in Asks : Once(a)
  BY DEF IInv
<1>2. /\ QueuedTold' /\ ReportsTell'
      /\ \A a \in Asks, y \in Actors : \A i \in DOMAIN mailbox'[y] :
           Waits(y, i, a)' => i \in DOMAIN mailbox[y] /\ Waits(y, i, a)
  BY SameQueueNext
<1>3. HandledTold'
  <2>1. k.at # "tracer" /\ At(k.at, k)
    BY <1>1 DEF HandledTold, At
  <2>2. QED
    BY <1>1, <2>1, HandledNext
<1>4. AnsweredTold'
  BY <1>1, AnsweredNext
<1>5. ASSUME NEW a \in Asks
      PROVE  Once(a)'
  <2>1. Once(a) /\ (Works(k, a) <=> Works(j, a))
    BY <1>1 DEF Works
  <2>2. QED
    BY <1>2, <2>1 DEF Once
<1>6. QED
  BY <1>2, <1>3, <1>4, <1>5 DEF IInv

\* A job ends with its answer, and the trace tells all of an answer that is ok.
LEMMA EndedNext ==
  ASSUME IInv, TypeOK', NEW j \in jobs, NEW how \in {"ok", "failed"}, Answers(j, how),
         UNCHANGED <<mailbox, events, report>>,
         how = "ok" => IF j.signature THEN Signed(Told, j.of) ELSE Complete(Told, j.of)
  PROVE  IInv'
<1>1. /\ TypeOK /\ HandledTold /\ AnsweredTold /\ \A a \in Asks : Once(a)
      /\ j \in Jobs /\ j.of \in Asks /\ jobs' = jobs \ {j}
  BY DEF IInv, TypeOK, Jobs, Answers
<1>2. Told' = Told /\ Keeps(Told, Told') /\ \A n : Trace(n)' = Trace(n)
  BY TraceSame, KeepsItself
<1>3. ~j.signature => j.of \notin Reports /\ Works(j, j.of) /\ answer[j.of] = "sent"
  <2>1. ~j.signature => j.of \notin Reports
    BY <1>1 DEF HandledTold, At, Reports
  <2>2. QED
    BY <1>1, <2>1 DEF Once, Works
<1>4. /\ \A a \in Asks : a # j.of => answer'[a] = answer[a] /\ signed'[a] = signed[a]
      /\ IF j.signature THEN answer' = answer /\ signed'[j.of] = how
         ELSE signed' = signed /\ answer'[j.of] = how
  BY <1>1 DEF Answers, TypeOK
<1>5. SameQueue
  BY <1>2 DEF SameQueue
<1>6. /\ \A a \in Asks \ Reports : Ended(a) => answer'[a] = answer[a]
      /\ \A r \in Reports : answer'[r] = answer[r]
  <2>1. \A a \in Asks : answer'[a] # answer[a] => a = j.of /\ ~j.signature
    BY <1>4
  <2>2. QED
    BY <1>3, <2>1 DEF Ended, Reports
<1>7. QueuedTold' /\ ReportsTell'
  BY <1>2, <1>5, <1>6, SameQueueNext
<1>8. HandledTold'
  BY <1>1, <1>2, HandledNext
<1>9. AnsweredTold'
  <2>1. ASSUME NEW a \in Signs, signed'[a] = "ok"
        PROVE  signed[a] = "ok" \/ Signed(Told', a)
    BY <1>1, <1>2, <1>4, <2>1, AsksAssumption
  <2>2. ASSUME NEW a \in Asks \ Reports, answer'[a] = "ok"
        PROVE  answer[a] = "ok" \/ Complete(Told', a)
    BY <1>1, <1>2, <1>4, <2>2
  <2>3. QED
    BY <1>1, <1>2, <2>1, <2>2, AnsweredNext
<1>10. ASSUME NEW a \in Asks
       PROVE  Once(a)'
  <2>1. Once(a) /\ mailbox' = mailbox
    BY <1>1
  <2>2. CASE answer'[a] = answer[a]
    BY <1>1, <2>1, <2>2 DEF Once, Waits
  <2>3. CASE a = j.of /\ ~j.signature
    <3>1. Works(j, a)
      BY <2>3 DEF Works
    <3>2. \A y \in Actors : \A i \in DOMAIN mailbox[y] : ~Waits(y, i, a)
      BY <2>1, <3>1 DEF Once
    <3>3. \A k \in jobs' : ~Works(k, a)
      BY <1>1, <2>1, <3>1 DEF Once
    <3>4. QED
      BY <2>1, <3>2, <3>3 DEF Once, Waits
  <2>4. QED
    BY <1>4, <2>2, <2>3
<1>11. QED
  BY <1>7, <1>8, <1>9, <1>10 DEF IInv

\* A job tells the recorder what it has received or replied.
LEMMA EmitTold ==
  ASSUME IInv, NEW j \in jobs, NEW what \in {"received", "replied"}, Emit(j, what), events' = events
  PROVE  /\ SameQueue /\ Keeps(Told, Told')
         /\ LET event == Event(j.at, j.of, j.signature, what) IN
              /\ Tells(Told', event)
              /\ \A e \in Events : Tells(Told, e) => Precedes(Told', e, event)
<1> DEFINE event == Event(j.at, j.of, j.signature, what)
<1>1. TypeOK /\ event \in Events /\ "tracer" \in Actors /\ Deliver("tracer", event)
  BY Typed DEF IInv, TypeOK, Actors, Emit
<1> HIDE DEF event
<1>2. /\ mailbox'["tracer"] = Append(mailbox["tracer"], event)
      /\ \A y \in Actors \ {"tracer"} : mailbox'[y] = mailbox[y]
      /\ mailbox["tracer"] \in Seq(Events \union Messages)
  BY <1>1, DeliverTyped DEF TypeOK
<1>3. PICK last \in Nat :
        /\ last = Len(mailbox["tracer"]) + 1 /\ DOMAIN mailbox["tracer"] = 1..(last - 1)
        /\ DOMAIN mailbox'["tracer"] = 1..last /\ mailbox'["tracer"][last] = event
        /\ \A i \in 1..(last - 1) : mailbox'["tracer"][i] = mailbox["tracer"][i]
  BY <1>1, <1>2, AppendedAt
<1>4. /\ \A n \in 0..Len(mailbox["tracer"]) : Trace(n)' = Trace(n)
      /\ Keeps(Told, Told')
      /\ Tells(Told', event) /\ \A e \in Events : Tells(Told, e) => Precedes(Told', e, event)
  BY <1>1, <1>2, TraceGrows
<1>5. SameQueue
  <2>1. ASSUME NEW i \in DOMAIN mailbox'["tracer"], mailbox'["tracer"][i] \in Messages
        PROVE  /\ i \in DOMAIN mailbox["tracer"] /\ mailbox'["tracer"][i] = mailbox["tracer"][i]
               /\ Trace(i - 1)' = Trace(i - 1)
    <3>1. i # last
      BY <1>1, <1>3, <2>1, NoEvent
    <3>2. i \in 1..(last - 1) /\ i - 1 \in 0..Len(mailbox["tracer"])
      BY <1>3, <3>1
    <3>3. QED
      BY <1>3, <1>4, <3>2
  <2>2. QED
    BY <1>2, <2>1 DEF SameQueue
<1>6. QED
  BY <1>4, <1>5 DEF event

\* Every step of a job keeps the invariant.
LEMMA HandleNext ==
  ASSUME IInv, TypeOK', NEW j \in jobs, Handle(j)
  PROVE  IInv'
<1>1. /\ j \in Jobs /\ j.of \in Asks /\ j.signature \in BOOLEAN /\ j.at \in Actors
      /\ j.at # "tracer" /\ At(j.at, j) /\ JobTold(Told, j)
      /\ TypeOK /\ HandledTold /\ AnsweredTold
  BY DEF IInv, TypeOK, HandledTold, Jobs
<1>2. /\ j.signature => j.at = "session" /\ j.of \in Signs
      /\ ~j.signature => j.at = To[j.of] /\ j.of \notin Reports
      /\ ~j.signature /\ j.of \in Signs => j.at = "issuer"
  BY <1>1, Typed DEF At, Reports
<1>3. /\ {Received(j.of), Replied(j.of), SessionReceived(j.of), SessionReplied(j.of)} \subseteq Events
      /\ \A b \in Before[j.of] : Replied(b) \in Events
  BY <1>1, Typed
<1>4. ASSUME UNCHANGED <<mailbox, events>>
      PROVE  SameQueue /\ Keeps(Told, Told') /\ Told' = Told
  <2>1. Told' = Told /\ \A n : Trace(n)' = Trace(n)
    BY <1>4, TraceSame
  <2>2. QED
    BY <1>4, <2>1, KeepsItself DEF SameQueue
<1>5. ASSUME NEW step, NEW k, k = [j EXCEPT !.step = step]
      PROVE  k.at = j.at /\ k.of = j.of /\ k.signature = j.signature /\ k.step = step
  BY <1>1, <1>5 DEF Jobs
<1>6. ASSUME NEW step, Move(j, step), SameQueue, Keeps(Told, Told'),
             UNCHANGED <<signed, answer, events, report>>,
             \A k : k.of = j.of /\ k.signature = j.signature /\ k.step = step => JobTold(Told', k)
      PROVE  IInv'
  <2> DEFINE k == [j EXCEPT !.step = step]
  <2>1. k.at = j.at /\ k.of = j.of /\ k.signature = j.signature /\ k.step = step
    BY <1>5
  <2>2. jobs' = (jobs \ {j}) \union {k}
    BY <1>6 DEF Move
  <2> HIDE DEF k
  <2>3. QED
    BY <1>6, <2>1, <2>2, MovedNext
<1>7. CASE EmitReceived(j)
  <2>1. /\ j.step = "received" /\ Emit(j, "received") /\ UNCHANGED <<signed, answer, events, report>>
        /\ \E step \in {"work", "spawn"} : Move(j, step)
    BY <1>7 DEF EmitReceived
  <2>2. PICK step \in {"work", "spawn"} : Move(j, step)
    BY <2>1
  <2>3. /\ SameQueue /\ Keeps(Told, Told')
        /\ LET event == Event(j.at, j.of, j.signature, "received") IN
             /\ Tells(Told', event)
             /\ \A e \in Events : Tells(Told, e) => Precedes(Told', e, event)
    BY <2>1, EmitTold
  <2>4. ASSUME NEW k, k.of = j.of, k.signature = j.signature, k.step = step
        PROVE  JobTold(Told', k)
    <3>1. CASE j.signature
      <4>1. Event(j.at, j.of, j.signature, "received") = SessionReceived(j.of)
        BY <1>1, <1>2, <3>1 DEF SessionReceived
      <4>2. Tells(Told, Received(j.of))
        BY <1>1, <3>1 DEF JobTold
      <4>3. SessionOpened(Told', j.of) /\ Tells(Told', Received(j.of))
        BY <1>3, <2>3, <4>1, <4>2 DEF SessionOpened, Keeps
      <4>4. QED
        BY <2>4, <3>1, <4>3 DEF JobTold
    <3>2. CASE ~j.signature
      <4>1. Event(j.at, j.of, j.signature, "received") = Received(j.of)
        BY <1>1, <1>2, <3>2 DEF Received
      <4>2. Due(Told, j.of)
        BY <1>1, <3>2 DEF JobTold
      <4>3. Opened(Told', j.of) /\ Due(Told', j.of)
        BY <1>3, <2>3, <4>1, <4>2 DEF Opened, Due, Keeps
      <4>4. QED
        BY <2>4, <3>2, <4>3 DEF JobTold
    <3>3. QED
      BY <3>1, <3>2
  <2>5. QED
    BY <1>6, <2>1, <2>2, <2>3, <2>4
<1>8. CASE SpawnTask(j)
  <2>1. /\ j.step = "spawn" /\ Move(j, "work")
        /\ UNCHANGED <<mailbox, signed, answer, events, report>>
    BY <1>8 DEF SpawnTask
  <2>2. ASSUME NEW k, k.of = j.of, k.signature = j.signature, k.step = "work"
        PROVE  JobTold(Told, k)
    BY <1>1, <2>1, <2>2 DEF JobTold
  <2>3. QED
    BY <1>4, <1>6, <2>1, <2>2
<1>9. CASE Work(j)
  <2>1. /\ j.step = "work" /\ j.at # "issuer"
        /\ UNCHANGED <<mailbox, signed, answer, events, report>>
    BY <1>9 DEF Work
  <2>2. PICK ok \in BOOLEAN :
          jobs' = (jobs \ {j}) \union {[j EXCEPT !.step = "replied", !.ok = ok]}
    BY <1>9 DEF Work
  <2> DEFINE k == [j EXCEPT !.step = "replied", !.ok = ok]
  <2>3. k.at = j.at /\ k.of = j.of /\ k.signature = j.signature /\ k.step = "replied"
    BY <1>1 DEF Jobs
  <2>4. jobs' = (jobs \ {j}) \union {k}
    BY <2>2
  <2> HIDE DEF k
  <2>5. JobTold(Told, k)
    BY <1>1, <1>2, <2>1, <2>3 DEF JobTold
  <2>6. QED
    BY <1>4, <2>1, <2>3, <2>4, <2>5, MovedNext
<1>10. CASE AskSignature(j)
  <2> DEFINE m == [of |-> j.of, signature |-> TRUE]
  <2>1. /\ j.step = "work" /\ j.at = "issuer" /\ j.of \in Signs
        /\ Deliver("session", m) /\ Move(j, "await") /\ UNCHANGED <<signed, answer, events, report>>
    BY <1>10 DEF AskSignature
  <2>2. ~j.signature /\ m \in Messages /\ "session" \in Actors /\ "tracer" \in Actors
    BY <1>1, <1>2, <2>1 DEF Messages, Actors
  <2>3. At("session", m) /\ MessageTold(Told, m)
    BY <1>1, <2>1, <2>2 DEF At, MessageTold, JobTold, Opened
  <2>4. /\ mailbox'["session"] = Append(mailbox["session"], m)
        /\ \A y \in Actors \ {"session"} : mailbox'[y] = mailbox[y]
        /\ mailbox["session"] \in Seq(Messages)
    BY <1>1, <2>1, <2>2, DeliverTyped DEF TypeOK
  <2>5. Told' = Told /\ \A n : Trace(n)' = Trace(n)
    BY <2>1, <2>2, <2>4, TraceSame
  <2>6. \A i \in DOMAIN mailbox'["session"] :
          \/ i \in DOMAIN mailbox["session"] /\ mailbox'["session"][i] = mailbox["session"][i]
          \/ mailbox'["session"][i] = m
    <3> HIDE DEF m
    <3>1. QED
      BY <2>2, <2>4, AppendedAt
  <2>7. m.signature
    OBVIOUS
  <2> HIDE DEF m
  <2>8. SameQueue
    BY <2>3, <2>4, <2>5, <2>6, <2>7 DEF SameQueue
  <2>9. ASSUME NEW k, k.of = j.of, k.signature = j.signature, k.step = "await"
        PROVE  JobTold(Told, k)
    BY <1>1, <2>1, <2>9 DEF JobTold
  <2>10. QED
    BY <1>6, <2>1, <2>5, <2>8, <2>9, KeepsItself
<1>11. CASE VerifyChain(j)
  <2>1. /\ j.step = "work" /\ j.of \notin Signs /\ UNCHANGED <<mailbox, events, report>>
        /\ (Move(j, "replied") /\ UNCHANGED <<signed, answer>>) \/ Answers(j, "failed")
    BY <1>11 DEF VerifyChain
  <2>2. ASSUME NEW k, k.of = j.of, k.signature = j.signature, k.step = "replied"
        PROVE  JobTold(Told, k)
    BY <1>1, <1>2, <2>1, <2>2 DEF JobTold
  <2>3. CASE Move(j, "replied") /\ UNCHANGED <<signed, answer>>
    BY <1>4, <1>6, <2>1, <2>2, <2>3
  <2>4. CASE Answers(j, "failed")
    BY <2>1, <2>4, EndedNext
  <2>5. QED
    BY <2>1, <2>3, <2>4
<1>12. CASE AwaitSignature(j)
  <2>1. /\ j.step = "await" /\ UNCHANGED <<mailbox, events, report>>
        /\ \/ signed[j.of] = "ok" /\ Move(j, "replied") /\ UNCHANGED <<signed, answer>>
           \/ Answers(j, "failed")
    BY <1>12 DEF AwaitSignature
  <2>2. ASSUME signed[j.of] = "ok", NEW k, k.of = j.of, k.signature = j.signature, k.step = "replied"
        PROVE  JobTold(Told, k)
    BY <1>1, <2>1, <2>2 DEF JobTold, AnsweredTold
  <2>3. CASE signed[j.of] = "ok" /\ Move(j, "replied") /\ UNCHANGED <<signed, answer>>
    BY <1>4, <1>6, <2>1, <2>2, <2>3
  <2>4. CASE Answers(j, "failed")
    BY <2>1, <2>4, EndedNext
  <2>5. QED
    BY <2>1, <2>3, <2>4
<1>13. CASE EmitReplied(j)
  <2>1. /\ j.step = "replied" /\ Emit(j, "replied") /\ Move(j, "send")
        /\ UNCHANGED <<signed, answer, events, report>>
    BY <1>13 DEF EmitReplied
  <2>2. /\ SameQueue /\ Keeps(Told, Told')
        /\ LET event == Event(j.at, j.of, j.signature, "replied") IN
             /\ Tells(Told', event)
             /\ \A e \in Events : Tells(Told, e) => Precedes(Told', e, event)
    BY <2>1, EmitTold
  <2>3. ASSUME NEW k, k.of = j.of, k.signature = j.signature, k.step = "send"
        PROVE  JobTold(Told', k)
    <3>1. CASE j.signature
      <4>1. Event(j.at, j.of, j.signature, "replied") = SessionReplied(j.of)
        BY <1>1, <1>2, <3>1 DEF SessionReplied
      <4>2. Tells(Told, Received(j.of)) /\ SessionOpened(Told, j.of) /\ Tells(Told, SessionReceived(j.of))
        BY <1>1, <2>1, <3>1, Told2 DEF JobTold, SessionOpened
      <4>3. Signed(Told', j.of) /\ SessionOpened(Told', j.of) /\ Tells(Told', Received(j.of))
        BY <1>3, <2>2, <4>1, <4>2 DEF Signed, SessionOpened, Keeps
      <4>4. QED
        BY <2>3, <3>1, <4>3 DEF JobTold
    <3>2. CASE ~j.signature
      <4>1. Event(j.at, j.of, j.signature, "replied") = Replied(j.of)
        BY <1>1, <1>2, <3>2 DEF Replied
      <4>2. /\ Due(Told, j.of) /\ Opened(Told, j.of)
            /\ j.of \in Signs => Signed(Told, j.of) /\ Tells(Told, SessionReplied(j.of))
        BY <1>1, <2>1, <3>2, Told2 DEF JobTold, Signed
      <4>3. /\ Due(Told', j.of) /\ Opened(Told', j.of)
            /\ j.of \in Signs => Signed(Told', j.of)
        BY <1>1, <2>2, <4>2, Kept
      <4>4. /\ Precedes(Told', Received(j.of), Replied(j.of))
            /\ j.of \in Signs => Precedes(Told', SessionReplied(j.of), Replied(j.of))
        BY <1>3, <2>2, <4>1, <4>2 DEF Opened
      <4>5. Complete(Told', j.of)
        BY <4>3, <4>4 DEF Complete, Signed, SessionOpened, Opened
      <4>6. QED
        BY <2>3, <3>2, <4>3, <4>5 DEF JobTold
    <3>3. QED
      BY <3>1, <3>2
  <2>4. QED
    BY <1>6, <2>1, <2>2, <2>3
<1>14. CASE Reply(j)
  <2>1. j.step = "send" /\ UNCHANGED <<mailbox, events, report>>
    BY <1>14 DEF Reply
  <2>2. PICK how \in {"ok", "failed"} : Answers(j, how)
    BY <1>14 DEF Reply
  <2>3. IF j.signature THEN Signed(Told, j.of) ELSE Complete(Told, j.of)
    BY <1>1, <2>1 DEF JobTold
  <2>4. QED
    BY <2>1, <2>2, <2>3, EndedNext
<1>15. QED
  BY <1>7, <1>8, <1>9, <1>10, <1>11, <1>12, <1>13, <1>14 DEF Handle, Proceed

\* Every step keeps the invariant.
LEMMA InvariantNext == IInv /\ [Next]_vars => IInv'
<1> SUFFICES ASSUME IInv, [Next]_vars PROVE IInv'
  OBVIOUS
<1>1. TypeOK'
  BY TypeNext DEF IInv
<1>2. CASE UNCHANGED vars
  <2>1. Told' = Told /\ \A n : Trace(n)' = Trace(n)
    BY <1>2, TraceSame DEF vars
  <2>2. QED
    BY <1>1, <1>2, <2>1 DEF IInv, vars, QueuedTold, HandledTold, AnsweredTold, Once, Waits,
       ReportsTell, ToldAll, Ended
<1>3. ASSUME NEW a \in Asks, Ask(a)
      PROVE  IInv'
  BY <1>1, <1>3, AskNext
<1>4. ASSUME NEW x \in Actors, Take(x)
      PROVE  IInv'
  BY <1>1, <1>4, TakeNext
<1>5. CASE Record
  BY <1>1, <1>5, RecordNext
<1>6. ASSUME NEW j \in jobs, Handle(j)
      PROVE  IInv'
  BY <1>1, <1>6, HandleNext
<1>7. QED
  BY <1>2, <1>3, <1>4, <1>5, <1>6 DEF Next

\* What a message or a job has been through is in the trace or waits at the
\* recorder in its place, and of an ask there is one message or job at a time.
THEOREM InvariantHolds == Spec => []IInv
<1>1. Init => IInv
  BY InvariantInit
<1>2. IInv /\ [Next]_vars => IInv'
  BY InvariantNext
<1>3. QED
  BY <1>1, <1>2, PTL DEF Spec

\* A trace asked for after a successful ask tells all of it in order, for any
\* asks, any order among them and mailboxes of any capacity.
THEOREM TraceIsOrdered == Spec => []TraceOrdered
<1>1. IInv => TraceOrdered
  BY DEF IInv, ReportsTell, ToldAll, TraceOrdered
<1>2. QED
  BY <1>1, InvariantHolds, PTL
=============================================================================
