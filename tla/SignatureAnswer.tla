---------------------------- MODULE SignatureAnswer ----------------------------
(***************************************************************************)
(* The bytes of a PKSIGN or READKEY answer: gpg-agent encodes an           *)
(* S-expression, escapes it into the D lines of an Assuan response, and    *)
(* GpgAgentClient decodes the lines and cuts the signature or the public   *)
(* key out of the data.  (GpgAgent models who asks and waits for whom; an  *)
(* answer is one value there.)  A byte is its number.                      *)
(***************************************************************************)
EXTENDS Integers, Sequences, FiniteSetsExt

CONSTANTS
  Firsts, Seconds,  \* the components r and s that a signature may have
  Points,           \* the public keys the agent may hold, of KeyLength bytes
  KeyLength,        \* 32 in the code
  SignatureHead,    \* what an S-expression holds before the components of a
  KeyHead,          \*   signature or a key: its name, the algorithm, the curve
  Ending,           \* and what it holds after them
  Limits            \* bounds: the bytes after which the agent ends a line

Byte == 0..255

LF == 10
CR == 13
Percent == 37
Open == 40
Close == 41
Digits == 48..57
One == 49
Colon == 58
At == 64
Q == 113
R == 114
S == 115

\* Where d spells the tag of a component.
Places(d, tag) == {p \in 1..Len(d) - 3 : SubSeq(d, p, p + 3) = <<Open, One, Colon, tag>>}

ASSUME PointsAssumption ==
  /\ KeyLength \in 1..98
  /\ \A p \in Points : p \in Seq(Byte) /\ Len(p) = KeyLength
ASSUME ComponentsAssumption ==
  \A c \in Firsts \union Seconds : c \in Seq(Byte) /\ Len(c) < 100
ASSUME HeadsAssumption ==
  /\ {SignatureHead, KeyHead, Ending} \subseteq Seq(Byte)
  /\ Places(SignatureHead, R) \union Places(SignatureHead, S) \union Places(KeyHead, Q) = {}
ASSUME LimitsAssumption == Limits \subseteq Nat \ {0}

VARIABLES
  answer,  \* what the agent answers: a signature, or a key that q encodes
  limit,   \* the length at which it ends a line
  unsent,  \* the rest of its S-expression
  line,    \* the raw line on the socket after its "D ", <<>> when there is none
  data,    \* read_data_response's data
  done,    \* whether OK has ended the answer
  result   \* the caller's bytes, as a set: an error leaves it empty

vars == <<answer, limit, unsent, line, data, done, result>>

-----------------------------------------------------------------------------
(* The agent.                                                              *)

\* A number in decimal, of one or two digits.
Numeral(n) == IF n < 10 THEN <<48 + n>> ELSE <<48 + (n \div 10), 48 + (n % 10)>>

Field(tag, bytes) ==
  <<Open, One, Colon, tag>> \o Numeral(Len(bytes)) \o <<Colon>> \o bytes \o <<Close>>

Signatures == [kind : {"signature"}, r : Firsts, s : Seconds]
Answers ==
  Signatures
    \union {[kind |-> "key", q |-> p, point |-> p] : p \in Points}
    \union {[kind |-> "key", q |-> <<At>> \o p, point |-> p] : p \in Points}

Expression(a) ==
  IF a.kind = "signature"
  THEN SignatureHead \o Field(R, a.r) \o Field(S, a.s) \o Ending
  ELSE KeyHead \o Field(Q, a.q) \o Ending

HexDigit(n) == IF n < 10 THEN 48 + n ELSE 55 + n

Escape(b) ==
  IF b \in {LF, CR, Percent} THEN <<Percent, HexDigit(b \div 16), HexDigit(b % 16)>> ELSE <<b>>

Escaped(bytes) ==
  LET upTo[n \in 0..Len(bytes)] == IF n = 0 THEN <<>> ELSE upTo[n - 1] \o Escape(bytes[n])
  IN  upTo[Len(bytes)]

Init ==
  /\ answer \in Answers
  /\ limit \in Limits
  /\ unsent = Expression(answer)
  /\ line = <<>>
  /\ data = <<>>
  /\ done = FALSE
  /\ result = {}

\* The next line is filled up to the limit, and no escape is cut in two.
SendLine ==
  /\ unsent # <<>> /\ line = <<>>
  /\ LET n == Min({k \in 1..Len(unsent) :
                     k = Len(unsent) \/ Len(Escaped(SubSeq(unsent, 1, k))) >= limit})
     IN  /\ line' = Escaped(SubSeq(unsent, 1, n)) \o <<LF>>
         /\ unsent' = SubSeq(unsent, n + 1, Len(unsent))
  /\ UNCHANGED <<answer, limit, data, done, result>>

-----------------------------------------------------------------------------
(* The client.                                                             *)

HexadecimalValue ==
  [b \in Digits \union 65..70 \union 97..102 |->
     IF b <= 57 THEN b - 48 ELSE IF b <= 70 THEN b - 55 ELSE b - 87]

\* Whether an escape begins at index i.
IsEscape(bytes, i) ==
  /\ bytes[i] = Percent
  /\ i + 2 <= Len(bytes)
  /\ bytes[i + 1] \in DOMAIN HexadecimalValue /\ bytes[i + 2] \in DOMAIN HexadecimalValue

\* One turn of the loop of decoded_bytes.
Turn(bytes, loop) ==
  LET i == loop.index IN
  IF i > Len(bytes)
  THEN loop
  ELSE IF IsEscape(bytes, i)
  THEN [index |-> i + 3,
        result |-> loop.result
          \o <<16 * HexadecimalValue[bytes[i + 1]] + HexadecimalValue[bytes[i + 2]]>>]
  ELSE [index |-> i + 1, result |-> loop.result \o <<bytes[i]>>]

\* The loop ends after at most as many turns as there are bytes.
DecodedBytes(bytes) ==
  LET after[n \in 0..Len(bytes)] ==
        IF n = 0 THEN [index |-> 1, result |-> <<>>] ELSE Turn(bytes, after[n - 1])
  IN  after[Len(bytes)].result

\* The line without the CRs and LFs that end it.
Stripped(bytes) ==
  SubSeq(bytes, 1, Max({0} \union {i \in DOMAIN bytes : bytes[i] \notin {CR, LF}}))

\* Mutant: the line is decoded first, and then stripped.
ReadLineDecodedFirst ==
  /\ line # <<>>
  /\ data' = data \o Stripped(DecodedBytes(line))
  /\ line' = <<>>
  /\ UNCHANGED <<answer, limit, unsent, done, result>>

ReadLine ==
  /\ line # <<>>
  /\ data' = data \o DecodedBytes(Stripped(line))
  /\ line' = <<>>
  /\ UNCHANGED <<answer, limit, unsent, done, result>>

Decimal(digits) ==
  LET upTo[n \in 0..Len(digits)] == IF n = 0 THEN 0 ELSE 10 * upTo[n - 1] + (digits[n] - 48)
  IN  upTo[Len(digits)]

\* The bytes after the first "(1:tag" in d and the length that follows it, as a
\* set that is empty where the code's result is None.
ExtractSexpValue(d, tag) ==
  LET first == Min(Places(d, tag)) + 4
      colon == Min({i \in first..Len(d) + 1 : i > Len(d) \/ d[i] \notin Digits})
      length == Decimal(SubSeq(d, first, colon - 1))
  IN  IF \/ Places(d, tag) = {} \/ colon > Len(d) \/ d[colon] # Colon
         \/ colon = first              \* "" does not parse
         \/ colon + length > Len(d)
      THEN {}
      ELSE {SubSeq(d, colon + 1, colon + length)}

SignatureBytes(d) == {r \o s : r \in ExtractSexpValue(d, R), s \in ExtractSexpValue(d, S)}

\* A key may come with the byte 0x40 before it.
ExtractSexpQValue(d) ==
  {IF Len(q) = KeyLength + 1 /\ q[1] = At THEN Tail(q) ELSE q : q \in ExtractSexpValue(d, Q)}

\* What sign or readkey returns of the data, when OK has ended it.
Extracted == IF answer.kind = "signature" THEN SignatureBytes(data) ELSE ExtractSexpQValue(data)

ReadOk ==
  /\ unsent = <<>> /\ line = <<>> /\ ~done
  /\ done' = TRUE
  /\ result' = Extracted
  /\ UNCHANGED <<answer, limit, unsent, line, data>>

Next == SendLine \/ ReadLine \/ ReadOk

Spec == Init /\ [][Next]_vars

-----------------------------------------------------------------------------
(* Properties.                                                             *)

Meant == IF answer.kind = "signature" THEN answer.r \o answer.s ELSE answer.point

\* What the caller gets is what the agent meant, byte for byte, however the
\* bytes are escaped and wherever the lines are cut.  The search for the tag of
\* s sees the bytes of r too: an r that spells it is the exception, where the
\* code answers an error or bytes of r for s.
AnswerRead ==
  (done /\ ~(answer.kind = "signature" /\ Places(answer.r, S) # {})) => result = {Meant}

-----------------------------------------------------------------------------
(* Why it holds: the inductive invariant of SignatureAnswerProofs.         *)

\* The bytes that the line on the socket encodes.
Underway ==
  SubSeq(Expression(answer), Len(data) + 1, Len(Expression(answer)) - Len(unsent))

\* What has been read, what is on the socket and what is unsent are the
\* expression, in this order.
IInv ==
  /\ answer \in Answers /\ limit \in Limits /\ done \in BOOLEAN
  /\ unsent \in Seq(Byte) /\ data \in Seq(Byte)
  /\ Expression(answer) = data \o Underway \o unsent
  /\ line = IF Underway = <<>> THEN <<>> ELSE Escaped(Underway) \o <<LF>>
  /\ done => unsent = <<>> /\ line = <<>> /\ result = Extracted
=============================================================================
