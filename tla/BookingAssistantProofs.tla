------------------------- MODULE BookingAssistantProofs -------------------------
(***************************************************************************)
(* Proofs about BookingAssistant, for any number of messages, submissions  *)
(* and services.  The form and the choice are settled by what is in        *)
(* flight.  The conversation needs to know, for each await of a message,   *)
(* what the conversation ends with and where its placeholder is; nobody    *)
(* else writes there unless the conversation is disturbed.                 *)
(***************************************************************************)
EXTENDS BookingAssistant, SequenceTheorems, TLAPS

Said == [of: Sends, role: Roles]
Conversation == Seq(Said)

\* Nothing but a question stands under a message of another origin.
Paired(m) ==
  \A i \in 1..Len(m) : m[i].role # "question" => i > 1 /\ m[i - 1].of = m[i].of

Absent(m, s) == \A i \in 1..Len(m) : m[i].of # s
EndsWith(m, s) == m # <<>> /\ m[Len(m)].of = s
Pending(m, s, i) == i \in 1..Len(m) /\ m[i].of = s /\ m[i].role = "pending"

\* Where the placeholder of a message may be: nowhere, at the end, or above the remark
\* that its position was refused; in the end above its reply.
Unanswered(m, s) == \A i \in 1..Len(m) : ~Pending(m, s, i)
PendingLast(m, s) == \A i \in 1..Len(m) : Pending(m, s, i) => i = Len(m)
PendingAbove(m, s) ==
  \A i \in 1..Len(m) :
    Pending(m, s, i) => i = Len(m) \/ (i + 1 = Len(m) /\ m[Len(m)].role = "location")
Settled(m, s) ==
  \A i \in 1..Len(m) :
    Pending(m, s, i) => i < Len(m) /\ m[i + 1] = Message(s, "reply")

\* A change made for one message keeps what is known of the others.
LeavesOthers(m, n, s) ==
  \A q \in Sends \ {s} : /\ Absent(m, q) => Absent(n, q)
                         /\ Settled(m, q) => Settled(n, q)

-------------------------------------------------------------------------------
\* What a message is.
LEMMA MessageTyped ==
  ASSUME NEW s \in Sends, NEW role \in Roles
  PROVE  /\ Message(s, role) \in Said
         /\ Message(s, role).of = s /\ Message(s, role).role = role
BY DEF Message, Said

\* A message at the end of a conversation.
LEMMA AppendedMessage ==
  ASSUME NEW m \in Conversation, NEW x \in Said
  PROVE  /\ Append(m, x) \in Conversation
         /\ Len(Append(m, x)) = Len(m) + 1
         /\ \A i \in 1..Len(m) : Append(m, x)[i] = m[i]
         /\ Append(m, x)[Len(m) + 1] = x
         /\ Append(m, x) # <<>>
         /\ Len(m) \in Nat
BY DEF Conversation

\* What a message at the end does to the others.
LEMMA AppendLeavesOthers ==
  ASSUME NEW m \in Conversation, NEW s \in Sends, NEW role \in Roles
  PROVE  LeavesOthers(m, Append(m, Message(s, role)), s)
<1> DEFINE n == Append(m, Message(s, role))
<1>1. /\ Len(n) = Len(m) + 1 /\ Len(m) \in Nat
      /\ \A i \in 1..Len(m) : n[i] = m[i]
      /\ n[Len(m) + 1].of = s
  BY MessageTyped, AppendedMessage
<1> HIDE DEF n
<1>2. ASSUME NEW q \in Sends \ {s}, Absent(m, q) PROVE Absent(n, q)
  BY <1>1, <1>2 DEF Absent
<1>3. ASSUME NEW q \in Sends \ {s}, Settled(m, q), NEW i \in 1..Len(n), Pending(n, q, i)
      PROVE  i < Len(n) /\ n[i + 1] = Message(q, "reply")
  <2>1. i \in 1..Len(m) /\ n[i] = m[i]
    BY <1>1, <1>3 DEF Pending
  <2>2. Pending(m, q, i)
    BY <1>3, <2>1 DEF Pending
  <2>3. i < Len(m) /\ m[i + 1] = Message(q, "reply")
    BY <1>3, <2>1, <2>2 DEF Settled
  <2>4. i + 1 \in 1..Len(m)
    BY <1>1, <2>1, <2>3
  <2> QED
    BY <1>1, <2>1, <2>3, <2>4
<1> QED
  BY <1>2, <1>3 DEF LeavesOthers, Settled, n

\* A question begins at the end of the conversation.
LEMMA QuestionAppended ==
  ASSUME NEW m \in Conversation, NEW s \in Sends, Paired(m), Absent(m, s),
         NEW n, n = Append(m, Message(s, "question"))
  PROVE  /\ n \in Conversation /\ Paired(n) /\ EndsWith(n, s) /\ Unanswered(n, s)
         /\ LeavesOthers(m, n, s)
<1>0. "question" \in Roles
  BY DEF Roles
<1>1. /\ n \in Conversation /\ Len(n) = Len(m) + 1 /\ Len(m) \in Nat /\ n # <<>>
      /\ \A i \in 1..Len(m) : n[i] = m[i]
      /\ n[Len(m) + 1].of = s /\ n[Len(m) + 1].role = "question"
  BY <1>0, MessageTyped, AppendedMessage
<1>2. Paired(n)
  <2> SUFFICES ASSUME NEW i \in 1..Len(n), n[i].role # "question"
               PROVE  i > 1 /\ n[i - 1].of = n[i].of
    BY DEF Paired
  <2>1. i \in 1..Len(m) /\ n[i] = m[i]
    BY <1>1
  <2>2. i > 1 /\ m[i - 1].of = m[i].of
    BY <2>1 DEF Paired
  <2>3. i - 1 \in 1..Len(m)
    BY <1>1, <2>1, <2>2
  <2> QED
    BY <1>1, <2>1, <2>2, <2>3
<1>3. EndsWith(n, s)
  BY <1>1 DEF EndsWith
<1>4. Unanswered(n, s)
  BY <1>1 DEF Unanswered, Pending, Absent
<1> QED
  BY <1>0, <1>1, <1>2, <1>3, <1>4, AppendLeavesOthers

\* Another message of s goes below the last one, which is of s.
LEMMA AnswerAppended ==
  ASSUME NEW m \in Conversation, NEW s \in Sends, Paired(m), EndsWith(m, s),
         NEW role \in Roles, NEW n, n = Append(m, Message(s, role))
  PROVE  /\ n \in Conversation /\ Paired(n) /\ EndsWith(n, s) /\ LeavesOthers(m, n, s)
         /\ Unanswered(m, s) => PendingLast(n, s)
         /\ PendingLast(m, s) /\ role = "location" => PendingAbove(n, s)
         /\ Unanswered(m, s) /\ role = "reply" => Settled(n, s)
<1>1. /\ n \in Conversation /\ Len(n) = Len(m) + 1 /\ Len(m) \in Nat /\ n # <<>>
      /\ \A i \in 1..Len(m) : n[i] = m[i]
      /\ n[Len(m) + 1].of = s /\ n[Len(m) + 1].role = role
      /\ Len(m) > 0
  <2>1. Len(m) > 0
    BY EmptySeq DEF EndsWith, Conversation
  <2> QED
    BY <2>1, MessageTyped, AppendedMessage
<1>2. Paired(n)
  <2> SUFFICES ASSUME NEW i \in 1..Len(n), n[i].role # "question"
               PROVE  i > 1 /\ n[i - 1].of = n[i].of
    BY DEF Paired
  <2>1. CASE i = Len(m) + 1
    BY <1>1, <2>1 DEF EndsWith
  <2>2. CASE i # Len(m) + 1
    <3>1. i \in 1..Len(m) /\ n[i] = m[i]
      BY <1>1, <2>2
    <3>2. i > 1 /\ m[i - 1].of = m[i].of
      BY <3>1 DEF Paired
    <3>3. i - 1 \in 1..Len(m)
      BY <1>1, <3>1, <3>2
    <3> QED
      BY <1>1, <3>1, <3>2, <3>3
  <2> QED
    BY <2>1, <2>2
<1>3. EndsWith(n, s)
  BY <1>1 DEF EndsWith
<1>4. \A i \in 1..Len(m) : Pending(n, s, i) <=> Pending(m, s, i)
  BY <1>1 DEF Pending
<1>5. Unanswered(m, s) => PendingLast(n, s)
  BY <1>1, <1>4 DEF Unanswered, PendingLast
<1>6. ASSUME PendingLast(m, s), role = "location", NEW i \in 1..Len(n), Pending(n, s, i)
      PROVE  i + 1 = Len(n) /\ n[Len(n)].role = "location"
  <2>1. i \in 1..Len(m)
    BY <1>1, <1>6 DEF Pending
  <2>2. i = Len(m)
    BY <1>4, <1>6, <2>1 DEF PendingLast
  <2> QED
    BY <1>1, <1>6, <2>2
<1>7. ASSUME Unanswered(m, s), role = "reply", NEW i \in 1..Len(n), Pending(n, s, i)
      PROVE  FALSE
  <2>1. i \in 1..Len(m)
    BY <1>1, <1>7 DEF Pending
  <2> QED
    BY <1>4, <1>7, <2>1 DEF Unanswered
<1> QED
  BY <1>1, <1>2, <1>3, <1>5, <1>6, <1>7, AppendLeavesOthers DEF PendingAbove, Settled

\* A question and its placeholder.
LEMMA PlaceholderAppended ==
  ASSUME NEW m \in Conversation, NEW s \in Sends, Paired(m), Absent(m, s),
         NEW n, n = WithPlaceholder(m, s)
  PROVE  /\ n \in Conversation /\ Paired(n) /\ EndsWith(n, s) /\ PendingLast(n, s)
         /\ LeavesOthers(m, n, s)
<1> DEFINE q == Message(s, "question")
           p == Message(s, "pending")
           asked == Append(m, q)
<1>1. q \in Said /\ p \in Said /\ "pending" \in Roles
  BY MessageTyped DEF Roles
<1>2. asked \in Conversation /\ Paired(asked) /\ EndsWith(asked, s) /\ Unanswered(asked, s)
        /\ LeavesOthers(m, asked, s)
  BY QuestionAppended
<1>3. n = Append(asked, p)
  <2>1. /\ <<q, p>> \in Conversation /\ Len(<<q, p>>) = 2
        /\ <<q, p>>[1] = q /\ <<q, p>>[2] = p
    BY <1>1 DEF Conversation
  <2>2. /\ n \in Conversation /\ Len(n) = Len(m) + 2 /\ Len(m) \in Nat
        /\ \A i \in 1..Len(m) + 2 : n[i] = IF i <= Len(m) THEN m[i] ELSE <<q, p>>[i - Len(m)]
    <3> HIDE DEF q, p
    <3>1. n = m \o <<q, p>>
      BY DEF WithPlaceholder, q, p
    <3> QED
      BY <2>1, <3>1, ConcatProperties, LenProperties DEF Conversation
  <2>3. /\ Append(asked, p) \in Conversation /\ Len(Append(asked, p)) = Len(m) + 2
        /\ \A i \in 1..Len(m) : Append(asked, p)[i] = m[i]
        /\ Append(asked, p)[Len(m) + 1] = q /\ Append(asked, p)[Len(m) + 2] = p
    <3> HIDE DEF q, p
    <3>1. /\ asked \in Conversation /\ Len(asked) = Len(m) + 1 /\ Len(m) \in Nat
          /\ \A i \in 1..Len(m) : asked[i] = m[i]
          /\ asked[Len(m) + 1] = q
      BY <1>1, AppendedMessage
    <3> HIDE DEF asked
    <3>2. /\ Append(asked, p) \in Conversation /\ Len(Append(asked, p)) = Len(asked) + 1
          /\ \A i \in 1..Len(asked) : Append(asked, p)[i] = asked[i]
          /\ Append(asked, p)[Len(asked) + 1] = p
      BY <1>1, <3>1, AppendedMessage
    <3> QED
      BY <3>1, <3>2
  <2> HIDE DEF q, p, asked
  <2>4. \A i \in 1..Len(m) + 2 : n[i] = Append(asked, p)[i]
    <3> SUFFICES ASSUME NEW i \in 1..Len(m) + 2 PROVE n[i] = Append(asked, p)[i]
      OBVIOUS
    <3>1. CASE i \in 1..Len(m)
      BY <2>2, <2>3, <3>1
    <3>2. CASE i = Len(m) + 1
      BY <2>1, <2>2, <2>3, <3>2
    <3>3. CASE i = Len(m) + 2
      BY <2>1, <2>2, <2>3, <3>3
    <3>4. i \in 1..Len(m) \/ i = Len(m) + 1 \/ i = Len(m) + 2
      BY <2>2
    <3> QED
      BY <3>1, <3>2, <3>3, <3>4
  <2> QED
    BY <2>2, <2>3, <2>4, SeqEqual DEF Conversation
<1>4. n \in Conversation /\ Paired(n) /\ EndsWith(n, s) /\ LeavesOthers(asked, n, s)
        /\ PendingLast(n, s)
  <2> HIDE DEF asked
  <2> QED
    BY <1>1, <1>2, <1>3, AnswerAppended
<1>5. LeavesOthers(m, n, s)
  BY <1>2, <1>4 DEF LeavesOthers
<1> QED
  BY <1>4, <1>5

\* A partial answer is put into a message of the same origin.
LEMMA RewrittenSame ==
  ASSUME NEW m \in Conversation, NEW s \in Sends, EndsWith(m, s)
  PROVE  Rewritten(m, s) = m
<1>1. Len(m) \in 1..Len(m) /\ m[Len(m)] \in Said /\ m[Len(m)].of = s
  BY EmptySeq, ElementOfSeq DEF EndsWith, Conversation
<1>2. [m[Len(m)] EXCEPT !.of = s] = m[Len(m)]
  BY <1>1 DEF Said
<1>3. [m EXCEPT ![Len(m)].of = s] = m
  <2>1. [m EXCEPT ![Len(m)].of = s] = [m EXCEPT ![Len(m)] = [m[Len(m)] EXCEPT !.of = s]]
    OBVIOUS
  <2>2. [m EXCEPT ![Len(m)] = m[Len(m)]] = m
    BY LenProperties DEF Conversation
  <2> QED
    BY <1>2, <2>1, <2>2
<1> QED
  BY <1>3 DEF Rewritten

\* The reply takes the place of the placeholder, or of the remark below it.
LEMMA ReplyWritten ==
  ASSUME NEW m \in Conversation, NEW s \in Sends, Paired(m), EndsWith(m, s),
         PendingAbove(m, s), NEW n, n = Answered(m, s)
  PROVE  n \in Conversation /\ Paired(n) /\ Settled(n, s) /\ LeavesOthers(m, n, s)
<1>1. Len(m) \in 1..Len(m) /\ Len(m) \in Nat /\ m[Len(m)] \in Said /\ m[Len(m)].of = s
  BY EmptySeq, ElementOfSeq DEF EndsWith, Conversation
<1>2. CASE m[Len(m)].role = "question"
  <2>1. n = Append(m, Message(s, "reply"))
    BY <1>2 DEF Answered, EndsWithAnswer
  <2>2. Unanswered(m, s)
    BY <1>1, <1>2 DEF PendingAbove, Unanswered, Pending
  <2>3. "reply" \in Roles
    BY DEF Roles
  <2> QED
    BY <2>1, <2>2, <2>3, AnswerAppended
<1>3. CASE m[Len(m)].role # "question"
  <2> DEFINE x == Message(s, "reply")
  <2>1. n = [m EXCEPT ![Len(m)] = x]
    BY <1>3 DEF Answered, EndsWithAnswer, EndsWith
  <2>2. x \in Said /\ x.of = s /\ x.role = "reply"
    BY MessageTyped DEF Roles
  <2> HIDE DEF x
  <2>3. /\ n \in Conversation /\ Len(n) = Len(m) /\ n[Len(m)] = x
        /\ \A i \in 1..Len(m) : i # Len(m) => n[i] = m[i]
    BY <1>1, <2>1, <2>2, ExceptSeq DEF Conversation
  <2>4. Paired(n)
    <3> SUFFICES ASSUME NEW i \in 1..Len(n), n[i].role # "question"
                 PROVE  i > 1 /\ n[i - 1].of = n[i].of
      BY DEF Paired
    <3>1. m[i].role # "question" /\ n[i].of = m[i].of
      BY <1>1, <1>3, <2>2, <2>3
    <3>2. i > 1 /\ m[i - 1].of = m[i].of
      BY <2>3, <3>1 DEF Paired
    <3>3. i - 1 \in 1..Len(m) /\ i - 1 # Len(m)
      BY <1>1, <2>3, <3>2
    <3> QED
      BY <2>3, <3>1, <3>2, <3>3
  <2>5. Settled(n, s)
    <3> SUFFICES ASSUME NEW i \in 1..Len(n), Pending(n, s, i)
                 PROVE  i < Len(n) /\ n[i + 1] = x
      BY DEF Settled, x
    <3>1. i # Len(m) /\ Pending(m, s, i)
      BY <2>2, <2>3 DEF Pending
    <3>2. i + 1 = Len(m)
      BY <2>3, <3>1 DEF PendingAbove
    <3> QED
      BY <2>3, <3>2
  <2>6. ASSUME NEW q \in Sends \ {s}, Absent(m, q) PROVE Absent(n, q)
    BY <2>2, <2>3, <2>6 DEF Absent
  <2>7. ASSUME NEW q \in Sends \ {s}, Settled(m, q), NEW i \in 1..Len(n), Pending(n, q, i)
        PROVE  i < Len(n) /\ n[i + 1] = Message(q, "reply")
    <3>1. i # Len(m) /\ Pending(m, q, i)
      BY <2>2, <2>3, <2>7 DEF Pending
    <3>2. i < Len(m) /\ m[i + 1] = Message(q, "reply")
      BY <2>3, <2>7, <3>1 DEF Settled
    <3>3. Message(q, "reply").of = q
      BY DEF Message
    <3>4. i + 1 \in 1..Len(m) /\ i + 1 # Len(m)
      BY <1>1, <2>3, <3>2, <3>3
    <3> QED
      BY <2>3, <3>2, <3>4
  <2> QED
    BY <2>3, <2>4, <2>5, <2>6, <2>7 DEF LeavesOthers, Settled
<1> QED
  BY <1>2, <1>3

\* Whatever it stands in, what a message writes makes a conversation.
LEMMA WritingTyped ==
  ASSUME NEW m \in Conversation, NEW s \in Sends
  PROVE  /\ \A role \in Roles : Append(m, Message(s, role)) \in Conversation
         /\ WithPlaceholder(m, s) \in Conversation
         /\ Rewritten(m, s) \in Conversation
         /\ Answered(m, s) \in Conversation
<1>1. \A role \in Roles : Append(m, Message(s, role)) \in Conversation
  BY MessageTyped, AppendedMessage
<1>2. WithPlaceholder(m, s) \in Conversation
  <2>1. Message(s, "question") \in Said /\ Message(s, "pending") \in Said
    BY MessageTyped DEF Roles
  <2>2. <<Message(s, "question"), Message(s, "pending")>> \in Conversation
    BY <2>1 DEF Conversation
  <2> QED
    BY <2>2, ConcatProperties DEF WithPlaceholder, Conversation
<1>3. m # <<>> => Len(m) \in 1..Len(m) /\ m[Len(m)] \in Said
  BY EmptySeq, ElementOfSeq DEF Conversation
<1>4. Rewritten(m, s) \in Conversation
  <2>1. CASE EndsWithAnswer(m)
    <3>1. [m[Len(m)] EXCEPT !.of = s] \in Said /\ Len(m) \in 1..Len(m)
      BY <1>3, <2>1 DEF EndsWithAnswer, Said
    <3>2. [m EXCEPT ![Len(m)] = [m[Len(m)] EXCEPT !.of = s]] \in Conversation
      BY <3>1, ExceptSeq DEF Conversation
    <3> QED
      BY <2>1, <3>2 DEF Rewritten
  <2> QED
    BY <2>1 DEF Rewritten
<1>5. Answered(m, s) \in Conversation
  <2>1. Message(s, "reply") \in Said
    BY MessageTyped DEF Roles
  <2>2. CASE EndsWithAnswer(m)
    <3>1. Len(m) \in 1..Len(m)
      BY <1>3, <2>2 DEF EndsWithAnswer
    <3>2. [m EXCEPT ![Len(m)] = Message(s, "reply")] \in Conversation
      BY <2>1, <3>1, ExceptSeq DEF Conversation
    <3> QED
      BY <2>2, <3>2 DEF Answered
  <2>3. "reply" \in Roles
    BY DEF Roles
  <2> QED
    BY <1>1, <2>2, <2>3 DEF Answered
<1> QED
  BY <1>1, <1>2, <1>4, <1>5

-------------------------------------------------------------------------------
ChatLabels ==
  {"idle", "catalog", "global", "agent", "stream", "position", "retry", "answers", "done", "failed"}
StageLabels ==
  {"idle", "event", "intent", "session", "automation", "legacy", "booked", "refused",
   "event booked", "event lost"}

Busy(s) == Waiting(s) \/ Answering(s)

\* What the conversation holds of a message at each of its awaits.
OfMessage(s) ==
  /\ pc[s] \in {"idle", "catalog"} => Absent(messages, s)
  /\ Waiting(s) => ~catalog /\ snapshot[s] = messages
  /\ Answering(s) => EndsWith(messages, s)
  /\ pc[s] = "global" => Unanswered(messages, s)
  /\ pc[s] \in {"agent", "stream", "position", "retry"} => PendingLast(messages, s)
  /\ pc[s] = "answers" => PendingAbove(messages, s)
  /\ pc[s] = "done" => Settled(messages, s)

ChatInv ==
  ~disturbed =>
    /\ \A s, q \in Sends : Busy(s) /\ Busy(q) => s = q
    /\ chatLoading <=> \E s \in Sends : Answering(s)
    /\ Paired(messages)
    /\ \A s \in Sends : OfMessage(s)

\* A submission under way keeps the form locked, with no booking shown.
FormLocked == \A b \in Submissions : InFlight(b) => loading /\ result = None

FormInv == FormLocked /\ OneSubmissionAtATime /\ OnlyEventsLeaveLock

IInv == TypeOK /\ ChatInv /\ GuidanceOfSelection /\ FormInv

\* The initial state satisfies the invariant.
LEMMA InitIInv == Init => IInv
<1> SUFFICES ASSUME Init PROVE IInv
  OBVIOUS
<1>1. messages \in Conversation /\ Len(messages) = 0
  BY EmptySeq DEF Init, Conversation
<1>2. TypeOK
  <2>1. snapshot \in [Sends -> Conversation]
    BY <1>1 DEF Init
  <2> QED
    BY <1>1, <2>1 DEF Init, TypeOK, Conversation, Said
<1>3. Paired(messages) /\ \A s \in Sends : Absent(messages, s)
  BY <1>1 DEF Paired, Absent
<1>4. ChatInv
  BY <1>3 DEF Init, ChatInv, Busy, Waiting, Answering, OfMessage
<1>5. GuidanceOfSelection /\ FormInv
  BY DEF Init, GuidanceOfSelection, FormInv, FormLocked, OneSubmissionAtATime, OnlyEventsLeaveLock,
         InFlight
<1> QED
  BY <1>2, <1>4, <1>5 DEF IInv

\* What is known of the chat depends on these variables alone, and on the catalog being
\* no more there than it was.
LEMMA ChatStays ==
  ASSUME ChatInv, UNCHANGED <<catalog, messages, chatLoading, pc, snapshot, disturbed>>
  PROVE  ChatInv'
<1>1. \A s \in Sends : OfMessage(s)' <=> OfMessage(s)
  BY DEF OfMessage, Waiting, Answering
<1>2. \A s \in Sends : (Busy(s)' <=> Busy(s)) /\ (Answering(s)' <=> Answering(s))
  BY DEF Busy, Waiting, Answering
<1> QED
  BY <1>1, <1>2 DEF ChatInv

\* What is known of the form depends on these variables alone.
LEMMA FormStays == ASSUME FormInv, UNCHANGED <<loading, stage, result>> PROVE FormInv'
BY DEF FormInv, FormLocked, OneSubmissionAtATime, OnlyEventsLeaveLock, InFlight

\* A step of the one busy message s, which leaves the others in the conversation alone.
LEMMA OwnChatStep ==
  ASSUME IInv, ~disturbed, NEW s \in Sends, NEW label \in ChatLabels,
         \A q \in Sends : Busy(q) => q = s,
         pc' = [pc EXCEPT ![s] = label],
         Paired(messages'), LeavesOthers(messages, messages', s),
         OfMessage(s)',
         chatLoading' <=> Answering(s)'
  PROVE  ChatInv'
<1>1. \A q \in Sends \ {s} : pc'[q] = pc[q]
  BY DEF IInv, TypeOK
<1>2. \A q \in Sends : Busy(q)' => q = s
  BY <1>1 DEF Busy, Waiting, Answering
<1>3. \A q \in Sends : Answering(q)' => q = s
  BY <1>2 DEF Busy
<1>4. ASSUME NEW q \in Sends \ {s} PROVE OfMessage(q)'
  <2>1. ~Busy(q)' /\ pc'[q] = pc[q] /\ OfMessage(q)
    BY <1>1, <1>2, <1>4 DEF IInv, ChatInv
  <2>2. pc'[q] \notin {"catalog", "global", "agent", "stream", "position", "retry", "answers"}
    BY <2>1 DEF Busy, Waiting, Answering
  <2>3. pc'[q] = "idle" => Absent(messages', q)
    BY <1>4, <2>1 DEF OfMessage, LeavesOthers
  <2>4. pc'[q] = "done" => Settled(messages', q)
    BY <1>4, <2>1 DEF OfMessage, LeavesOthers
  <2>5. ~Waiting(q)' /\ ~Answering(q)'
    BY <2>1 DEF Busy
  <2> QED
    BY <2>2, <2>3, <2>4, <2>5 DEF OfMessage
<1>5. \A q \in Sends : OfMessage(q)'
  BY <1>4
<1> QED
  BY <1>2, <1>3, <1>5 DEF ChatInv

-------------------------------------------------------------------------------
\* The catalog that arrives clears the conversation: a message under way disturbs it.
LEMMA LoadInv ==
  ASSUME IInv, loadCatalog
  PROVE  IInv'
<1>1. /\ dialog' = "open" /\ catalog' = TRUE /\ messages' = <<>>
      /\ disturbed' = (disturbed \/ \E s \in Sends : Waiting(s) \/ Answering(s))
      /\ UNCHANGED <<chatLoading, located, unlocated, pc, snapshot, choice, form>>
  BY DEF loadCatalog
<1>2. messages' \in Conversation /\ Len(messages') = 0
  BY <1>1, EmptySeq DEF Conversation
<1>3. TypeOK'
  BY <1>1, <1>2 DEF IInv, TypeOK, Conversation, Said, choice, form
<1>4. ChatInv'
  <2> SUFFICES ASSUME ~disturbed' PROVE ChatInv'
    BY DEF ChatInv
  <2>1. ~disturbed /\ \A s \in Sends : ~Waiting(s) /\ ~Answering(s)
    BY <1>1
  <2>2. \A s \in Sends : ~Waiting(s)' /\ ~Answering(s)'
    BY <1>1, <2>1 DEF Waiting, Answering
  <2>3. ~chatLoading'
    BY <1>1, <2>1 DEF IInv, ChatInv
  <2>4. Paired(messages') /\ \A s \in Sends : Absent(messages', s) /\ Settled(messages', s)
    BY <1>2 DEF Paired, Absent, Settled
  <2>5. ASSUME NEW s \in Sends PROVE OfMessage(s)'
    BY <2>2, <2>4 DEF OfMessage, Waiting, Answering
  <2> QED
    BY <2>2, <2>3, <2>4, <2>5 DEF ChatInv, Busy
<1>5. GuidanceOfSelection' /\ FormInv'
  BY <1>1, FormStays DEF IInv, choice, form, GuidanceOfSelection
<1> QED
  BY <1>3, <1>4, <1>5 DEF IInv

\* The question of a message is written below the conversation that the message saw.
LEMMA BeginInv ==
  ASSUME IInv, NEW s \in Sends, NEW before \in Conversation, begin(s, before),
         catalog' \in BOOLEAN, UNCHANGED disturbed, unlocated' \in SUBSET Sends,
         pc[s] \in {"idle", "catalog"},
         ~disturbed => before = messages /\ \A q \in Sends : Busy(q) => q = s
  PROVE  IInv'
<1>1. /\ chatLoading' = TRUE
      /\ selected' = None /\ event' = FALSE /\ guidance' = None
      /\ snapshot' = [snapshot EXCEPT ![s] = <<>>]
      /\ UNCHANGED <<dialog, located, loading, stage, rich, result>>
  BY DEF begin, form
<1>2. PICK label \in {"agent", "global"} :
        /\ pc' = [pc EXCEPT ![s] = label]
        /\ label = "agent" => messages' = WithPlaceholder(before, s)
        /\ label = "global" => messages' = Append(before, Message(s, "question"))
  BY DEF begin
<1>3. TypeOK'
  <2>1. messages' \in Conversation
    <3>1. "question" \in Roles
      BY DEF Roles
    <3> QED
      BY <1>2, <3>1, WritingTyped
  <2>2. snapshot' \in [Sends -> Conversation]
    <3>1. <<>> \in Conversation
      BY EmptySeq DEF Conversation
    <3> QED
      BY <1>1, <3>1 DEF IInv, TypeOK, Conversation, Said
  <2>3. pc' \in [Sends -> ChatLabels]
    BY <1>2 DEF IInv, TypeOK, ChatLabels
  <2> QED
    BY <1>1, <2>1, <2>2, <2>3 DEF IInv, TypeOK, Conversation, Said, ChatLabels
<1>4. ChatInv'
  <2> SUFFICES ASSUME ~disturbed PROVE ChatInv'
    BY DEF ChatInv
  <2>1. messages \in Conversation /\ Paired(messages) /\ Absent(messages, s)
    BY DEF IInv, TypeOK, Conversation, Said, ChatInv, OfMessage
  <2>2. pc'[s] = label
    BY <1>2 DEF IInv, TypeOK
  <2>3. CASE label = "agent"
    <3>1. /\ Paired(messages') /\ EndsWith(messages', s) /\ PendingLast(messages', s)
          /\ LeavesOthers(messages, messages', s)
      BY <1>2, <2>1, <2>3, PlaceholderAppended
    <3>2. OfMessage(s)' /\ Answering(s)'
      BY <2>2, <2>3, <3>1 DEF OfMessage, Waiting, Answering
    <3> QED
      BY <1>1, <1>2, <3>1, <3>2, OwnChatStep DEF ChatLabels
  <2>4. CASE label = "global"
    <3>1. /\ Paired(messages') /\ EndsWith(messages', s) /\ Unanswered(messages', s)
          /\ LeavesOthers(messages, messages', s)
      BY <1>2, <2>1, <2>4, QuestionAppended
    <3>2. OfMessage(s)' /\ Answering(s)'
      BY <2>2, <2>4, <3>1 DEF OfMessage, Waiting, Answering
    <3> QED
      BY <1>1, <1>2, <3>1, <3>2, OwnChatStep DEF ChatLabels
  <2> QED
    BY <2>3, <2>4
<1>5. GuidanceOfSelection' /\ FormInv'
  BY <1>1, FormStays DEF IInv, GuidanceOfSelection
<1> QED
  BY <1>3, <1>4, <1>5 DEF IInv

\* A message is sent: the chat is free, so nothing is being answered.
LEMMA SendInv ==
  ASSUME IInv, NEW s \in Sends, sendChatMessage(s)
  PROVE  IInv'
<1>1. pc[s] = "idle" /\ ~chatLoading
  BY DEF sendChatMessage, ChatFree
<1>2. ~disturbed => \A q \in Sends : ~Answering(q)
  BY <1>1 DEF IInv, ChatInv
<1>3. CASE catalog
  <2>1. begin(s, messages) /\ UNCHANGED <<catalog, disturbed>>
    BY <1>3 DEF sendChatMessage
  <2>2. ~disturbed => \A q \in Sends : ~Busy(q)
    BY <1>2, <1>3 DEF IInv, ChatInv, OfMessage, Busy
  <2>3. messages \in Conversation /\ catalog \in BOOLEAN /\ unlocated' \in SUBSET Sends
    BY DEF sendChatMessage, IInv, TypeOK, Conversation, Said
  <2> QED
    BY <1>1, <2>1, <2>2, <2>3, BeginInv
<1>4. CASE ~catalog
  <2>1. /\ pc' = [pc EXCEPT ![s] = "catalog"]
        /\ snapshot' = [snapshot EXCEPT ![s] = messages]
        /\ disturbed' = (disturbed \/ \E q \in Sends : Waiting(q))
        /\ UNCHANGED <<dialog, catalog, messages, chatLoading, located, choice, form>>
    BY <1>4 DEF sendChatMessage
  <2>2. TypeOK'
    <3>1. pc' \in [Sends -> ChatLabels]
      BY <2>1 DEF IInv, TypeOK, ChatLabels
    <3>2. snapshot' \in [Sends -> Conversation]
      BY <2>1 DEF IInv, TypeOK, Conversation, Said
    <3>3. disturbed' \in BOOLEAN /\ unlocated' \in SUBSET Sends
      BY <2>1 DEF sendChatMessage, IInv, TypeOK
    <3> QED
      BY <2>1, <3>1, <3>2, <3>3 DEF IInv, TypeOK, Conversation, Said, ChatLabels, choice, form
  <2>3. ChatInv'
    <3> SUFFICES ASSUME ~disturbed' PROVE ChatInv'
      BY DEF ChatInv
    <3>1. ~disturbed /\ \A q \in Sends : ~Busy(q)
      BY <1>2, <2>1 DEF Busy
    <3>2. pc'[s] = "catalog" /\ snapshot'[s] = messages
      BY <2>1 DEF IInv, TypeOK
    <3>3. Absent(messages, s) /\ Paired(messages)
      BY <1>1, <3>1 DEF IInv, ChatInv, OfMessage
    <3>4. OfMessage(s)' /\ ~Answering(s)'
      BY <1>4, <2>1, <3>2, <3>3 DEF OfMessage, Waiting, Answering
    <3>5. LeavesOthers(messages, messages', s) /\ Paired(messages')
      BY <2>1, <3>3 DEF LeavesOthers
    <3> QED
      BY <1>1, <2>1, <3>1, <3>4, <3>5, OwnChatStep DEF ChatLabels
  <2>4. GuidanceOfSelection' /\ FormInv'
    BY <2>1, FormStays DEF IInv, choice, form, GuidanceOfSelection
  <2> QED
    BY <2>2, <2>3, <2>4 DEF IInv
<1> QED
  BY <1>3, <1>4

\* The catalog that a message waited for is there, or is not.
LEMMA ResolveInv ==
  ASSUME IInv, NEW s \in Sends, resolveCatalogForSearch(s)
  PROVE  IInv'
<1>1. pc[s] = "catalog" /\ Waiting(s) /\ begin(s, snapshot[s])
      /\ UNCHANGED disturbed /\ unlocated' \in SUBSET Sends
  BY DEF resolveCatalogForSearch, Waiting, IInv, TypeOK
<1>2. snapshot[s] \in Conversation /\ catalog' \in BOOLEAN
  BY DEF resolveCatalogForSearch, IInv, TypeOK, Conversation, Said
<1>3. ~disturbed => snapshot[s] = messages /\ \A q \in Sends : Busy(q) => q = s
  BY <1>1 DEF IInv, ChatInv, OfMessage, Busy
<1> QED
  BY <1>1, <1>2, <1>3, BeginInv

\* An await of a message that writes at most below the conversation, and goes on.
LEMMA GoOnInv ==
  ASSUME IInv, NEW s \in Sends, NEW label \in ChatLabels, Answering(s),
         pc' = [pc EXCEPT ![s] = label],
         messages' \in Conversation, located' \in BOOLEAN, unlocated' \in SUBSET Sends,
         ~disturbed /\ EndsWith(messages, s) /\ Paired(messages) /\ OfMessage(s)
           => Paired(messages') /\ LeavesOthers(messages, messages', s) /\ OfMessage(s)',
         chatLoading' = (chatLoading /\ label \notin {"done", "failed"}),
         label \in {"agent", "stream", "position", "retry", "answers", "done", "failed"},
         selected' \in Services \cup {None}, event' \in BOOLEAN,
         guidance' \in Services \cup {None}, GuidanceOfSelection',
         UNCHANGED <<dialog, catalog, snapshot, disturbed, form>>
  PROVE  IInv'
<1>1. TypeOK'
  <2>1. pc' \in [Sends -> ChatLabels]
    BY DEF IInv, TypeOK, ChatLabels
  <2>2. chatLoading' \in BOOLEAN
    OBVIOUS
  <2> QED
    BY <2>1, <2>2 DEF IInv, TypeOK, Conversation, Said, ChatLabels, form
<1>2. ChatInv'
  <2> SUFFICES ASSUME ~disturbed PROVE ChatInv'
    BY DEF ChatInv
  <2>1. \A q \in Sends : Busy(q) => q = s
    BY DEF IInv, ChatInv, Busy
  <2>2. EndsWith(messages, s) /\ Paired(messages) /\ OfMessage(s) /\ chatLoading
    BY DEF IInv, ChatInv, OfMessage
  <2>3. pc'[s] = label
    BY DEF IInv, TypeOK
  <2>4. chatLoading' <=> Answering(s)'
    BY <2>2, <2>3 DEF Answering
  <2> QED
    BY <2>1, <2>2, <2>4, OwnChatStep
<1>3. FormInv'
  BY FormStays DEF IInv, form
<1> QED
  BY <1>1, <1>2, <1>3 DEF IInv

\* Such an await that leaves the choice alone.
LEMMA ChoiceStays ==
  ASSUME IInv, UNCHANGED choice
  PROVE  /\ selected' \in Services \cup {None} /\ event' \in BOOLEAN
         /\ guidance' \in Services \cup {None} /\ GuidanceOfSelection'
BY DEF IInv, TypeOK, choice, GuidanceOfSelection

\* An await that leaves the conversation alone keeps what is known of it.
LEMMA ConversationStays ==
  ASSUME NEW s \in Sends, NEW label \in {"stream", "position", "retry", "answers", "failed"},
         pc'[s] = label, messages' = messages, Paired(messages), EndsWith(messages, s),
         PendingLast(messages, s)
  PROVE  Paired(messages') /\ LeavesOthers(messages, messages', s) /\ OfMessage(s)'
<1>1. PendingAbove(messages, s)
  <2>1. ASSUME NEW i \in 1..Len(messages), Pending(messages, s, i) PROVE i = Len(messages)
    BY <2>1 DEF PendingLast
  <2> QED
    BY <2>1 DEF PendingAbove
<1> QED
  BY <1>1 DEF LeavesOthers, OfMessage, Waiting, Answering

\* The global catalog is there: the placeholder goes below the question.
LEMMA GlobalInv ==
  ASSUME IInv, NEW s \in Sends, resolveGlobalCatalogForSearch(s)
  PROVE  IInv'
<1>1. /\ pc[s] = "global" /\ Answering(s)
      /\ messages' = Append(messages, Message(s, "pending"))
      /\ pc' = [pc EXCEPT ![s] = "agent"]
      /\ UNCHANGED <<dialog, catalog, chatLoading, located, unlocated, snapshot, disturbed, choice, form>>
  BY DEF resolveGlobalCatalogForSearch, Answering
<1>2. messages \in Conversation /\ "pending" \in Roles /\ pc'[s] = "agent"
  BY <1>1 DEF IInv, TypeOK, Conversation, Said, Roles
<1>3. messages' \in Conversation
  BY <1>1, <1>2, WritingTyped
<1>4. ASSUME EndsWith(messages, s), Paired(messages), OfMessage(s)
      PROVE  Paired(messages') /\ LeavesOthers(messages, messages', s) /\ OfMessage(s)'
  <2>1. Unanswered(messages, s)
    BY <1>1, <1>4 DEF OfMessage
  <2>2. /\ Paired(messages') /\ EndsWith(messages', s) /\ LeavesOthers(messages, messages', s)
        /\ PendingLast(messages', s)
    BY <1>1, <1>2, <1>4, <2>1, AnswerAppended
  <2> QED
    BY <1>2, <2>2 DEF OfMessage, Waiting, Answering
<1>5. chatLoading \in BOOLEAN /\ located \in BOOLEAN /\ unlocated \in SUBSET Sends
  BY DEF IInv, TypeOK
<1> QED
  BY <1>1, <1>3, <1>4, <1>5, ChoiceStays, GoOnInv DEF ChatLabels

\* The agent or the streamed chat rewrites the end of the conversation, or does not.
LEMMA PartialInv ==
  ASSUME IInv, NEW s \in Sends, pc[s] \in {"agent", "stream"},
         NEW label \in {"stream", "position", "answers"},
         pc' = [pc EXCEPT ![s] = label],
         messages' \in {messages, Rewritten(messages, s)},
         UNCHANGED <<dialog, catalog, chatLoading, located, unlocated, snapshot, disturbed, choice, form>>
  PROVE  IInv'
<1>1. messages \in Conversation /\ Answering(s) /\ pc'[s] = label
  BY DEF IInv, TypeOK, Conversation, Said, Answering
<1>2. messages' \in Conversation
  BY <1>1, WritingTyped
<1>3. ASSUME EndsWith(messages, s), Paired(messages), OfMessage(s)
      PROVE  Paired(messages') /\ LeavesOthers(messages, messages', s) /\ OfMessage(s)'
  <2>1. messages' = messages
    BY <1>1, <1>3, RewrittenSame
  <2>2. PendingLast(messages, s)
    BY <1>3 DEF OfMessage
  <2> QED
    BY <1>1, <1>3, <2>1, <2>2, ConversationStays
<1>4. chatLoading \in BOOLEAN /\ located \in BOOLEAN /\ unlocated \in SUBSET Sends
  BY DEF IInv, TypeOK
<1> QED
  BY <1>1, <1>2, <1>3, <1>4, ChoiceStays, GoOnInv DEF ChatLabels

\* The answers of the agent and of the streamed chat.
LEMMA AnswersInv ==
  ASSUME IInv, NEW s \in Sends, agentAnswers(s) \/ requestChatReplyStreaming(s)
  PROVE  IInv'
<1>1. PICK label \in {"stream", "position", "answers"} :
        /\ pc[s] \in {"agent", "stream"}
        /\ pc' = [pc EXCEPT ![s] = label]
        /\ messages' \in {messages, Rewritten(messages, s)}
        /\ UNCHANGED <<dialog, catalog, chatLoading, located, unlocated, snapshot, disturbed, choice, form>>
  BY DEF agentAnswers, requestChatReplyStreaming, AskPosition, Go
<1> QED
  BY <1>1, PartialInv

\* The browser tells the position, or refuses it and the conversation says so.
LEMMA GeoInv ==
  ASSUME IInv, NEW s \in Sends, requestGeoContext(s)
  PROVE  IInv'
<1>1. /\ pc[s] = "position" /\ Answering(s)
      /\ UNCHANGED <<dialog, catalog, chatLoading, unlocated, snapshot, disturbed, choice, form>>
      /\ messages \in Conversation /\ "location" \in Roles
      /\ chatLoading \in BOOLEAN /\ located' \in BOOLEAN /\ unlocated \in SUBSET Sends
  BY DEF requestGeoContext, Answering, IInv, TypeOK, Conversation, Said, Roles
<1>2. CASE located' = TRUE /\ Go(s, "retry") /\ UNCHANGED messages
  <2>1. pc'[s] = "retry" /\ pc' = [pc EXCEPT ![s] = "retry"]
    BY <1>2 DEF Go, IInv, TypeOK
  <2>2. ASSUME EndsWith(messages, s), Paired(messages), OfMessage(s)
        PROVE  Paired(messages') /\ LeavesOthers(messages, messages', s) /\ OfMessage(s)'
    <3>1. PendingLast(messages, s)
      BY <1>1, <2>2 DEF OfMessage
    <3> QED
      BY <1>2, <2>1, <2>2, <3>1, ConversationStays
  <2> QED
    BY <1>1, <1>2, <2>1, <2>2, ChoiceStays, GoOnInv DEF ChatLabels
<1>3. CASE /\ located' \in {located, TRUE} /\ Go(s, "answers")
           /\ messages' = Append(messages, Message(s, "location"))
  <2>1. pc'[s] = "answers" /\ pc' = [pc EXCEPT ![s] = "answers"]
    BY <1>3 DEF Go, IInv, TypeOK
  <2>2. messages' \in Conversation
    BY <1>1, <1>3, WritingTyped
  <2>3. ASSUME EndsWith(messages, s), Paired(messages), OfMessage(s)
        PROVE  Paired(messages') /\ LeavesOthers(messages, messages', s) /\ OfMessage(s)'
    <3>1. PendingLast(messages, s)
      BY <1>1, <2>3 DEF OfMessage
    <3>2. /\ Paired(messages') /\ EndsWith(messages', s) /\ LeavesOthers(messages, messages', s)
          /\ PendingAbove(messages', s)
      BY <1>1, <1>3, <2>3, <3>1, AnswerAppended
    <3> QED
      BY <2>1, <3>2 DEF OfMessage, Waiting, Answering
  <2> QED
    BY <1>1, <1>3, <2>1, <2>2, <2>3, ChoiceStays, GoOnInv DEF ChatLabels
<1> QED
  BY <1>2, <1>3 DEF requestGeoContext

\* The retry goes on, or its failure frees the chat.
LEMMA RetryInv ==
  ASSUME IInv, NEW s \in Sends, retryWithPosition(s)
  PROVE  IInv'
<1>1. PICK label \in {"answers", "failed"} :
        /\ pc[s] = "retry" /\ Answering(s)
        /\ pc' = [pc EXCEPT ![s] = label]
        /\ chatLoading' = (chatLoading /\ label \notin {"done", "failed"})
        /\ UNCHANGED <<dialog, catalog, messages, located, unlocated, snapshot, disturbed, choice, form>>
  BY DEF retryWithPosition, Go, Answering, IInv, TypeOK
<1>2. pc'[s] = label /\ messages' \in Conversation /\ located' \in BOOLEAN /\ unlocated' \in SUBSET Sends
  BY <1>1 DEF IInv, TypeOK, Conversation, Said
<1>3. ASSUME EndsWith(messages, s), Paired(messages), OfMessage(s)
      PROVE  Paired(messages') /\ LeavesOthers(messages, messages', s) /\ OfMessage(s)'
  <2>1. PendingLast(messages, s)
    BY <1>1, <1>3 DEF OfMessage
  <2> QED
    BY <1>1, <1>2, <1>3, <2>1, ConversationStays
<1> QED
  BY <1>1, <1>2, <1>3, ChoiceStays, GoOnInv DEF ChatLabels

\* The reply is written and the chat is free; guidance that comes with it is about the
\* service suggested, and nothing stays chosen.
LEMMA ShortlistInv ==
  ASSUME IInv, NEW s \in Sends, showShortlist(s)
  PROVE  IInv'
<1>1. /\ pc[s] = "answers" /\ Answering(s)
      /\ messages' = Answered(messages, s)
      /\ pc' = [pc EXCEPT ![s] = "done"]
      /\ chatLoading' = FALSE
      /\ UNCHANGED <<dialog, catalog, located, unlocated, snapshot, disturbed, form>>
  BY DEF showShortlist, Go, Answering
<1>2. messages \in Conversation /\ pc'[s] = "done" /\ located' \in BOOLEAN /\ unlocated' \in SUBSET Sends
  BY <1>1 DEF IInv, TypeOK, Conversation, Said
<1>3. messages' \in Conversation
  BY <1>1, <1>2, WritingTyped
<1>4. ASSUME EndsWith(messages, s), Paired(messages), OfMessage(s)
      PROVE  Paired(messages') /\ LeavesOthers(messages, messages', s) /\ OfMessage(s)'
  <2>1. PendingAbove(messages, s)
    BY <1>1, <1>4 DEF OfMessage
  <2>2. Paired(messages') /\ Settled(messages', s) /\ LeavesOthers(messages, messages', s)
    BY <1>1, <1>2, <1>4, <2>1, ReplyWritten
  <2> QED
    BY <1>2, <2>2 DEF OfMessage, Waiting, Answering
<1>5. /\ selected' \in Services \cup {None} /\ event' \in BOOLEAN
      /\ guidance' \in Services \cup {None} /\ GuidanceOfSelection'
  BY DEF showShortlist, SelectionAfterShortlist, IInv, TypeOK, GuidanceOfSelection
<1> QED
  BY <1>1, <1>2, <1>3, <1>4, <1>5, GoOnInv DEF ChatLabels

-------------------------------------------------------------------------------
\* What opens and closes the dialog, and what is chosen in it, leaves the chat alone,
\* and the form too but for the booking it shows.
LEMMA DialogInv ==
  ASSUME IInv, \/ openDialog \/ closeDialog
               \/ handleSelectService \/ handleSelectEvent \/ removeEvent
  PROVE  IInv'
<1>1. /\ UNCHANGED <<catalog, chat, loading, stage, rich>>
      /\ result' \in {result, None}
      /\ dialog' \in {"closed", "loading", "open"}
      /\ selected' \in Services \cup {None} /\ event' \in BOOLEAN
      /\ guidance' \in Services \cup {None}
      /\ GuidanceOfSelection'
  <2>1. CASE openDialog \/ closeDialog
    BY <2>1 DEF openDialog, closeDialog, choice, form, IInv, TypeOK, GuidanceOfSelection
  <2>2. CASE handleSelectService
    BY <2>2, NoneAssumption DEF handleSelectService, LockAfterSelection, IInv, TypeOK,
       GuidanceOfSelection
  <2>3. CASE handleSelectEvent
    BY <2>3 DEF handleSelectEvent, IInv, TypeOK, GuidanceOfSelection
  <2>4. CASE removeEvent
    BY <2>4 DEF removeEvent, form, IInv, TypeOK, GuidanceOfSelection
  <2> QED
    BY <2>1, <2>2, <2>3, <2>4
<1>2. TypeOK'
  BY <1>1 DEF IInv, TypeOK, chat
<1>3. ChatInv'
  BY <1>1, ChatStays DEF IInv, chat
<1>4. FormInv'
  BY <1>1 DEF IInv, FormInv, FormLocked, OneSubmissionAtATime, OnlyEventsLeaveLock, InFlight
<1> QED
  BY <1>1, <1>2, <1>3, <1>4 DEF IInv

\* The way back to the main screen opens the form: a booking is shown, so none is made.
LEMMA ReturnInv ==
  ASSUME IInv, returnToMainBookedAiScreen
  PROVE  IInv'
<1>1. /\ result # None /\ result' = None /\ loading' = FALSE /\ dialog' = "closed"
      /\ UNCHANGED <<catalog, chat, choice, stage, rich>>
  BY DEF returnToMainBookedAiScreen
<1>2. TypeOK'
  BY <1>1 DEF IInv, TypeOK, chat, choice
<1>3. ChatInv'
  BY <1>1, ChatStays DEF IInv, chat
<1>4. \A b \in Submissions : ~InFlight(b) /\ ~InFlight(b)'
  BY <1>1 DEF IInv, FormInv, FormLocked, InFlight
<1>5. FormInv' /\ GuidanceOfSelection'
  BY <1>1, <1>4 DEF IInv, FormInv, FormLocked, OneSubmissionAtATime, OnlyEventsLeaveLock, choice,
     GuidanceOfSelection
<1> QED
  BY <1>2, <1>3, <1>5 DEF IInv

\* A step of a submission to the stage given.
LEMMA SubmissionInv ==
  ASSUME IInv, NEW b \in Submissions, NEW label \in StageLabels,
         stage' = [stage EXCEPT ![b] = label],
         UNCHANGED <<dialog, catalog, chat, choice>>,
         rich' \in [Submissions -> BOOLEAN],
         loading' \in BOOLEAN, result' \in Submissions \cup {None},
         \A a \in Submissions : InFlight(a) => a = b,
         label \in {"event", "intent", "session", "automation", "legacy"} => loading' /\ result' = None,
         loading' => label \in {"event", "intent", "session", "automation", "legacy",
                                "event booked", "event lost"}
  PROVE  IInv'
<1>1. stage'[b] = label /\ \A a \in Submissions \ {b} : stage'[a] = stage[a]
  BY DEF IInv, TypeOK
<1>2. TypeOK'
  <2>1. stage' \in [Submissions -> StageLabels]
    BY DEF IInv, TypeOK, StageLabels
  <2> QED
    BY <2>1 DEF IInv, TypeOK, StageLabels, chat, choice
<1>3. ChatInv' /\ GuidanceOfSelection'
  BY ChatStays DEF IInv, chat, choice, GuidanceOfSelection
<1>4. \A a \in Submissions : InFlight(a)' => a = b
  BY <1>1 DEF InFlight
<1>5. FormInv'
  BY <1>1, <1>4 DEF FormInv, FormLocked, OneSubmissionAtATime, OnlyEventsLeaveLock, InFlight
<1> QED
  BY <1>2, <1>3, <1>5 DEF IInv

\* A form is submitted: it was open, so nothing is under way.
LEMMA SubmitInv ==
  ASSUME IInv, NEW b \in Submissions, handleSubmit(b)
  PROVE  IInv'
<1>1. PICK label \in {"intent", "event"} :
        /\ stage' = [stage EXCEPT ![b] = label]
        /\ ~loading /\ result = None /\ loading' = TRUE
        /\ UNCHANGED <<dialog, catalog, chat, choice, result>>
  BY DEF handleSubmit, To
<1>2. rich' \in [Submissions -> BOOLEAN]
  BY DEF handleSubmit, IInv, TypeOK
<1>3. \A a \in Submissions : ~InFlight(a)
  BY <1>1 DEF IInv, FormInv, FormLocked
<1>4. label \in StageLabels /\ result' \in Submissions \cup {None}
  BY <1>1 DEF StageLabels
<1> QED
  BY <1>1, <1>2, <1>3, <1>4, SubmissionInv

\* What a submission under way knows.
LEMMA UnderWay ==
  ASSUME IInv, NEW b \in Submissions, InFlight(b)
  PROVE  /\ loading /\ result = None /\ loading \in BOOLEAN
         /\ rich \in [Submissions -> BOOLEAN]
         /\ \A a \in Submissions : InFlight(a) => a = b
BY DEF IInv, TypeOK, FormInv, FormLocked, OneSubmissionAtATime

\* The awaits of a submission.
LEMMA FormAwaitsInv ==
  ASSUME IInv, NEW b \in Submissions,
         \/ eventSession(b) \/ bookingIntent(b) \/ requestLegacyBookingSession(b)
         \/ runPostBookingAutomation(b) \/ legacySession(b)
  PROVE  IInv'
<1>1. InFlight(b)
  BY DEF eventSession, bookingIntent, requestLegacyBookingSession, runPostBookingAutomation,
         legacySession, InFlight
<1>2. PICK label \in StageLabels :
        /\ stage' = [stage EXCEPT ![b] = label]
        /\ UNCHANGED <<dialog, catalog, chat, choice, rich>>
        /\ \/ /\ label \in {"session", "automation", "legacy"}
              /\ UNCHANGED <<loading, result>>
           \/ label \in {"booked", "refused"} /\ loading' = FALSE /\ result' \in {b, result}
           \/ /\ label \in {"event booked", "event lost"}
              /\ UNCHANGED loading /\ result' \in {b, result}
  <2>1. CASE eventSession(b)
    BY <2>1 DEF eventSession, To, StageLabels
  <2>2. CASE bookingIntent(b)
    BY <2>2 DEF bookingIntent, To, fallBack, refuse, LockAfterError, StageLabels
  <2>3. CASE requestLegacyBookingSession(b)
    BY <2>3 DEF requestLegacyBookingSession, To, fallBack, refuse, LockAfterError, StageLabels
  <2>4. CASE runPostBookingAutomation(b)
    BY <2>4 DEF runPostBookingAutomation, To, confirm, StageLabels
  <2>5. CASE legacySession(b)
    BY <2>5 DEF legacySession, To, confirm, refuse, LockAfterError, StageLabels
  <2> QED
    BY <2>1, <2>2, <2>3, <2>4, <2>5
<1>3. /\ loading /\ result = None /\ loading \in BOOLEAN
      /\ rich' \in [Submissions -> BOOLEAN]
      /\ \A a \in Submissions : InFlight(a) => a = b
  BY <1>1, <1>2, UnderWay
<1>4. loading' \in BOOLEAN /\ result' \in Submissions \cup {None}
  BY <1>2, <1>3
<1>5. label \in {"event", "intent", "session", "automation", "legacy"} => loading' /\ result' = None
  BY <1>2, <1>3
<1>6. loading' => label \in {"event", "intent", "session", "automation", "legacy",
                             "event booked", "event lost"}
  BY <1>2
<1> QED
  BY <1>2, <1>3, <1>4, <1>5, <1>6, SubmissionInv

-------------------------------------------------------------------------------
\* Every step keeps the invariant.
LEMMA NextIInv == IInv /\ [Next]_vars => IInv'
<1> SUFFICES ASSUME IInv, [Next]_vars PROVE IInv'
  OBVIOUS
<1>1. CASE UNCHANGED vars
  <2>1. TypeOK'
    <3>1. /\ UNCHANGED <<dialog, catalog, messages, chatLoading, located, unlocated, pc,
                         snapshot, disturbed>>
          /\ UNCHANGED <<selected, event, guidance, loading, stage, rich, result>>
      BY <1>1 DEF vars, chat, choice, form
    <3> QED
      BY <3>1, Zenon DEF IInv, TypeOK
  <2>2. ChatInv' /\ FormInv' /\ GuidanceOfSelection'
    BY <1>1, ChatStays, FormStays DEF vars, IInv, chat, choice, form, GuidanceOfSelection
  <2> QED
    BY <2>1, <2>2 DEF IInv
<1>2. ASSUME NEW s \in Sends, ChatStep(s) PROVE IInv'
  BY <1>2, SendInv, ResolveInv, GlobalInv, AnswersInv, GeoInv, RetryInv, ShortlistInv DEF ChatStep
<1>3. ASSUME NEW b \in Submissions, FormStep(b) PROVE IInv'
  BY <1>3, SubmitInv, FormAwaitsInv DEF FormStep
<1>4. CASE Next
  BY <1>2, <1>3, <1>4, LoadInv, DialogInv, ReturnInv DEF Next
<1> QED
  BY <1>1, <1>4

\* The invariant holds of every reachable state.
LEMMA Invariance == Spec => []IInv
  BY InitIInv, NextIInv, PTL DEF Spec

\* Every variable has its type; what a message writes into is always a conversation.
THEOREM TypeCorrect == Spec => []TypeOK
<1>1. IInv => TypeOK
  BY DEF IInv
<1> QED
  BY <1>1, Invariance, PTL

\* Unless the conversation was disturbed, no reply stands under another's question.
THEOREM ReplyUnderItsQuestion == Spec => []AnswersUnderQuestion
<1>1. IInv => AnswersUnderQuestion
  BY DEF IInv, ChatInv, AnswersUnderQuestion, Paired
<1> QED
  BY <1>1, Invariance, PTL

\* Unless it was disturbed, the placeholder of a message that is done is above its reply.
THEOREM PlaceholderAnswered == Spec => []NoPlaceholderLeft
<1>1. IInv => NoPlaceholderLeft
  <2> SUFFICES ASSUME IInv, ~disturbed, NEW i \in 1..Len(messages),
                      messages[i].role = "pending", pc[messages[i].of] = "done"
               PROVE  i < Len(messages) /\ messages[i + 1] = Message(messages[i].of, "reply")
    BY DEF NoPlaceholderLeft
  <2>1. PICK s \in Sends : s = messages[i].of
    <3>1. messages[i] \in Said
      BY ElementOfSeq DEF IInv, TypeOK, Said
    <3> QED
      BY <3>1 DEF Said
  <2>2. Settled(messages, s)
    BY <2>1 DEF IInv, ChatInv, OfMessage
  <2> QED
    BY <2>1, <2>2 DEF Settled, Pending
<1> QED
  BY <1>1, Invariance, PTL

\* Unless it was disturbed, the chat is locked exactly while a message is answered.
THEOREM ChatLockHolds == Spec => []ChatLockedWhileAnswering
<1>1. IInv => ChatLockedWhileAnswering
  BY DEF IInv, ChatInv, ChatLockedWhileAnswering
<1> QED
  BY <1>1, Invariance, PTL

\* The guidance beside the form is about the service in it.
THEOREM GuidanceFitsSelection == Spec => []GuidanceOfSelection
<1>1. IInv => GuidanceOfSelection
  BY DEF IInv
<1> QED
  BY <1>1, Invariance, PTL

\* Two submissions are never under way together.
THEOREM SubmissionsDoNotOverlap == Spec => []OneSubmissionAtATime
<1>1. IInv => OneSubmissionAtATime
  BY DEF IInv, FormInv
<1> QED
  BY <1>1, Invariance, PTL

\* Only the submission of an event leaves the form locked.
THEOREM LockLeftByEvents == Spec => []OnlyEventsLeaveLock
<1>1. IInv => OnlyEventsLeaveLock
  BY DEF IInv, FormInv
<1> QED
  BY <1>1, Invariance, PTL
================================================================================
