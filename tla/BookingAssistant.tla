--------------------------- MODULE BookingAssistant ---------------------------
(***************************************************************************)
(* The booking assistant dialog: a chat that searches, and a form that     *)
(* books what was chosen in it.                                            *)
(*                                                                         *)
(* The chat is one asynchronous function over the dialog's state.  It      *)
(* writes the conversation it saw when it was called, locks the chat only  *)
(* after it has waited for the catalog, and answers by rewriting the last  *)
(* message.  The catalog that the dialog loads whenever it opens clears    *)
(* the conversation.                                                       *)
(***************************************************************************)
EXTENDS Sequences, Naturals

CONSTANTS
  Sends,        \* messages of the visitor, each sent once
  Submissions,  \* submitted booking forms
  Services,
  None

ASSUME NoneAssumption == None \notin Sends \cup Submissions \cup Services

VARIABLES
  dialog,       \* "loading" is open, with the request for the catalog under way
  catalog,      \* some catalog is there
  messages,     \* the conversation
  chatLoading, loading,
  selected, event,  \* what is to be booked: a service, else an event
  guidance,     \* liveReadSummary, by the service it is about
  located,      \* the browser has granted or denied the visitor's position
  unlocated,    \* messages sent before that
  pc,           \* next await of each message
  snapshot,     \* the conversation that a message which waits for the catalog has seen
  stage, rich,  \* next await of each submission; it is to be hydrated by a session
  result,       \* the booking shown
  disturbed     \* history: messages waited for the catalog together, or a catalog
                \* arrived under a message

chat == <<messages, chatLoading, located, unlocated, pc, snapshot, disturbed>>
form == <<loading, stage, rich, result>>
choice == <<selected, event, guidance>>
vars == <<dialog, catalog, chat, choice, form>>

Message(s, role) == [of |-> s, role |-> role]

Init ==
  /\ dialog = "closed" /\ catalog = FALSE
  /\ messages = <<>>
  /\ chatLoading = FALSE /\ loading = FALSE
  /\ selected = None /\ event = FALSE /\ guidance = None
  /\ located = FALSE /\ unlocated = {}
  /\ pc = [s \in Sends |-> "idle"]
  /\ snapshot = [s \in Sends |-> <<>>]
  /\ stage = [b \in Submissions |-> "idle"]
  /\ rich = [b \in Submissions |-> FALSE]
  /\ result = None
  /\ disturbed = FALSE

Waiting(s) == pc[s] = "catalog"
Answering(s) == pc[s] \in {"global", "agent", "stream", "position", "retry", "answers"}

-------------------------------------------------------------------------------
openDialog ==
  /\ dialog = "closed" /\ dialog' = "loading"
  /\ UNCHANGED <<catalog, chat, choice, form>>

closeDialog ==
  /\ dialog # "closed" /\ dialog' = "closed"
  /\ UNCHANGED <<catalog, chat, choice, form>>

\* The catalog, or the built-in one after a failure; closing the dialog cancels it.
loadCatalog ==
  /\ dialog = "loading" /\ dialog' = "open"
  /\ catalog' = TRUE
  /\ messages' = <<>>
  /\ disturbed' = (disturbed \/ \E s \in Sends : Waiting(s) \/ Answering(s))
  /\ UNCHANGED <<chatLoading, located, unlocated, pc, snapshot, choice, form>>

-------------------------------------------------------------------------------
\* Mutant: the placeholder is added to the conversation as it was before the question.
StalePlaceholder(before, s) == Append(before, Message(s, "pending"))

WithPlaceholder(before, s) ==
  before \o <<Message(s, "question"), Message(s, "pending")>>

\* Without a match in its own catalog a tenant's assistant asks for the global one.
begin(s, before) ==
  /\ chatLoading' = TRUE
  /\ selected' = None /\ event' = FALSE /\ guidance' = None
  /\ snapshot' = [snapshot EXCEPT ![s] = <<>>]
  /\ \/ /\ messages' = WithPlaceholder(before, s)
        /\ pc' = [pc EXCEPT ![s] = "agent"]
     \/ /\ messages' = Append(before, Message(s, "question"))
        /\ pc' = [pc EXCEPT ![s] = "global"]
  /\ UNCHANGED <<dialog, located, form>>

\* Mutant: the chat takes a message while it answers another one.
AlwaysFree == TRUE

ChatFree == ~chatLoading

sendChatMessage(s) ==
  /\ pc[s] = "idle" /\ dialog # "closed" /\ ChatFree
  /\ unlocated' = IF located THEN unlocated ELSE unlocated \cup {s}
  /\ IF catalog
     THEN begin(s, messages) /\ UNCHANGED <<catalog, disturbed>>
     ELSE /\ pc' = [pc EXCEPT ![s] = "catalog"]
          /\ snapshot' = [snapshot EXCEPT ![s] = messages]
          /\ disturbed' = (disturbed \/ \E q \in Sends : Waiting(q))
          /\ UNCHANGED <<dialog, catalog, messages, chatLoading, located, choice, form>>

\* Without a catalog the message goes on as well.
resolveCatalogForSearch(s) ==
  /\ Waiting(s)
  /\ catalog' \in {catalog, TRUE}
  /\ begin(s, snapshot[s])
  /\ UNCHANGED <<unlocated, disturbed>>

resolveGlobalCatalogForSearch(s) ==
  /\ pc[s] = "global"
  /\ messages' = Append(messages, Message(s, "pending"))
  /\ pc' = [pc EXCEPT ![s] = "agent"]
  /\ UNCHANGED <<dialog, catalog, chatLoading, located, unlocated, snapshot, disturbed,
                 choice, form>>

EndsWithAnswer(m) == m # <<>> /\ m[Len(m)].role # "question"

\* A partial or early answer replaces the text of the last message of the assistant.
Rewritten(m, s) == IF EndsWithAnswer(m) THEN [m EXCEPT ![Len(m)].of = s] ELSE m

\* Mutant: the final answer is added under whatever is there, and the placeholder stays.
AppendedReply(m, s) == Append(m, Message(s, "reply"))

Answered(m, s) ==
  IF EndsWithAnswer(m) THEN [m EXCEPT ![Len(m)] = Message(s, "reply")]
                       ELSE Append(m, Message(s, "reply"))

Go(s, label) == pc' = [pc EXCEPT ![s] = label]

\* With the answer of the agent or of the chat: a position may be asked for, unless the
\* message was sent when the browser had already granted or denied it.
AskPosition(s) == \/ Go(s, "answers")
                  \/ s \in unlocated /\ Go(s, "position")

\* The turn of the agent counts for nothing if it is late.
agentAnswers(s) ==
  /\ pc[s] = "agent"
  /\ \/ messages' = Rewritten(messages, s) /\ AskPosition(s)
     \/ Go(s, "stream") /\ UNCHANGED messages
  /\ UNCHANGED <<dialog, catalog, chatLoading, located, unlocated, snapshot, disturbed,
                 choice, form>>

\* Tokens rewrite the message of the assistant until the answer is complete, or fails
\* and is made up.
requestChatReplyStreaming(s) ==
  /\ pc[s] = "stream"
  /\ messages' \in {messages, Rewritten(messages, s)}
  /\ Go(s, "stream") \/ AskPosition(s)
  /\ UNCHANGED <<dialog, catalog, chatLoading, located, unlocated, snapshot, disturbed,
                 choice, form>>

\* Granted, denied, or a browser without positions, which will be asked again.
requestGeoContext(s) ==
  /\ pc[s] = "position"
  /\ \/ located' = TRUE /\ Go(s, "retry") /\ UNCHANGED messages
     \/ /\ located' \in {located, TRUE} /\ Go(s, "answers")
        /\ messages' = Append(messages, Message(s, "location"))
  /\ UNCHANGED <<dialog, catalog, chatLoading, unlocated, snapshot, disturbed, choice, form>>

\* The agent again, else the chat with the position, whose failure is not caught here.
retryWithPosition(s) ==
  /\ pc[s] = "retry"
  /\ \/ Go(s, "answers") /\ UNCHANGED chatLoading
     \/ Go(s, "failed") /\ chatLoading' = FALSE
  /\ UNCHANGED <<dialog, catalog, messages, located, unlocated, snapshot, disturbed,
                 choice, form>>

\* Mutant: the shortlist arrives under the choice the visitor has made meanwhile.
KeepSelection == selected

\* The live read, the shadow search and the legacy chat are each given up after some
\* time.  A suggestion brings the guidance of its booking path; the visitor chooses anew.
SelectionAfterShortlist == None

showShortlist(s) ==
  /\ pc[s] = "answers"
  /\ messages' = Answered(messages, s)
  /\ \/ \E suggested \in Services : /\ guidance' \in {suggested, None}
                                    /\ selected' = SelectionAfterShortlist
     \/ guidance' = None /\ selected' \in {selected, None}
  /\ event' \in {event, FALSE}
  /\ chatLoading' = FALSE
  /\ Go(s, "done")
  /\ UNCHANGED <<dialog, catalog, located, unlocated, snapshot, disturbed, form>>

-------------------------------------------------------------------------------
\* Mutant: choosing another service opens the form again.
UnlockedBySelection == FALSE

LockAfterSelection == loading

handleSelectService ==
  /\ dialog # "closed" /\ messages # <<>>
  /\ \E v \in Services : selected' = v /\ guidance' = IF guidance = v THEN v ELSE None
  /\ event' = FALSE
  /\ result' = None
  /\ loading' = LockAfterSelection
  /\ UNCHANGED <<dialog, catalog, chat, stage, rich>>

handleSelectEvent ==
  /\ dialog # "closed" /\ messages # <<>>
  /\ selected' = None /\ event' = TRUE
  /\ result' = None
  /\ UNCHANGED <<dialog, catalog, chat, guidance, loading, stage, rich>>

\* The "Remove event link" button.
removeEvent ==
  /\ event /\ event' = FALSE
  /\ UNCHANGED <<dialog, catalog, chat, selected, guidance, form>>

returnToMainBookedAiScreen ==
  /\ dialog # "closed" /\ result # None
  /\ result' = None /\ loading' = FALSE /\ dialog' = "closed"
  /\ UNCHANGED <<catalog, chat, choice, stage, rich>>

To(b, label) == stage' = [stage EXCEPT ![b] = label]

handleSubmit(b) ==
  /\ stage[b] = "idle" /\ dialog # "closed"
  /\ ~loading /\ result = None
  /\ loading' = TRUE
  /\ \/ selected # None /\ To(b, "intent")
     \/ selected = None /\ event /\ To(b, "event")
  /\ \E r \in BOOLEAN : /\ r => selected # None /\ guidance = selected
                        /\ rich' = [rich EXCEPT ![b] = r]
  /\ UNCHANGED <<dialog, catalog, chat, choice, result>>

\* The promise of an event's session is not under the try of the rest: neither its
\* success nor its failure opens the form.
eventSession(b) ==
  /\ stage[b] = "event"
  /\ \/ result' = b /\ To(b, "event booked")
     \/ UNCHANGED result /\ To(b, "event lost")
  /\ UNCHANGED <<dialog, catalog, chat, choice, loading, rich>>

\* An error of the server or the network goes on to the legacy session; a request
\* that was refused, or that timed out, ends the submission.
fallBack(b) == To(b, "legacy") /\ UNCHANGED <<loading, result>>

\* Mutant: a refused submission leaves the form locked.
LockAfterRefusal == loading

LockAfterError == FALSE

refuse(b) == To(b, "refused") /\ loading' = LockAfterError /\ UNCHANGED result

confirm(b) == To(b, "booked") /\ loading' = FALSE /\ result' = b

bookingIntent(b) ==
  /\ stage[b] = "intent"
  /\ \/ To(b, IF rich[b] THEN "session" ELSE "automation") /\ UNCHANGED <<loading, result>>
     \/ fallBack(b) \/ refuse(b)
  /\ UNCHANGED <<dialog, catalog, chat, choice, rich>>

requestLegacyBookingSession(b) ==
  /\ stage[b] = "session"
  /\ \/ To(b, "automation") /\ UNCHANGED <<loading, result>>
     \/ fallBack(b) \/ refuse(b)
  /\ UNCHANGED <<dialog, catalog, chat, choice, rich>>

runPostBookingAutomation(b) ==
  /\ stage[b] = "automation"
  /\ confirm(b)
  /\ UNCHANGED <<dialog, catalog, chat, choice, rich>>

legacySession(b) ==
  /\ stage[b] = "legacy"
  /\ confirm(b) \/ refuse(b)
  /\ UNCHANGED <<dialog, catalog, chat, choice, rich>>

-------------------------------------------------------------------------------
ChatStep(s) ==
  \/ sendChatMessage(s) \/ resolveCatalogForSearch(s) \/ resolveGlobalCatalogForSearch(s)
  \/ agentAnswers(s) \/ requestChatReplyStreaming(s) \/ requestGeoContext(s)
  \/ retryWithPosition(s) \/ showShortlist(s)

FormStep(b) ==
  \/ handleSubmit(b) \/ eventSession(b) \/ bookingIntent(b) \/ requestLegacyBookingSession(b)
  \/ runPostBookingAutomation(b) \/ legacySession(b)

Next ==
  \/ openDialog \/ closeDialog \/ loadCatalog
  \/ handleSelectService \/ handleSelectEvent \/ removeEvent
  \/ returnToMainBookedAiScreen
  \/ \E s \in Sends : ChatStep(s)
  \/ \E b \in Submissions : FormStep(b)

Spec == Init /\ [][Next]_vars
-------------------------------------------------------------------------------
Roles == {"question", "pending", "location", "reply"}

\* Every variable has its type.
TypeOK ==
  /\ dialog \in {"closed", "loading", "open"} /\ catalog \in BOOLEAN
  /\ messages \in Seq([of: Sends, role: Roles])
  /\ chatLoading \in BOOLEAN /\ loading \in BOOLEAN
  /\ selected \in Services \cup {None} /\ event \in BOOLEAN
  /\ guidance \in Services \cup {None}
  /\ located \in BOOLEAN /\ unlocated \in SUBSET Sends
  /\ pc \in [Sends -> {"idle", "catalog", "global", "agent", "stream", "position", "retry",
                       "answers", "done", "failed"}]
  /\ snapshot \in [Sends -> Seq([of: Sends, role: Roles])]
  /\ stage \in [Submissions -> {"idle", "event", "intent", "session", "automation", "legacy",
                                "booked", "refused", "event booked", "event lost"}]
  /\ rich \in [Submissions -> BOOLEAN]
  /\ result \in Submissions \cup {None}
  /\ disturbed \in BOOLEAN

\* What stands under a question is the answer to it: no reply is written over that of
\* another message or under its question.  It takes two messages that wait for the
\* catalog together, or a catalog that arrives under a message, to break this.
AnswersUnderQuestion ==
  ~disturbed =>
    \A i \in 1..Len(messages) :
      messages[i].role # "question" => i > 1 /\ messages[i - 1].of = messages[i].of

\* Once a message is done its reply has taken the place of the placeholder; a
\* placeholder that stays belongs to a message that failed or was refused a position.
NoPlaceholderLeft ==
  ~disturbed =>
    \A i \in 1..Len(messages) :
      messages[i].role = "pending" /\ pc[messages[i].of] = "done" =>
        i < Len(messages) /\ messages[i + 1] = Message(messages[i].of, "reply")

\* The chat is locked exactly while a message is being answered.
ChatLockedWhileAnswering ==
  ~disturbed => (chatLoading <=> \E s \in Sends : Answering(s))

\* The availability and payment guidance beside the form is about the service in it,
\* however late a search answers.
GuidanceOfSelection == selected # None /\ guidance # None => guidance = selected

InFlight(b) == stage[b] \in {"event", "intent", "session", "automation", "legacy"}

\* No second booking is asked for while one is under way: the form stays locked, and
\* the button that unlocks it needs a booking that is shown.
OneSubmissionAtATime ==
  \A a, b \in Submissions : InFlight(a) /\ InFlight(b) => a = b

\* A form that stays locked with nothing under way was left so by an event: a service
\* that could not be booked can be submitted again.
OnlyEventsLeaveLock ==
  loading => \E b \in Submissions : InFlight(b) \/ stage[b] \in {"event booked", "event lost"}
================================================================================
