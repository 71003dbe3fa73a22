------------------------------- MODULE PortalApp -------------------------------
(***************************************************************************)
(* The customer portal: one page about one booking at a time, whose calls  *)
(* to the booking API overlap.                                             *)
(*                                                                         *)
(* A handler runs to its await; what it captured when it began (the        *)
(* booking shown, the request mode, the note) is kept in the record of its *)
(* call.  Nothing cancels a call when the customer looks up another        *)
(* booking, and answers come back in any order.  fetchWithTimeout waits 30 *)
(* seconds for the headers of an answer; nothing limits the wait for its   *)
(* body.                                                                   *)
(*                                                                         *)
(* The portal's endpoints answer "ok" or an HTTP error, never "accepted",  *)
(* so the early returns on other envelopes are not taken.                  *)
(***************************************************************************)
EXTENDS Naturals

CONSTANTS
  References,
  MaxCalls,          \* bound on the calls a page makes
  PortalRequestMode, \* reschedule, cancel, pause and downgrade, all handled alike
  initialReference,  \* booking named by the link, or None
  linkedRequests,    \* request composers a link may name, None for none
  storedTokens,      \* bookings whose access token is in sessionStorage
  None

ASSUME CallsAssumption == MaxCalls \in Nat \ {0}
ASSUME NoneAssumption == None \notin References \cup PortalRequestMode
ASSUME ReferenceAssumption == initialReference \in References \cup {None}
ASSUME RequestAssumption == linkedRequests \subseteq PortalRequestMode \cup {None}
ASSUME TokensAssumption == storedTokens \subseteq References

VARIABLES
  initialRequest,  \* the composer the link names, fixed for the life of the page
  loadState,
  requestMode,
  note,            \* mode of the composer the customer's note was written in
  requestMessage, requestError,    \* the booking the outcome is about
  submittingRequest,
  care,            \* turn, error: the booking they are about; loading
  reminders,       \* enabled, busy
  tokens, expired, \* bookings with a token in sessionStorage, those whose expiry is past
  sent, calls,     \* calls made, and what each that has not settled captured
  filed, stopped   \* API: requests recorded, bookings without reminders

composer == <<requestMode, note, requestMessage, requestError>>
others == <<care, reminders>>
tokenStore == <<tokens, expired>>
api == <<filed, stopped>>
vars == <<initialRequest, loadState, composer, submittingRequest, others, tokenStore,
          sent, calls, api>>

Calls == 1 .. MaxCalls
LoadKinds == {"load", "lookup", "retry"}

Call(kind, r, token, mode, text) ==
  [kind |-> kind, ref |-> r, token |-> token, mode |-> mode, note |-> text,
   headers |-> FALSE]
NoCall == Call("none", None, FALSE, None, None)

Idle == [status |-> "idle", ref |-> None, recoverable |-> FALSE]
Loading(r) == [status |-> "loading", ref |-> r, recoverable |-> FALSE]
Ready(r) == [status |-> "ready", ref |-> r, recoverable |-> FALSE]
Failed(r, again) == [status |-> "error", ref |-> r, recoverable |-> again]

Init ==
  /\ initialRequest \in linkedRequests
  /\ loadState = IF initialReference = None THEN Idle ELSE Loading(initialReference)
  /\ requestMode = None /\ note = None
  /\ requestMessage = None /\ requestError = None
  /\ submittingRequest = FALSE
  /\ care = [turn |-> None, error |-> None, loading |-> FALSE]
  /\ reminders = [enabled |-> TRUE, busy |-> FALSE]
  /\ expired \in SUBSET (storedTokens \ {initialReference})
  /\ tokens \in {storedTokens, storedTokens \ {initialReference}}
  /\ sent = IF initialReference = None THEN 0 ELSE 1
  /\ calls = [c \in Calls |->
                IF c = 1 /\ initialReference # None
                  THEN Call("load", initialReference, initialReference \in tokens, None, None)
                  ELSE NoCall]
  /\ filed = {} /\ stopped = {}

-------------------------------------------------------------------------------
currentBookingReference == IF loadState.status = "ready" THEN loadState.ref ELSE None
HasDetail == currentBookingReference # None

Send(call) ==
  /\ sent < MaxCalls
  /\ sent' = sent + 1
  /\ calls' = [calls EXCEPT ![sent + 1] = call]

Settle(c) ==
  /\ calls' = [calls EXCEPT ![c] = NoCall]
  /\ UNCHANGED sent

Quiet == UNCHANGED <<initialRequest, api>>

(* The token of a booking, kept with its expiry.                           *)
clearPortalAccessToken(r) == tokens' = tokens \ {r} /\ expired' = expired \ {r}

\* The token that a call about r is given.  Asking for it forgets an expired one.
TokenOf(r) == r \in tokens \ expired
getPortalAccessToken(r) ==
  IF r \in expired THEN clearPortalAccessToken(r) ELSE UNCHANGED tokenStore

\* The date in the .expires key of a stored token passes.
tokenExpires(r) ==
  /\ r \in tokens \ expired
  /\ expired' = expired \cup {r}
  /\ UNCHANGED <<loadState, composer, submittingRequest, others, tokens, sent, calls>>
  /\ Quiet

\* Mutant: the note of the last composer is still there in the next one.
OpenKeepingNote(mode) ==
  /\ requestMode' = mode
  /\ requestMessage' = None /\ requestError' = None
  /\ UNCHANGED note

\* Mutant: the outcome of the last request is still there.
OpenKeepingOutcome(mode) ==
  /\ requestMode' = mode
  /\ note' = None
  /\ UNCHANGED <<requestMessage, requestError>>

OpenComposer(mode) ==
  /\ requestMode' = mode
  /\ note' = None
  /\ requestMessage' = None /\ requestError' = None

openRequestComposer(mode) ==
  /\ HasDetail
  /\ OpenComposer(mode)
  /\ UNCHANGED <<loadState, submittingRequest, others, tokenStore, sent, calls>>
  /\ Quiet

\* The tabs without a composer, and the Close button.
closeRequestComposer ==
  /\ HasDetail
  /\ requestMode' = None
  /\ UNCHANGED <<loadState, note, requestMessage, requestError,
                 submittingRequest, others, tokenStore, sent, calls>>
  /\ Quiet

writeNote ==
  /\ HasDetail /\ requestMode # None
  /\ note' = requestMode
  /\ UNCHANGED <<loadState, requestMode, requestMessage, requestError,
                 submittingRequest, others, tokenStore, sent, calls>>
  /\ Quiet

-------------------------------------------------------------------------------
(* Loading a booking.                                                      *)

handleLookup(r) ==
  /\ loadState' = Loading(r)
  /\ getPortalAccessToken(r)
  /\ Send(Call("lookup", r, TokenOf(r), None, None))
  /\ UNCHANGED <<composer, submittingRequest, others>>
  /\ Quiet

\* A lookup of nothing.
clearLookup ==
  /\ loadState' = Idle
  /\ UNCHANGED <<composer, submittingRequest, others, tokenStore, sent, calls>>
  /\ Quiet

\* "Try again" asks without the access token.
tryAgain ==
  /\ loadState.status = "error" /\ loadState.recoverable
  /\ loadState' = Loading(loadState.ref)
  /\ Send(Call("retry", loadState.ref, FALSE, None, None))
  /\ UNCHANGED <<composer, submittingRequest, others, tokenStore>>
  /\ Quiet

\* Mutant: a booking that arrives opens the lock of the composer.
LockAfterLookup == FALSE

\* The lock of the composer is not touched by a load.
LockAfterLoad == submittingRequest

\* The effect that runs when another booking is shown opens the composer the URL asks
\* for; a lookup, and only a lookup, has shut the one of the booking before.
ComposerAfterLoad(kind, r) ==
  IF initialRequest # None /\ currentBookingReference # r
    THEN OpenComposer(initialRequest)
    ELSE IF kind = "lookup"
    THEN /\ requestMode' = None
         /\ requestMessage' = None /\ requestError' = None
         /\ UNCHANGED note
    ELSE UNCHANGED composer

\* A booking arrives.  It is shown whatever the customer has asked for since.
bookingLoaded(c) ==
  LET r == calls[c].ref IN
  /\ calls[c].kind \in LoadKinds /\ calls[c].headers
  /\ loadState' = Ready(r)
  /\ ComposerAfterLoad(calls[c].kind, r)
  /\ submittingRequest' = LockAfterLoad
  /\ care' = IF calls[c].kind = "lookup"
               THEN [care EXCEPT !.turn = None, !.error = None] ELSE care
  /\ Settle(c)
  /\ UNCHANGED <<reminders, tokenStore>>
  /\ Quiet

\* Mutant: a refused token is cleared, and that is all.
StateAfterRefusal(c) == loadState

StateAfterAuthError(c) == Failed(calls[c].ref, FALSE)

\* Mutant: a refusal forgets the token, whether or not it was sent.
ForgetAfterAnyRefusal(c) == clearPortalAccessToken(calls[c].ref)

\* "Try again" leaves the token alone.
ForgetAfterRefusal(c) ==
  IF calls[c].kind = "retry" THEN UNCHANGED tokenStore
  ELSE clearPortalAccessToken(calls[c].ref)

\* 401 or 403.
loadRefused(c) ==
  /\ calls[c].kind \in LoadKinds /\ calls[c].headers
  /\ loadState' = StateAfterAuthError(c)
  /\ ForgetAfterRefusal(c)
  /\ Settle(c)
  /\ UNCHANGED <<composer, submittingRequest, others>>
  /\ Quiet

\* Any other error; only a network failure can be tried again.
loadFails(c) ==
  /\ calls[c].kind \in LoadKinds
  /\ \E recoverable \in BOOLEAN : loadState' = Failed(calls[c].ref, recoverable)
  /\ Settle(c)
  /\ UNCHANGED <<composer, submittingRequest, others, tokenStore>>
  /\ Quiet

-------------------------------------------------------------------------------
(* Requests about the booking shown.                                       *)

\* The button is disabled while a request is on its way.
handlePortalRequestSubmit ==
  /\ HasDetail /\ requestMode # None
  /\ ~submittingRequest
  /\ submittingRequest' = TRUE
  /\ requestMessage' = None /\ requestError' = None
  /\ getPortalAccessToken(currentBookingReference)
  /\ Send(Call("request", currentBookingReference,
               TokenOf(currentBookingReference), requestMode, note))
  /\ UNCHANGED <<loadState, requestMode, note, others>>
  /\ Quiet

FiledBy(c) == [ref |-> calls[c].ref, mode |-> calls[c].mode, note |-> calls[c].note]

requestAccepted(c) ==
  /\ calls[c].kind = "request" /\ calls[c].headers
  /\ filed' = filed \cup {FiledBy(c)}
  /\ requestMessage' = calls[c].ref
  /\ requestMode' = None
  /\ submittingRequest' = FALSE
  /\ Settle(c)
  /\ UNCHANGED <<initialRequest, loadState, note, requestError, others,
                 tokenStore, stopped>>

\* Mutant: the lock is only opened by a success.
LockLeft == submittingRequest

LockAfterError == FALSE

\* The API may have recorded a request whose answer is lost.
requestFails(c) ==
  /\ calls[c].kind = "request"
  /\ filed' \in {filed, filed \cup {FiledBy(c)}}
  /\ requestError' = calls[c].ref
  /\ submittingRequest' = LockAfterError
  /\ Settle(c)
  /\ UNCHANGED <<initialRequest, loadState, requestMode, note, requestMessage, others,
                 tokenStore, stopped>>

\* Switching the reminders on only tells the customer how; off is shown at once.
handleRemindersToggle ==
  /\ HasDetail /\ ~reminders.busy
  /\ IF reminders.enabled
       THEN /\ reminders' = [enabled |-> FALSE, busy |-> TRUE]
            /\ getPortalAccessToken(currentBookingReference)
            /\ Send(Call("reminders", currentBookingReference,
                         TokenOf(currentBookingReference), None, None))
       ELSE /\ reminders' = [reminders EXCEPT !.enabled = TRUE]
            /\ UNCHANGED <<tokenStore, sent, calls>>
  /\ UNCHANGED <<loadState, composer, submittingRequest, care>>
  /\ Quiet

remindersDisabled(c) ==
  /\ calls[c].kind = "reminders" /\ calls[c].headers
  /\ stopped' = stopped \cup {calls[c].ref}
  /\ reminders' = [reminders EXCEPT !.busy = FALSE]
  /\ Settle(c)
  /\ UNCHANGED <<initialRequest, loadState, composer, submittingRequest, care, tokenStore,
                 filed>>

SwitchAfterError == [enabled |-> TRUE, busy |-> FALSE]

remindersFail(c) ==
  /\ calls[c].kind = "reminders"
  /\ stopped' \in {stopped, stopped \cup {calls[c].ref}}
  /\ reminders' = SwitchAfterError
  /\ Settle(c)
  /\ UNCHANGED <<initialRequest, loadState, composer, submittingRequest, care, tokenStore,
                 filed>>

handleCustomerCareSubmit ==
  /\ HasDetail /\ ~care.loading
  /\ care' = [care EXCEPT !.error = None, !.loading = TRUE]
  /\ getPortalAccessToken(currentBookingReference)
  /\ Send(Call("care", currentBookingReference,
               TokenOf(currentBookingReference), None, None))
  /\ UNCHANGED <<loadState, composer, submittingRequest, reminders>>
  /\ Quiet

careAnswers(c) ==
  /\ calls[c].kind = "care"
  /\ \/ /\ calls[c].headers
        /\ care' = [care EXCEPT !.turn = calls[c].ref, !.loading = FALSE]
     \/ care' = [care EXCEPT !.error = calls[c].ref, !.loading = FALSE]
  /\ Settle(c)
  /\ UNCHANGED <<loadState, composer, submittingRequest, reminders, tokenStore>>
  /\ Quiet

-------------------------------------------------------------------------------
\* The status of the answer is there, and the timer is cleared.
headersArrive(c) ==
  /\ calls[c].kind # "none" /\ ~calls[c].headers
  /\ calls' = [calls EXCEPT ![c].headers = TRUE]
  /\ UNCHANGED <<loadState, composer, submittingRequest, others, tokenStore, sent>>
  /\ Quiet

\* The body has been read, or the call fails: for an answer with an error, by the time
\* limit, or because the network fails, before or after the headers.
Answer(c) ==
  \/ bookingLoaded(c) \/ loadRefused(c) \/ loadFails(c)
  \/ requestAccepted(c) \/ requestFails(c)
  \/ remindersDisabled(c) \/ remindersFail(c)
  \/ careAnswers(c)

Customer ==
  \/ \E r \in References : handleLookup(r)
  \/ clearLookup \/ tryAgain
  \/ \E mode \in PortalRequestMode : openRequestComposer(mode)
  \/ closeRequestComposer \/ writeNote
  \/ handlePortalRequestSubmit
  \/ handleRemindersToggle
  \/ handleCustomerCareSubmit

Next ==
  \/ Customer
  \/ \E r \in References : tokenExpires(r)
  \/ \E c \in Calls : headersArrive(c) \/ Answer(c)

\* What fetchWithTimeout sees to: the headers of an answer come in time, or the call
\* fails.  Nothing sees to the body.
fetchWithTimeout(c) == ~calls[c].headers /\ (headersArrive(c) \/ Answer(c))

Spec == Init /\ [][Next]_vars /\ \A c \in Calls : WF_vars(fetchWithTimeout(c))

-------------------------------------------------------------------------------
Marked == References \cup {None}
Modes == PortalRequestMode \cup {None}

\* Every variable has its type.
TypeOK ==
  /\ initialRequest \in linkedRequests
  /\ loadState \in [status : {"idle", "loading", "ready", "error"}, ref : Marked,
                    recoverable : BOOLEAN]
  /\ loadState.ref = None <=> loadState.status = "idle"
  /\ requestMode \in Modes /\ note \in Modes
  /\ requestMessage \in Marked /\ requestError \in Marked
  /\ submittingRequest \in BOOLEAN
  /\ care \in [turn : Marked, error : Marked, loading : BOOLEAN]
  /\ reminders \in [enabled : BOOLEAN, busy : BOOLEAN]
  /\ tokens \subseteq References /\ expired \subseteq tokens
  /\ sent \in 0 .. MaxCalls
  /\ calls \in [Calls -> [kind : LoadKinds \cup {"none", "request", "reminders", "care"},
                          ref : Marked, token : BOOLEAN, mode : Modes, note : Modes,
                          headers : BOOLEAN]]
  /\ filed \subseteq [ref : References, mode : PortalRequestMode, note : Modes]
  /\ stopped \subseteq References

RequestsPending == {c \in Calls : calls[c].kind = "request"}

\* At most one request is on its way, and the button is locked exactly while it is,
\* whatever bookings are looked up meanwhile: a cancellation is not sent twice.
OneRequestAtATime ==
  /\ submittingRequest <=> RequestsPending # {}
  /\ \A c, d \in RequestsPending : c = d

\* The confirmation of a request is never shown beside a failure, nor above an open
\* composer, although lookups, tabs and late answers cross it.
OneOutcomeShown == requestMessage # None => requestError = None /\ requestMode = None

\* The note of a recorded request was written for that kind of request: what was
\* typed for a reschedule does not travel with a cancellation.
NoteOfItsMode == \A f \in filed : f.note \in {f.mode, None}

\* A settled switch that says off is backed by a booking whose reminders were stopped:
\* the optimistic switch is put back by every failure.
RemindersOffMeansStopped ==
  ~reminders.enabled /\ ~reminders.busy => stopped # {}

\* While the page says that it loads a booking, a call for that booking is on its way,
\* however lookups, retries and their answers overlap.
SpinnerMeansCall ==
  loadState.status = "loading" =>
    \E c \in Calls : calls[c].kind \in LoadKinds /\ calls[c].ref = loadState.ref

\* The headers of a call of that kind about r have come, and its body has not.
BodyOnItsWay(kinds, r) ==
  \E c \in Calls : calls[c].kind \in kinds /\ calls[c].ref = r /\ calls[c].headers
SomeBodyOnItsWay(kind) == \E r \in References : BodyOnItsWay({kind}, r)

\* No lock outlives the 30 seconds unless a body is awaited: the request button, the
\* switch and the question box open again, and a spinner ends, whatever calls overlap.
LocksOpenUnlessBodyStalls ==
  /\ submittingRequest ~> ~submittingRequest \/ SomeBodyOnItsWay("request")
  /\ reminders.busy ~> ~reminders.busy \/ SomeBodyOnItsWay("reminders")
  /\ care.loading ~> ~care.loading \/ SomeBodyOnItsWay("care")
  /\ \A r \in References :
       loadState = Loading(r) ~> loadState # Loading(r) \/ BodyOnItsWay(LoadKinds, r)

\* A token that has not expired is only forgotten because the API refused a call that
\* carried it: a retry, which carries none, does not lose it, whatever calls it overlaps.
TokenForgottenWasSent ==
  [][\A r \in tokens \ tokens' : r \in expired \/ \E c \in Calls :
       calls[c].ref = r /\ calls[c].token /\ calls'[c] = NoCall]_vars

-------------------------------------------------------------------------------
(* What the documentation says and the code does not do.                   *)

\* "apiRequest now calls fetchWithTimeout so every typed API call inherits the timeout"
\* (implementation-progress.md, line 3396): every call of the page settles.
CallsTimeOut == \A c \in Calls : calls[c].kind # "none" ~> calls[c].kind = "none"
===============================================================================
