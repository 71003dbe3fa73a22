---------------------------- MODULE HomepageSearch ----------------------------
(***************************************************************************)
(* The search and booking page of the public site.                         *)
(*                                                                         *)
(* runSearch and handleBookingSubmit are asynchronous functions over one   *)
(* page state.  They run to their next await without interruption, and     *)
(* nothing ties an answer that comes back to the search that the page is   *)
(* about by then: suggestion chips start a search while another is waiting *)
(* for its answers.                                                        *)
(***************************************************************************)
EXTENDS Naturals

CONSTANTS
  Searches,     \* calls of runSearch, each made once
  Submissions,  \* submitted booking forms, and the bookings they make
  Services,
  isLiveReadMode, \* the build flag of the live search
  None

ASSUME ModeAssumption == isLiveReadMode \in BOOLEAN
ASSUME NoneAssumption == None \notin Searches \cup Submissions \cup Services

VARIABLES
  currentQuery,     \* the search whose query the page shows
  results,          \* shortlist, and the search that put it there
  selected,         \* selectedServiceId
  guidance,         \* liveReadBookingSummary, by the search it comes from
  locationRequest,
  geo,              \* the visitor has shared a position
  locating,         \* searches whose location request awaits the browser
  searchLoading, submitLoading,
  conversation,
  result,           \* booking shown, the booking its automation is from, and whether
                    \* that marks the follow-up for manual review
  announced,        \* announcedBookingReferenceRef
  pc, req,          \* next statement of each search; what it captured when it began
  stage,            \* next statement of each submission
  crossed,          \* history: another search or the Home button crossed the last search
  announcements,    \* history: confirmations written for each booking
  handedOff         \* history: bookings whose follow-up the API has queued

shown == <<currentQuery, results, selected, guidance, locationRequest, conversation>>
position == <<geo, locating>>
booking == <<submitLoading, stage, announced, announcements, handedOff>>
vars == <<shown, position, searchLoading, result, booking, pc, req, crossed>>

NoShortlist == [of |-> None, ids |-> {}]
NewBooking(b) == [of |-> b, automation |-> None, review |-> FALSE]
NoBooking == NewBooking(None)
NoLocationRequest == [of |-> None, status |-> "none"]
NothingCaptured == [geo |-> FALSE, preview |-> {}, fast |-> FALSE]

Init ==
  /\ currentQuery = None /\ results = NoShortlist
  /\ selected = None /\ guidance = None
  /\ locationRequest = NoLocationRequest
  /\ geo = FALSE /\ locating = {}
  /\ searchLoading = FALSE /\ submitLoading = FALSE
  /\ conversation = {}
  /\ result = NoBooking
  /\ announced = None
  /\ pc = [r \in Searches |-> "idle"]
  /\ req = [r \in Searches |-> NothingCaptured]
  /\ stage = [b \in Submissions |-> "idle"]
  /\ crossed = FALSE
  /\ announcements = [b \in Submissions |-> 0]
  /\ handedOff = {}

-------------------------------------------------------------------------------
Running(r) == pc[r] \in {"agent", "live", "legacy"}
SomeRunning == \E r \in Searches : Running(r)
Creating(b) == stage[b] = "create"

Say(role, r) == [role |-> role, of |-> r]
SelectedService == IF selected \in results.ids THEN selected ELSE None

\* Mutant: the shortlist is only replaced when there is something to show.
PreviewIfAny(r, ids) == IF ids = {} THEN results ELSE [of |-> r, ids |-> ids]

PreviewResults(r, ids) == [of |-> r, ids |-> ids]

\* The part of runSearch before its first await.  A query that lacks an area and
\* more is not searched: the page asks for the details.
runSearch(r, hasGeo) ==
  \E fast, held \in BOOLEAN : \E found \in SUBSET Services :
    /\ pc[r] = "idle"
    /\ fast => found # {}
    /\ currentQuery' = r
    /\ results' = PreviewResults(r, IF held THEN {} ELSE found)
    /\ selected' = None
    /\ guidance' = None
    /\ locationRequest' = NoLocationRequest
    /\ result' = NoBooking
    /\ conversation' =
         conversation \cup {Say("question", r)}
                      \cup (IF held THEN {Say("reply", r)} ELSE {})
    /\ searchLoading' = ~held
    /\ pc' = [pc EXCEPT ![r] = IF held THEN "empty" ELSE "agent"]
    /\ req' = [req EXCEPT ![r] = IF held THEN NothingCaptured
                                ELSE [geo |-> hasGeo, preview |-> found, fast |-> fast]]
    /\ crossed' = SomeRunning
    /\ UNCHANGED booking

\* The composer, the suggestion chips, the voice input, and the query that the host
\* page hands over once the catalog is loaded.
Search(r) == runSearch(r, geo) /\ UNCHANGED position

\* The end of runSearch when an answer arrived: used tells that it is a live one,
\* ranked what is left of it, asks that it wants a location.
ShowAnswer(r, used, ranked, asks) ==
  LET ask == asks /\ ~req[r].geo
      ids == IF ranked = {} /\ req[r].fast THEN req[r].preview ELSE ranked
  IN
  \E hold \in BOOLEAN :
    /\ hold => used /\ ask
    /\ results' = [of |-> r, ids |-> IF hold THEN {} ELSE ids]
    /\ pc' = [pc EXCEPT ![r] = IF results'.ids = {} THEN "empty" ELSE "done"]
    /\ selected' = IF selected \in results'.ids THEN selected ELSE None
    /\ guidance' = IF used THEN r ELSE None
    /\ locationRequest' = IF ask THEN [of |-> r, status |-> "prompt"] ELSE locationRequest
    /\ conversation' = conversation \cup {Say("reply", r)}
    /\ searchLoading' = FALSE
    /\ req' = [req EXCEPT ![r] = NothingCaptured]
    /\ UNCHANGED <<currentQuery, position, result, booking, crossed>>

Await(r, label) ==
  /\ pc' = [pc EXCEPT ![r] = label]
  /\ UNCHANGED <<shown, position, searchLoading, result, booking, req, crossed>>

\* The agent's turn never fails: an error counts as a turn without a search.
agentAnswers(r) ==
  /\ pc[r] = "agent"
  /\ \/ \E ranked \in SUBSET Services, asks \in BOOLEAN : ShowAnswer(r, TRUE, ranked, asks)
     \/ Await(r, IF isLiveReadMode THEN "live" ELSE "legacy")

liveReadAnswers(r) ==
  /\ pc[r] = "live"
  /\ \/ \E ranked \in SUBSET Services, asks \in BOOLEAN : ShowAnswer(r, TRUE, ranked, asks)
     \/ Await(r, "legacy")

legacyAnswers(r) ==
  /\ pc[r] = "legacy"
  /\ \E ranked \in SUBSET Services, asks \in BOOLEAN : ShowAnswer(r, FALSE, ranked, asks)

\* Mutant: the failure path says nothing to the visitor.
FailureMessage(r) == {}

RecoveryMessage(r) == {Say("reply", r)}

\* Mutant: the failure path leaves the booking guidance that is there.
KeepGuidance == guidance

GuidanceAfterFailure == None

\* Mutant: the failure path leaves the spinner on.
SpinnerAfterFailure == searchLoading

\* finally
SpinnerAfter == FALSE

legacyFails(r) ==
  LET ids == req[r].preview IN
  /\ pc[r] = "legacy"
  /\ results' = [of |-> r, ids |-> ids]
  /\ pc' = [pc EXCEPT ![r] = IF ids = {} THEN "empty" ELSE "done"]
  /\ selected' = IF selected \in ids THEN selected ELSE None
  /\ guidance' = GuidanceAfterFailure
  /\ conversation' = conversation \cup RecoveryMessage(r)
  /\ searchLoading' = SpinnerAfter
  /\ req' = [req EXCEPT ![r] = NothingCaptured]
  /\ UNCHANGED <<currentQuery, locationRequest, position, result, booking, crossed>>

-------------------------------------------------------------------------------
\* handleUseCurrentLocationForSearch waits for the browser, then searches again.
useCurrentLocation ==
  LET r == locationRequest.of IN
  /\ locationRequest.status \in {"prompt", "denied"} /\ ~searchLoading
  /\ locationRequest' = [of |-> r, status |-> "requesting"]
  /\ locating' = locating \cup {r}
  /\ UNCHANGED <<currentQuery, results, selected, guidance, conversation,
                 geo, searchLoading, result, booking, pc, req, crossed>>

positionDenied(r) ==
  /\ r \in locating
  /\ locating' = locating \ {r}
  /\ locationRequest' = [of |-> r, status |-> "denied"]
  /\ UNCHANGED <<currentQuery, results, selected, guidance, conversation,
                 geo, searchLoading, result, booking, pc, req, crossed>>

positionGranted(r, again) ==
  /\ r \in locating
  /\ locating' = locating \ {r}
  /\ geo' = TRUE
  /\ runSearch(again, TRUE)

typeSuburbInstead ==
  /\ locationRequest.status # "none"
  /\ locationRequest' = NoLocationRequest
  /\ UNCHANGED <<currentQuery, results, selected, guidance, conversation,
                 position, searchLoading, result, booking, pc, req, crossed>>

-------------------------------------------------------------------------------
select(s) ==
  /\ selected' = s
  /\ result' = NoBooking
  /\ UNCHANGED <<currentQuery, results, guidance, locationRequest, conversation,
                 position, searchLoading, booking, pc, req, crossed>>

commitServiceSelection == \E s \in results.ids : select(s)

\* The preview of a service stays open while the shortlist changes under it, so it may
\* be of a service that is not listed any more.
handlePreviewBook == conversation # {} /\ \E s \in Services : select(s)

returnToHomepageSearch ==
  /\ result.of # None
  /\ result' = NoBooking
  /\ submitLoading' = FALSE
  /\ currentQuery' = None /\ results' = NoShortlist
  /\ selected' = None /\ guidance' = None
  /\ locationRequest' = NoLocationRequest
  /\ conversation' = {}
  /\ crossed' = SomeRunning
  /\ UNCHANGED <<position, searchLoading, stage, announced, announcements, handedOff,
                 pc, req>>

-------------------------------------------------------------------------------
\* Mutant: the effect keeps no record of what it announced.
AnnounceAgain(b) ==
  /\ announced' = b
  /\ announcements' = IF b = None THEN announcements ELSE [announcements EXCEPT ![b] = @ + 1]

\* The effect that confirms a booking in the conversation: it runs whenever result is
\* a new object.
Announce(b) ==
  IF b \in {None, announced}
  THEN UNCHANGED <<announced, announcements>>
  ELSE announced' = b /\ announcements' = [announcements EXCEPT ![b] = @ + 1]

To(b, label) == stage' = [stage EXCEPT ![b] = label]

handleBookingSubmit(b) ==
  /\ stage[b] = "idle"
  /\ SelectedService # None /\ result.of = None /\ ~submitLoading
  /\ submitLoading' = TRUE
  /\ result' = NoBooking
  /\ To(b, "create")
  /\ UNCHANGED <<shown, position, searchLoading, announced, announcements,
                 handedOff, pc, req, crossed>>

\* createPublicBookingAssistantLeadAndBookingIntent, or the legacy session.
bookingCreated(b) ==
  /\ stage[b] = "create"
  /\ result' = NewBooking(b)
  /\ Announce(b)
  /\ submitLoading' = FALSE
  /\ To(b, IF isLiveReadMode THEN "payment" ELSE "done")
  /\ UNCHANGED <<shown, position, searchLoading, handedOff, pc, req, crossed>>

bookingFails(b) ==
  /\ stage[b] = "create"
  /\ submitLoading' = FALSE
  /\ To(b, "failed")
  /\ UNCHANGED <<shown, position, searchLoading, result, announced,
                 announcements, handedOff, pc, req, crossed>>

\* Mutant: an error of the e-mail call ends the automation.
AfterEmailError == {"sms", "handoff", "done"}

\* runPostBookingAutomation catches the error of each call by itself: whatever its
\* outcome the next one is made.  Only the contacts the visitor gave are written to.
AfterPayment == {"email", "sms", "handoff"}
AfterEmail == {"sms", "handoff"}

automationCall(b) ==
  /\ \/ stage[b] = "payment" /\ \E next \in AfterPayment : To(b, next)
     \/ stage[b] = "email" /\ \E next \in AfterEmail : To(b, next)
     \/ stage[b] = "sms" /\ To(b, "whatsapp")
     \/ stage[b] = "whatsapp" /\ To(b, "handoff")
  /\ UNCHANGED <<shown, position, searchLoading, result, submitLoading,
                 announced, announcements, handedOff, pc, req, crossed>>

\* Mutants: the enrichment does not look whose booking is shown, or whether one is.
EnrichAny(b, review) ==
  IF result.of = None THEN result ELSE [result EXCEPT !.automation = b, !.review = review]
ShowEnriched(b, review) == [of |-> b, automation |-> b, review |-> review]

Enriched(b, review) ==
  IF result.of # b THEN result ELSE [of |-> b, automation |-> b, review |-> review]

\* The API queues the follow-up or the call fails, which marks the booking for manual
\* review, on the page and nowhere else; the API may have queued it all the same.
queueHandoff(b) ==
  /\ stage[b] = "handoff"
  /\ \E failed \in BOOLEAN :
       /\ handedOff' \in {handedOff \cup {b}} \cup (IF failed THEN {handedOff} ELSE {})
       /\ result' = Enriched(b, failed)
  /\ Announce(result'.of)
  /\ To(b, "done")
  /\ UNCHANGED <<shown, position, searchLoading, submitLoading, pc, req, crossed>>

-------------------------------------------------------------------------------
SearchAwaits(r) ==
  \/ agentAnswers(r) \/ liveReadAnswers(r) \/ legacyAnswers(r) \/ legacyFails(r)

BrowserAnswers(r) == positionDenied(r) \/ \E again \in Searches : positionGranted(r, again)

SubmissionAwaits(b) ==
  bookingCreated(b) \/ bookingFails(b) \/ automationCall(b) \/ queueHandoff(b)

Visitor ==
  \/ \E r \in Searches : Search(r)
  \/ useCurrentLocation \/ typeSuburbInstead
  \/ commitServiceSelection \/ handlePreviewBook
  \/ returnToHomepageSearch
  \/ \E b \in Submissions : handleBookingSubmit(b)

Next ==
  \/ Visitor
  \/ \E r \in Searches : SearchAwaits(r) \/ BrowserAnswers(r)
  \/ \E b \in Submissions : SubmissionAwaits(b)

Spec == Init /\ [][Next]_vars
-------------------------------------------------------------------------------
SearchOrNone == Searches \cup {None}

\* Every variable has its type.
TypeOK ==
  /\ currentQuery \in SearchOrNone
  /\ results \in [of: SearchOrNone, ids: SUBSET Services]
  /\ selected \in Services \cup {None}
  /\ guidance \in SearchOrNone
  /\ locationRequest \in [of: SearchOrNone, status: {"none", "prompt", "requesting", "denied"}]
  /\ geo \in BOOLEAN /\ locating \in SUBSET Searches
  /\ searchLoading \in BOOLEAN /\ submitLoading \in BOOLEAN
  /\ conversation \in SUBSET [role: {"question", "reply"}, of: Searches]
  /\ result \in [of: Submissions \cup {None}, automation: Submissions \cup {None},
                 review: BOOLEAN]
  /\ announced \in Submissions \cup {None}
  /\ pc \in [Searches -> {"idle", "agent", "live", "legacy", "done", "empty"}]
  /\ req \in [Searches -> [geo: BOOLEAN, preview: SUBSET Services, fast: BOOLEAN]]
  /\ stage \in [Submissions -> {"idle", "create", "payment", "email", "sms", "whatsapp",
                                "handoff", "done", "failed"}]
  /\ crossed \in BOOLEAN
  /\ announcements \in [Submissions -> Nat]
  /\ handedOff \in SUBSET Submissions

\* The booking path and the payment permission that a submission takes from the page
\* come from the search whose shortlist is shown, however searches overlap.
GuidanceOfShortlist == guidance # None => guidance = results.of

\* Unless another search or the Home button crossed the last search, the shortlist is
\* the one of the query that the page shows.
ShortlistOfQuery == ~crossed /\ results.ids # {} => results.of = currentQuery

\* A question of the conversation has its reply once its search has ended.
QuestionsAnswered ==
  \A r \in Searches :
    Say("question", r) \in conversation /\ ~Running(r) => Say("reply", r) \in conversation

\* The form is locked exactly while one submission is being created.  Nothing but the
\* lock keeps a visitor from booking twice, and the Home button opens it.
OneSubmissionAtATime ==
  /\ submitLoading <=> \E b \in Submissions : Creating(b)
  /\ \A a, b \in Submissions : Creating(a) /\ Creating(b) => a = b

\* A booking is confirmed to the visitor once, though its automation enriches it later.
AnnouncedOnce == \A b \in Submissions : announcements[b] <= 1

\* The payment link shown with a booking was made for that booking.
AutomationOfItsBooking == result.automation \in {None, result.of}

\* The search spinner never outlives the searches: it is off when the last one ends,
\* though with two of them it goes off too early.
SpinnerMeansSearch == searchLoading => SomeRunning

\* A booking of the live flow whose automation is over and that the page still shows
\* was handed to revenue operations, or is marked for manual review: whichever of the
\* payment, e-mail, message and handoff calls fail, and whatever is booked and looked up
\* meanwhile, the page does not present a booking that nobody follows as if it were.
BookingFollowedUp ==
  isLiveReadMode => \A b \in Submissions :
    result.of = b /\ stage[b] = "done" => b \in handedOff \/ result.review

\* A query that ended with nothing to show clears the shortlist of earlier ones.
NoStaleShortlist ==
  \A r \in Searches : currentQuery = r /\ pc[r] = "empty" => results.ids = {}
================================================================================
