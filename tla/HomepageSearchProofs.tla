-------------------------- MODULE HomepageSearchProofs --------------------------
(***************************************************************************)
(* Proofs about HomepageSearch, for any number of searches, submissions    *)
(* and services and both modes of the build.  The page falls into what a   *)
(* search shows and what a booking shows: a search only clears the booking *)
(* that is shown, and a booking leaves the shortlist alone.                *)
(***************************************************************************)
EXTENDS HomepageSearch, TLAPS

SearchLabels == {"idle", "agent", "live", "legacy", "done", "empty"}
StageLabels == {"idle", "create", "payment", "email", "sms", "whatsapp", "handoff", "done", "failed"}
Captured == [geo: BOOLEAN, preview: SUBSET Services, fast: BOOLEAN]
Shortlist == [of: SearchOrNone, ids: SUBSET Services]
Messages == [role: {"question", "reply"}, of: Searches]

\* Only the last search runs unless it was crossed.
LastSearchRuns == ~crossed => \A r \in Searches : Running(r) => r = currentQuery

ShownInv ==
  /\ GuidanceOfShortlist /\ LastSearchRuns /\ ShortlistOfQuery
  /\ QuestionsAnswered /\ SpinnerMeansSearch

\* A booking that is shown was announced, and none is being created.
BookingShown ==
  /\ result.of # None => ~submitLoading
  /\ result.of \in {None, announced}

\* A booking is announced when it is there.
NotYetAnnounced ==
  \A b \in Submissions : stage[b] \in {"idle", "create"} => announcements[b] = 0 /\ announced # b

BookingInv ==
  /\ BookingShown /\ NotYetAnnounced
  /\ OneSubmissionAtATime /\ AnnouncedOnce /\ AutomationOfItsBooking /\ BookingFollowedUp

\* A location is asked for by a search.
LocationOfSearch == locationRequest.status # "none" => locationRequest.of # None

IInv == TypeOK /\ ShownInv /\ LocationOfSearch /\ BookingInv

seen == <<currentQuery, results, guidance, conversation, searchLoading, pc, crossed>>
booked == <<result, submitLoading, stage, announced, announcements, handedOff>>

-------------------------------------------------------------------------------
\* The initial state satisfies the invariant.
LEMMA InitIInv == Init => IInv
<1> SUFFICES ASSUME Init PROVE IInv
  OBVIOUS
<1>1. TypeOK
  BY DEF Init, TypeOK, SearchOrNone, NoShortlist, NoBooking, NewBooking, NoLocationRequest,
     NothingCaptured
<1>2. ShownInv
  BY DEF Init, ShownInv, GuidanceOfShortlist, LastSearchRuns, ShortlistOfQuery, QuestionsAnswered,
         SpinnerMeansSearch, NoShortlist, Running, Say
<1>3. BookingInv
  BY NoneAssumption DEF Init, BookingInv, BookingShown, NotYetAnnounced, OneSubmissionAtATime,
     AnnouncedOnce, AutomationOfItsBooking, BookingFollowedUp, NoBooking, NewBooking, Creating
<1>4. LocationOfSearch
  BY DEF Init, NoLocationRequest, LocationOfSearch
<1> QED
  BY <1>1, <1>2, <1>3, <1>4 DEF IInv

\* What a search shows depends on these variables alone.
LEMMA SeenStays == ASSUME ShownInv, UNCHANGED seen PROVE ShownInv'
BY DEF seen, ShownInv, GuidanceOfShortlist, LastSearchRuns, ShortlistOfQuery, QuestionsAnswered,
       SpinnerMeansSearch, Running, SomeRunning, Say

\* What a booking shows depends on these variables alone.
LEMMA BookedStays == ASSUME BookingInv, UNCHANGED booked PROVE BookingInv'
BY DEF booked, BookingInv, BookingShown, NotYetAnnounced, OneSubmissionAtATime, AnnouncedOnce,
       AutomationOfItsBooking, BookingFollowedUp, Creating

\* A step that takes the booking off the page.
LEMMA BookingCleared ==
  ASSUME BookingInv, result' = NoBooking,
         UNCHANGED <<submitLoading, stage, announced, announcements, handedOff>>
  PROVE  BookingInv'
BY NoneAssumption
   DEF BookingInv, BookingShown, NotYetAnnounced, OneSubmissionAtATime, AnnouncedOnce,
       AutomationOfItsBooking, BookingFollowedUp, Creating, NoBooking, NewBooking

-------------------------------------------------------------------------------
\* A search begins.
LEMMA RunSearchInv ==
  ASSUME IInv, NEW r \in Searches, NEW hasGeo \in BOOLEAN, runSearch(r, hasGeo),
         geo' \in BOOLEAN, locating' \in SUBSET Searches
  PROVE  IInv'
<1>1. PICK fast \in BOOLEAN, held \in BOOLEAN, found \in SUBSET Services :
        /\ currentQuery' = r
        /\ results' = [of |-> r, ids |-> IF held THEN {} ELSE found]
        /\ selected' = None /\ guidance' = None
        /\ locationRequest' = NoLocationRequest
        /\ result' = NoBooking
        /\ conversation' = conversation \cup {Say("question", r)}
                             \cup (IF held THEN {Say("reply", r)} ELSE {})
        /\ searchLoading' = ~held
        /\ pc' = [pc EXCEPT ![r] = IF held THEN "empty" ELSE "agent"]
        /\ req' = [req EXCEPT ![r] = IF held THEN NothingCaptured
                                    ELSE [geo |-> hasGeo, preview |-> found, fast |-> fast]]
        /\ crossed' = SomeRunning
        /\ UNCHANGED booking
  BY DEF runSearch, PreviewResults
<1>2. TypeOK'
  <2>1. Say("question", r) \in Messages /\ Say("reply", r) \in Messages
    BY DEF Say, Messages
  <2>2. conversation' \in SUBSET Messages
    BY <1>1, <2>1 DEF IInv, TypeOK, Messages
  <2>3. pc' \in [Searches -> SearchLabels]
    BY <1>1 DEF IInv, TypeOK, SearchLabels
  <2>4. NothingCaptured \in Captured /\ [geo |-> hasGeo, preview |-> found, fast |-> fast] \in Captured
    BY DEF NothingCaptured, Captured
  <2>5. req' \in [Searches -> Captured]
    BY <1>1, <2>4 DEF IInv, TypeOK, Captured
  <2>6. results' \in Shortlist
    BY <1>1 DEF Shortlist, SearchOrNone
  <2>7. SomeRunning \in BOOLEAN
    BY DEF SomeRunning
  <2>8. /\ currentQuery' \in SearchOrNone /\ guidance' \in SearchOrNone
        /\ locationRequest' \in [of: SearchOrNone, status: {"none", "prompt", "requesting", "denied"}]
        /\ result' \in [of: Submissions \cup {None}, automation: Submissions \cup {None},
                        review: BOOLEAN]
        /\ searchLoading' \in BOOLEAN /\ crossed' \in BOOLEAN
    BY <1>1, <2>7 DEF SearchOrNone, NoLocationRequest, NoBooking, NewBooking
  <2> QED
    BY <1>1, <2>2, <2>3, <2>5, <2>6, <2>8
    DEF IInv, TypeOK, booking, Messages, SearchLabels, Captured, Shortlist
<1>3. /\ pc'[r] = IF held THEN "empty" ELSE "agent"
      /\ \A q \in Searches \ {r} : pc'[q] = pc[q]
  BY <1>1 DEF IInv, TypeOK
<1>4. ShownInv'
  <2>1. GuidanceOfShortlist' /\ ShortlistOfQuery'
    BY <1>1 DEF GuidanceOfShortlist, ShortlistOfQuery
  <2>2. LastSearchRuns'
    BY <1>1, <1>3 DEF LastSearchRuns, SomeRunning, Running
  <2>3. QuestionsAnswered'
    <3> SUFFICES ASSUME NEW q \in Searches, Say("question", q) \in conversation', ~Running(q)'
                 PROVE  Say("reply", q) \in conversation'
      BY DEF QuestionsAnswered, Say
    <3>1. CASE q = r
      BY <1>1, <1>3, <3>1 DEF Running
    <3>2. CASE q # r
      <4>1. ~Running(q) /\ Say("question", q) \in conversation
        BY <1>1, <1>3, <3>2 DEF Running, Say
      <4> QED
        BY <1>1, <4>1 DEF IInv, ShownInv, QuestionsAnswered
    <3> QED
      BY <3>1, <3>2
  <2>4. SpinnerMeansSearch'
    BY <1>1, <1>3 DEF SpinnerMeansSearch, SomeRunning, Running
  <2> QED
    BY <2>1, <2>2, <2>3, <2>4 DEF ShownInv
<1>5. BookingInv' /\ LocationOfSearch'
  BY <1>1, BookingCleared DEF IInv, booking, LocationOfSearch, NoLocationRequest
<1> QED
  BY <1>2, <1>4, <1>5 DEF IInv

\* A running search ends with an answer or with its failure: its shortlist is shown.
LEMMA EndInv ==
  ASSUME IInv, NEW r \in Searches, Running(r), NEW ids \in SUBSET Services,
         results' = [of |-> r, ids |-> ids],
         pc' = [pc EXCEPT ![r] = IF ids = {} THEN "empty" ELSE "done"],
         selected' \in {selected, None},
         guidance' \in {r, None},
         locationRequest' \in {[of |-> r, status |-> "prompt"], locationRequest},
         conversation' = conversation \cup {Say("reply", r)},
         searchLoading' = FALSE,
         req' = [req EXCEPT ![r] = NothingCaptured],
         UNCHANGED <<currentQuery, position, result, booking, crossed>>
  PROVE  IInv'
<1>1. TypeOK'
  <2>1. conversation' \in SUBSET Messages
    BY DEF IInv, TypeOK, Messages, Say
  <2>2. pc' \in [Searches -> SearchLabels]
    BY DEF IInv, TypeOK, SearchLabels
  <2>3. NothingCaptured \in Captured
    BY DEF NothingCaptured, Captured
  <2>4. req' \in [Searches -> Captured]
    BY <2>3 DEF IInv, TypeOK, Captured
  <2>5. /\ results' \in Shortlist /\ guidance' \in SearchOrNone
        /\ locationRequest' \in [of: SearchOrNone, status: {"none", "prompt", "requesting", "denied"}]
    BY DEF Shortlist, SearchOrNone, IInv, TypeOK
  <2> QED
    BY <2>1, <2>2, <2>4, <2>5
    DEF IInv, TypeOK, booking, position, Messages, SearchLabels, Captured, Shortlist
<1>2. pc'[r] \in {"empty", "done"} /\ \A q \in Searches \ {r} : pc'[q] = pc[q]
  BY DEF IInv, TypeOK
<1>3. \A q \in Searches : Running(q)' => Running(q)
  BY <1>2 DEF Running
<1>4. GuidanceOfShortlist'
  BY DEF GuidanceOfShortlist
<1>5. LastSearchRuns' /\ ShortlistOfQuery'
  BY <1>3 DEF IInv, ShownInv, LastSearchRuns, ShortlistOfQuery
<1>6. QuestionsAnswered'
  <2> SUFFICES ASSUME NEW q \in Searches, Say("question", q) \in conversation', ~Running(q)'
               PROVE  Say("reply", q) \in conversation'
    BY DEF QuestionsAnswered, Say
  <2>1. CASE q = r
    BY <2>1
  <2>2. CASE q # r
    <3>1. ~Running(q) /\ Say("question", q) \in conversation
      BY <1>2, <2>2 DEF Running, Say
    <3> QED
      BY <3>1 DEF IInv, ShownInv, QuestionsAnswered
  <2> QED
    BY <2>1, <2>2
<1>7. SpinnerMeansSearch'
  BY DEF SpinnerMeansSearch
<1>8. BookingInv' /\ LocationOfSearch'
  BY BookedStays, NoneAssumption DEF IInv, booking, booked, LocationOfSearch
<1> QED
  BY <1>1, <1>4, <1>5, <1>6, <1>7, <1>8 DEF IInv, ShownInv

\* An answer ends the search.
LEMMA ShowAnswerInv ==
  ASSUME IInv, NEW r \in Searches, Running(r), NEW used \in BOOLEAN,
         NEW ranked \in SUBSET Services, NEW asks \in BOOLEAN, ShowAnswer(r, used, ranked, asks)
  PROVE  IInv'
<1> DEFINE ids == IF ranked = {} /\ req[r].fast THEN req[r].preview ELSE ranked
<1>1. ids \in SUBSET Services
  BY DEF IInv, TypeOK
<1>2. PICK hold \in BOOLEAN :
        /\ results' = [of |-> r, ids |-> IF hold THEN {} ELSE ids]
        /\ pc' = [pc EXCEPT ![r] = IF results'.ids = {} THEN "empty" ELSE "done"]
        /\ selected' = IF selected \in results'.ids THEN selected ELSE None
        /\ guidance' = IF used THEN r ELSE None
        /\ locationRequest' \in {[of |-> r, status |-> "prompt"], locationRequest}
        /\ conversation' = conversation \cup {Say("reply", r)}
        /\ searchLoading' = FALSE
        /\ req' = [req EXCEPT ![r] = NothingCaptured]
        /\ UNCHANGED <<currentQuery, position, result, booking, crossed>>
  BY DEF ShowAnswer
<1> DEFINE shownIds == IF hold THEN {} ELSE ids
<1>3. shownIds \in SUBSET Services /\ results' = [of |-> r, ids |-> shownIds]
  BY <1>1, <1>2
<1>4. pc' = [pc EXCEPT ![r] = IF shownIds = {} THEN "empty" ELSE "done"]
  BY <1>2, <1>3
<1> HIDE DEF shownIds, ids
<1> QED
  BY <1>2, <1>3, <1>4, EndInv

\* A search goes on to its next await.
LEMMA AwaitInv ==
  ASSUME IInv, NEW r \in Searches, Running(r), NEW label \in {"live", "legacy"}, Await(r, label)
  PROVE  IInv'
<1>1. /\ pc' = [pc EXCEPT ![r] = label]
      /\ UNCHANGED <<shown, position, searchLoading, result, booking, req, crossed>>
  BY DEF Await
<1>2. TypeOK'
  <2>1. pc' \in [Searches -> SearchLabels]
    BY <1>1 DEF IInv, TypeOK, SearchLabels
  <2> QED
    BY <1>1, <2>1 DEF IInv, TypeOK, SearchLabels, shown, position, booking
<1>3. \A q \in Searches : Running(q)' <=> Running(q)
  BY <1>1 DEF Running, IInv, TypeOK
<1>4. ShownInv'
  <2>1. UNCHANGED <<currentQuery, results, guidance, conversation, searchLoading, crossed>>
    BY <1>1 DEF shown
  <2> QED
    BY <1>3, <2>1 DEF IInv, ShownInv, GuidanceOfShortlist, LastSearchRuns, ShortlistOfQuery,
       QuestionsAnswered, SpinnerMeansSearch, SomeRunning, Say
<1>5. BookingInv' /\ LocationOfSearch'
  BY <1>1, BookedStays DEF IInv, booking, booked, shown, LocationOfSearch
<1> QED
  BY <1>2, <1>4, <1>5 DEF IInv

\* The awaits of a search.
LEMMA SearchAwaitsInv ==
  ASSUME IInv, NEW r \in Searches, SearchAwaits(r)
  PROVE  IInv'
<1>1. CASE agentAnswers(r)
  <2>1. Running(r)
    BY <1>1 DEF agentAnswers, Running
  <2> QED
    BY <1>1, <2>1, ShowAnswerInv, AwaitInv DEF agentAnswers
<1>2. CASE liveReadAnswers(r)
  <2>1. Running(r)
    BY <1>2 DEF liveReadAnswers, Running
  <2> QED
    BY <1>2, <2>1, ShowAnswerInv, AwaitInv DEF liveReadAnswers
<1>3. CASE legacyAnswers(r)
  <2>1. Running(r)
    BY <1>3 DEF legacyAnswers, Running
  <2> QED
    BY <1>3, <2>1, ShowAnswerInv DEF legacyAnswers
<1>4. CASE legacyFails(r)
  <2>1. Running(r)
    BY <1>4 DEF legacyFails, Running
  <2> DEFINE ids == req[r].preview
  <2>2. ids \in SUBSET Services
    BY DEF IInv, TypeOK
  <2>3. /\ results' = [of |-> r, ids |-> ids]
        /\ pc' = [pc EXCEPT ![r] = IF ids = {} THEN "empty" ELSE "done"]
        /\ selected' \in {selected, None}
        /\ guidance' = None
        /\ conversation' = conversation \cup {Say("reply", r)}
        /\ searchLoading' = FALSE
        /\ req' = [req EXCEPT ![r] = NothingCaptured]
        /\ UNCHANGED <<currentQuery, locationRequest, position, result, booking, crossed>>
    BY <1>4 DEF legacyFails, GuidanceAfterFailure, RecoveryMessage, SpinnerAfter
  <2> HIDE DEF ids
  <2> QED
    BY <2>1, <2>2, <2>3, EndInv
<1> QED
  BY <1>1, <1>2, <1>3, <1>4 DEF SearchAwaits

-------------------------------------------------------------------------------
\* The location request, its answers and its dismissal touch nothing a search shows
\* but what the search they start does.
LEMMA PositionInv ==
  ASSUME IInv, \/ useCurrentLocation \/ typeSuburbInstead
               \/ \E r \in Searches : BrowserAnswers(r)
  PROVE  IInv'
<1> DEFINE Requests == [of: SearchOrNone, status: {"none", "prompt", "requesting", "denied"}]
<1>0. ASSUME UNCHANGED <<currentQuery, results, selected, guidance, conversation, geo,
                         searchLoading, result, booking, pc, req, crossed>>,
             locating' \in SUBSET Searches, locationRequest' \in Requests, LocationOfSearch'
      PROVE  IInv'
  <2>1. TypeOK'
    BY <1>0 DEF IInv, TypeOK, booking, SearchOrNone
  <2>2. ShownInv' /\ BookingInv'
    BY <1>0, SeenStays, BookedStays DEF IInv, seen, booked, booking
  <2> QED
    BY <1>0, <2>1, <2>2 DEF IInv
<1>1. CASE useCurrentLocation
  <2>1. PICK r : r = locationRequest.of
    OBVIOUS
  <2>2. r \in Searches /\ locationRequest' = [of |-> r, status |-> "requesting"]
    BY <1>1, <2>1 DEF useCurrentLocation, IInv, TypeOK, SearchOrNone, LocationOfSearch
  <2>3. locationRequest' \in Requests /\ LocationOfSearch'
    BY <2>2, NoneAssumption DEF SearchOrNone, LocationOfSearch
  <2>4. locating' \in SUBSET Searches
    BY <1>1, <2>1, <2>2 DEF useCurrentLocation, IInv, TypeOK
  <2> QED
    BY <1>0, <1>1, <2>3, <2>4 DEF useCurrentLocation
<1>3. CASE typeSuburbInstead
  <2>1. /\ locationRequest' \in Requests /\ LocationOfSearch'
        /\ locating' \in SUBSET Searches
    BY <1>3 DEF typeSuburbInstead, position, NoLocationRequest, LocationOfSearch, SearchOrNone,
       IInv, TypeOK
  <2> QED
    BY <1>0, <1>3, <2>1 DEF typeSuburbInstead, position
<1>4. ASSUME NEW r \in Searches, positionDenied(r) PROVE IInv'
  <2>1. /\ locationRequest' \in Requests /\ LocationOfSearch'
        /\ locating' \in SUBSET Searches
    BY <1>4, NoneAssumption DEF positionDenied, LocationOfSearch, SearchOrNone, IInv, TypeOK
  <2> QED
    BY <1>0, <1>4, <2>1 DEF positionDenied
<1>2. ASSUME NEW r \in Searches, NEW again \in Searches, positionGranted(r, again) PROVE IInv'
  <2>1. geo' \in BOOLEAN /\ locating' \in SUBSET Searches /\ runSearch(again, TRUE)
    BY <1>2 DEF positionGranted, IInv, TypeOK
  <2> QED
    BY <2>1, RunSearchInv
<1> QED
  BY <1>1, <1>2, <1>3, <1>4 DEF BrowserAnswers

\* A service is chosen: the booking that is shown goes.
LEMMA SelectInv ==
  ASSUME IInv, NEW s \in Services, select(s)
  PROVE  IInv'
<1>1. /\ selected' = s /\ result' = NoBooking
      /\ UNCHANGED <<currentQuery, results, guidance, locationRequest, conversation,
                      position, searchLoading, booking, pc, req, crossed>>
  BY DEF select
<1>2. TypeOK'
  BY <1>1 DEF IInv, TypeOK, position, booking, NoBooking, NewBooking
<1>3. ShownInv' /\ BookingInv' /\ LocationOfSearch'
  BY <1>1, SeenStays, BookingCleared DEF IInv, seen, booking, LocationOfSearch
<1> QED
  BY <1>2, <1>3 DEF IInv

\* The Home button clears the page; as a booking is shown, none is being created.
LEMMA HomeInv ==
  ASSUME IInv, returnToHomepageSearch
  PROVE  IInv'
<1>1. /\ result.of # None /\ result' = NoBooking
      /\ submitLoading' = FALSE
      /\ currentQuery' = None /\ results' = NoShortlist
      /\ selected' = None /\ guidance' = None
      /\ locationRequest' = NoLocationRequest
      /\ conversation' = {}
      /\ crossed' = SomeRunning
      /\ UNCHANGED <<geo, locating, searchLoading, stage, announced, announcements, handedOff,
                      pc, req>>
  BY DEF returnToHomepageSearch, position
<1>2. TypeOK'
  <2>1. SomeRunning \in BOOLEAN
    BY DEF SomeRunning
  <2> QED
    BY <1>1, <2>1 DEF IInv, TypeOK, NoBooking, NewBooking, NoShortlist,
       NoLocationRequest, SearchOrNone
<1>3. ShownInv'
  BY <1>1 DEF IInv, ShownInv, GuidanceOfShortlist, LastSearchRuns, ShortlistOfQuery, NoShortlist,
     QuestionsAnswered, SpinnerMeansSearch, SomeRunning, Running
<1>4. submitLoading' = submitLoading
  BY <1>1 DEF IInv, TypeOK, BookingInv, BookingShown
<1>5. BookingInv' /\ LocationOfSearch'
  BY <1>1, <1>4, BookingCleared DEF IInv, LocationOfSearch, NoLocationRequest
<1> QED
  BY <1>2, <1>3, <1>5 DEF IInv

-------------------------------------------------------------------------------
\* What a submission leaves alone.
LEMMA SubmissionStep ==
  ASSUME IInv, TypeOK', BookingInv',
         UNCHANGED <<shown, position, searchLoading, pc, req, crossed>>
  PROVE  IInv'
BY SeenStays DEF IInv, seen, shown, LocationOfSearch

\* A form is submitted: it was not locked, so no other one is being created.
LEMMA SubmitInv ==
  ASSUME IInv, NEW b \in Submissions, handleBookingSubmit(b)
  PROVE  IInv'
<1>1. /\ stage[b] = "idle" /\ result.of = None /\ ~submitLoading
      /\ submitLoading' = TRUE /\ result' = NoBooking
      /\ stage' = [stage EXCEPT ![b] = "create"]
      /\ UNCHANGED <<shown, position, searchLoading, announced, announcements, handedOff,
                      pc, req, crossed>>
  BY DEF handleBookingSubmit, To
<1>2. stage'[b] = "create" /\ \A a \in Submissions \ {b} : stage'[a] = stage[a]
  BY <1>1 DEF IInv, TypeOK
<1>3. TypeOK'
  <2>1. stage' \in [Submissions -> StageLabels]
    BY <1>1 DEF IInv, TypeOK, StageLabels
  <2> QED
    BY <1>1, <2>1 DEF IInv, TypeOK, NoBooking, NewBooking, StageLabels, shown, position
<1>4. OneSubmissionAtATime'
  BY <1>1, <1>2 DEF IInv, BookingInv, OneSubmissionAtATime, Creating
<1>5. BookingShown' /\ AutomationOfItsBooking'
  BY <1>1 DEF BookingShown, AutomationOfItsBooking, NoBooking, NewBooking
<1>6. NotYetAnnounced' /\ AnnouncedOnce' /\ BookingFollowedUp'
  BY <1>1, <1>2, NoneAssumption
     DEF IInv, BookingInv, NotYetAnnounced, AnnouncedOnce, BookingFollowedUp, NoBooking, NewBooking
<1> QED
  BY <1>1, <1>3, <1>4, <1>5, <1>6, SubmissionStep DEF BookingInv

\* The booking is there: it is shown and announced.
LEMMA CreatedInv ==
  ASSUME IInv, NEW b \in Submissions, bookingCreated(b)
  PROVE  IInv'
<1> DEFINE label == IF isLiveReadMode THEN "payment" ELSE "done"
<1>1. /\ stage[b] = "create"
      /\ result' = [of |-> b, automation |-> None, review |-> FALSE]
      /\ submitLoading' = FALSE
      /\ stage' = [stage EXCEPT ![b] = label]
      /\ UNCHANGED <<shown, position, searchLoading, handedOff, pc, req, crossed>>
  BY DEF bookingCreated, To, NewBooking
<1>2. announcements[b] = 0 /\ announced # b /\ b # None
  BY <1>1, NoneAssumption DEF IInv, BookingInv, NotYetAnnounced
<1>3. announced' = b /\ announcements' = [announcements EXCEPT ![b] = announcements[b] + 1]
  BY <1>2 DEF bookingCreated, Announce
<1>4. /\ stage'[b] = label /\ \A a \in Submissions \ {b} : stage'[a] = stage[a]
      /\ announcements'[b] = 1
      /\ \A a \in Submissions \ {b} : announcements'[a] = announcements[a]
  BY <1>1, <1>2, <1>3 DEF IInv, TypeOK
<1>5. TypeOK'
  <2>1. stage' \in [Submissions -> StageLabels]
    BY <1>1 DEF IInv, TypeOK, StageLabels
  <2>2. announcements' \in [Submissions -> Nat]
    BY <1>2, <1>3 DEF IInv, TypeOK
  <2>3. /\ result' \in [of: Submissions \cup {None}, automation: Submissions \cup {None},
                         review: BOOLEAN]
        /\ announced' \in Submissions \cup {None} /\ submitLoading' \in BOOLEAN
    BY <1>1, <1>3
  <2> QED
    BY <1>1, <2>1, <2>2, <2>3 DEF IInv, TypeOK, StageLabels, shown, position
<1>6. OneSubmissionAtATime'
  <2>1. \A a \in Submissions : Creating(a) => a = b
    BY <1>1 DEF IInv, BookingInv, OneSubmissionAtATime, Creating
  <2> QED
    BY <1>1, <1>4, <2>1 DEF OneSubmissionAtATime, Creating
<1>7. BookingShown' /\ AutomationOfItsBooking'
  BY <1>1, <1>3 DEF BookingShown, AutomationOfItsBooking
<1>8. NotYetAnnounced' /\ AnnouncedOnce'
  BY <1>3, <1>4 DEF IInv, BookingInv, NotYetAnnounced, AnnouncedOnce
<1>9. BookingFollowedUp'
  BY <1>1, <1>4 DEF IInv, BookingInv, BookingFollowedUp
<1> QED
  BY <1>1, <1>5, <1>6, <1>7, <1>8, <1>9, SubmissionStep DEF BookingInv

\* The booking fails: the form opens again.
LEMMA FailsInv ==
  ASSUME IInv, NEW b \in Submissions, bookingFails(b)
  PROVE  IInv'
<1>1. /\ stage[b] = "create" /\ submitLoading' = FALSE
      /\ stage' = [stage EXCEPT ![b] = "failed"]
      /\ UNCHANGED <<shown, position, searchLoading, result, announced, announcements, handedOff,
                      pc, req, crossed>>
  BY DEF bookingFails, To
<1>2. stage'[b] = "failed" /\ \A a \in Submissions \ {b} : stage'[a] = stage[a]
  BY <1>1 DEF IInv, TypeOK
<1>3. TypeOK'
  <2>1. stage' \in [Submissions -> StageLabels]
    BY <1>1 DEF IInv, TypeOK, StageLabels
  <2>2. UNCHANGED <<currentQuery, results, selected, guidance, conversation, locationRequest, geo,
                    locating>>
    BY <1>1 DEF shown, position
  <2>3. UNCHANGED <<searchLoading, result, announced, announcements, handedOff, pc, req, crossed>>
        /\ submitLoading' \in BOOLEAN
    BY <1>1
  <2>4. TypeOK
    BY DEF IInv
  <2> QED
    BY <2>1, <2>2, <2>3, <2>4 DEF TypeOK, StageLabels
<1>4. OneSubmissionAtATime'
  <2>1. \A a \in Submissions : Creating(a) => a = b
    BY <1>1 DEF IInv, BookingInv, OneSubmissionAtATime, Creating
  <2> QED
    BY <1>1, <1>2, <2>1 DEF OneSubmissionAtATime, Creating
<1>5. BookingShown' /\ AutomationOfItsBooking' /\ NotYetAnnounced' /\ AnnouncedOnce'
        /\ BookingFollowedUp'
  BY <1>1, <1>2 DEF IInv, BookingInv, BookingShown, AutomationOfItsBooking, NotYetAnnounced,
     AnnouncedOnce, BookingFollowedUp
<1> QED
  BY <1>1, <1>3, <1>4, <1>5, SubmissionStep DEF BookingInv

\* A call of the automation is over, whatever came of it.
LEMMA CallInv ==
  ASSUME IInv, NEW b \in Submissions, automationCall(b)
  PROVE  IInv'
<1>1. PICK next \in {"email", "sms", "whatsapp", "handoff"} :
        /\ stage[b] \in {"payment", "email", "sms", "whatsapp"}
        /\ stage' = [stage EXCEPT ![b] = next]
        /\ UNCHANGED <<shown, position, searchLoading, result, submitLoading, announced,
                        announcements, handedOff, pc, req, crossed>>
  BY DEF automationCall, To, AfterPayment, AfterEmail
<1>2. stage'[b] = next /\ \A a \in Submissions \ {b} : stage'[a] = stage[a]
  BY <1>1 DEF IInv, TypeOK
<1>3. TypeOK'
  <2>1. stage' \in [Submissions -> StageLabels]
    BY <1>1 DEF IInv, TypeOK, StageLabels
  <2> QED
    BY <1>1, <2>1 DEF IInv, TypeOK, StageLabels, shown, position
<1>4. \A a \in Submissions : Creating(a)' <=> Creating(a)
  BY <1>1, <1>2 DEF Creating
<1>5. OneSubmissionAtATime'
  BY <1>1, <1>4 DEF IInv, BookingInv, OneSubmissionAtATime
<1>6. BookingShown' /\ AutomationOfItsBooking' /\ NotYetAnnounced' /\ AnnouncedOnce'
        /\ BookingFollowedUp'
  BY <1>1, <1>2 DEF IInv, BookingInv, BookingShown, AutomationOfItsBooking, NotYetAnnounced,
     AnnouncedOnce, BookingFollowedUp
<1> QED
  BY <1>1, <1>3, <1>5, <1>6, SubmissionStep DEF BookingInv

\* The handoff call is over; the booking is enriched if it is the one shown, which was
\* announced already.
LEMMA HandoffInv ==
  ASSUME IInv, NEW b \in Submissions, queueHandoff(b)
  PROVE  IInv'
<1>1. PICK failed \in BOOLEAN :
        /\ stage[b] = "handoff"
        /\ handedOff' \in {handedOff \cup {b}} \cup (IF failed THEN {handedOff} ELSE {})
        /\ result' = Enriched(b, failed)
        /\ Announce(result'.of)
        /\ stage' = [stage EXCEPT ![b] = "done"]
        /\ UNCHANGED <<shown, position, searchLoading, submitLoading, pc, req, crossed>>
  BY DEF queueHandoff, To
<1>2. /\ result' \in [of: Submissions \cup {None}, automation: Submissions \cup {None},
                      review: BOOLEAN]
      /\ result'.of = result.of
      /\ result'.automation \in {None, result'.of}
      /\ result.of = b => result'.review = failed
      /\ result.of # b => result'.review = result.review
  BY <1>1 DEF IInv, TypeOK, Enriched, BookingInv, AutomationOfItsBooking
<1>3. UNCHANGED <<announced, announcements>>
  BY <1>1, <1>2 DEF Announce, IInv, BookingInv, BookingShown
<1>4. stage'[b] = "done" /\ \A a \in Submissions \ {b} : stage'[a] = stage[a]
  BY <1>1 DEF IInv, TypeOK
<1>5. TypeOK'
  <2>1. stage' \in [Submissions -> StageLabels]
    BY <1>1 DEF IInv, TypeOK, StageLabels
  <2> QED
    BY <1>1, <1>2, <1>3, <2>1 DEF IInv, TypeOK, StageLabels, shown, position
<1>6. \A a \in Submissions : Creating(a)' <=> Creating(a)
  BY <1>1, <1>4 DEF Creating
<1>7. OneSubmissionAtATime'
  BY <1>1, <1>6 DEF IInv, BookingInv, OneSubmissionAtATime
<1>8. BookingShown' /\ AutomationOfItsBooking'
  BY <1>1, <1>2, <1>3 DEF IInv, BookingInv, BookingShown, AutomationOfItsBooking
<1>9. NotYetAnnounced' /\ AnnouncedOnce'
  BY <1>1, <1>3, <1>4 DEF IInv, BookingInv, NotYetAnnounced, AnnouncedOnce
<1>10. BookingFollowedUp'
  <2>1. handedOff' = handedOff \cup {b} \/ (failed /\ handedOff' = handedOff)
    BY <1>1
  <2> QED
    BY <1>2, <1>4, <2>1 DEF IInv, BookingInv, BookingFollowedUp
<1> QED
  BY <1>1, <1>5, <1>7, <1>8, <1>9, <1>10, SubmissionStep DEF BookingInv

-------------------------------------------------------------------------------
\* Every step keeps the invariant.
LEMMA NextIInv == IInv /\ [Next]_vars => IInv'
<1> SUFFICES ASSUME IInv, [Next]_vars PROVE IInv'
  OBVIOUS
<1>1. CASE UNCHANGED vars
  <2>1. TypeOK'
    BY <1>1 DEF vars, IInv, TypeOK, shown, position, booking
  <2> QED
    BY <1>1, <2>1, SeenStays, BookedStays DEF vars, IInv, shown, booking, seen, booked,
       LocationOfSearch
<1>2. ASSUME NEW r \in Searches, Search(r) PROVE IInv'
  <2>1. runSearch(r, geo) /\ geo' = geo /\ locating' = locating
    BY <1>2 DEF Search, position
  <2>2. geo \in BOOLEAN /\ locating \in SUBSET Searches
    BY DEF IInv, TypeOK
  <2> QED
    BY <2>1, <2>2, RunSearchInv
<1>3. CASE commitServiceSelection \/ handlePreviewBook
  BY <1>3, SelectInv DEF commitServiceSelection, handlePreviewBook, IInv, TypeOK
<1>4. CASE Next
  BY <1>2, <1>3, <1>4, PositionInv, HomeInv, SubmitInv, SearchAwaitsInv, CreatedInv, FailsInv,
     CallInv, HandoffInv DEF Next, Visitor, SubmissionAwaits
<1> QED
  BY <1>1, <1>4

\* The invariant holds of every reachable state.
LEMMA Invariance == Spec => []IInv
  BY InitIInv, NextIInv, PTL DEF Spec

\* Every variable has its type; a shortlist only holds services, and a location request
\* that waits for the browser is one of a search.
THEOREM TypeCorrect == Spec => []TypeOK
<1>1. IInv => TypeOK
  BY DEF IInv
<1> QED
  BY <1>1, Invariance, PTL

\* The booking path that a form submits comes from the search whose shortlist is shown.
THEOREM GuidanceFitsShortlist == Spec => []GuidanceOfShortlist
<1>1. IInv => GuidanceOfShortlist
  BY DEF IInv, ShownInv
<1> QED
  BY <1>1, Invariance, PTL

\* The shortlist answers the query that is shown unless a search was crossed.
THEOREM ShortlistFitsQuery == Spec => []ShortlistOfQuery
<1>1. IInv => ShortlistOfQuery
  BY DEF IInv, ShownInv
<1> QED
  BY <1>1, Invariance, PTL

\* No search ends without its reply in the conversation, on any of its paths.
THEOREM EveryQuestionAnswered == Spec => []QuestionsAnswered
<1>1. IInv => QuestionsAnswered
  BY DEF IInv, ShownInv
<1> QED
  BY <1>1, Invariance, PTL

\* The form is locked exactly while its one submission is created.
THEOREM FormLockHolds == Spec => []OneSubmissionAtATime
<1>1. IInv => OneSubmissionAtATime
  BY DEF IInv, BookingInv
<1> QED
  BY <1>1, Invariance, PTL

\* No booking is confirmed twice, though every enrichment runs the effect again.
THEOREM ConfirmedOnce == Spec => []AnnouncedOnce
<1>1. IInv => AnnouncedOnce
  BY DEF IInv, BookingInv
<1> QED
  BY <1>1, Invariance, PTL

\* The automation of one booking is never shown with another.
THEOREM AutomationFitsBooking == Spec => []AutomationOfItsBooking
<1>1. IInv => AutomationOfItsBooking
  BY DEF IInv, BookingInv
<1> QED
  BY <1>1, Invariance, PTL

\* The spinner only turns while a search runs.
THEOREM SpinnerHasSearch == Spec => []SpinnerMeansSearch
<1>1. IInv => SpinnerMeansSearch
  BY DEF IInv, ShownInv
<1> QED
  BY <1>1, Invariance, PTL

\* A booking that is shown with its automation over was handed to revenue operations or
\* is marked for manual review, whichever calls of the automation failed.
THEOREM BookingsFollowedUp == Spec => []BookingFollowedUp
<1>1. IInv => BookingFollowedUp
  BY DEF IInv, BookingInv
<1> QED
  BY <1>1, Invariance, PTL
================================================================================
