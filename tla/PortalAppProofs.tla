---------------------------- MODULE PortalAppProofs ----------------------------
(***************************************************************************)
(* Proofs about PortalApp, for any number of bookings and calls and for    *)
(* every link.  A call under way uses a number that has been sent, so a    *)
(* new call overwrites none; and while a request is under way no outcome   *)
(* is shown, so its own is shown alone.                                    *)
(***************************************************************************)
EXTENDS PortalApp, TLAPS

Assumptions ==
  /\ MaxCalls \in Nat \ {0}
  /\ None \notin References \cup PortalRequestMode
  /\ initialReference \in References \cup {None}
  /\ linkedRequests \subseteq PortalRequestMode \cup {None}
  /\ storedTokens \subseteq References

Kinds == LoadKinds \cup {"none", "request", "reminders", "care"}
CallRow == [kind : Kinds, ref : Marked, token : BOOLEAN, mode : Modes, note : Modes,
            headers : BOOLEAN]

\* An expired token is a stored one.
StoreTyped == tokens \subseteq References /\ expired \subseteq tokens

\* A call that has not been made, or has settled, is NoCall; the others are about a
\* booking, and a request has a mode and at most a note written for it.
CallsMade ==
  \A c \in Calls :
    /\ c > sent => calls[c] = NoCall
    /\ calls[c].kind = "none" \/ calls[c].ref \in References
    /\ calls[c].kind = "request" => /\ calls[c].mode \in PortalRequestMode
                                    /\ calls[c].note \in {calls[c].mode, None}

\* No outcome is shown while a request is under way.
NothingShownYet ==
  RequestsPending # {} => requestMessage = None /\ requestError = None

\* What is typed in an open composer was typed for its mode.
NoteOfComposer == requestMode # None => note \in {requestMode, None}

\* The switch is off while its call is under way or because a call succeeded.
SwitchBacked == ~reminders.enabled => reminders.busy \/ stopped # {}

IInv ==
  /\ TypeOK /\ CallsMade /\ NothingShownYet /\ NoteOfComposer /\ SwitchBacked
  /\ OneRequestAtATime /\ OneOutcomeShown /\ NoteOfItsMode /\ SpinnerMeansCall

-------------------------------------------------------------------------------
\* The constants are as the model assumes.
LEMMA ConstantsFit == Assumptions
BY CallsAssumption, NoneAssumption, ReferenceAssumption, RequestAssumption,
   TokensAssumption DEF Assumptions

\* A call to be sent has the type of a call.
LEMMA CallTyped ==
  ASSUME NEW kind \in Kinds, NEW r \in Marked, NEW token \in BOOLEAN,
         NEW mode \in Modes, NEW text \in Modes
  PROVE  /\ Call(kind, r, token, mode, text) \in CallRow
         /\ Call(kind, r, token, mode, text).kind = kind
         /\ Call(kind, r, token, mode, text).ref = r
         /\ Call(kind, r, token, mode, text).mode = mode
         /\ Call(kind, r, token, mode, text).note = text
BY DEF Call, CallRow

\* Asking for a token, or clearing it, adds none.
LEMMA StoreShrinks ==
  ASSUME StoreTyped, NEW r,
         clearPortalAccessToken(r) \/ getPortalAccessToken(r) \/ UNCHANGED tokenStore
  PROVE  StoreTyped' /\ tokens' \subseteq tokens /\ expired' \subseteq expired
BY DEF StoreTyped, clearPortalAccessToken, getPortalAccessToken, tokenStore

\* The type invariant speaks of the token store.
LEMMA StoreFits == IInv => StoreTyped
BY DEF IInv, TypeOK, StoreTyped

\* The record of no call has the type of a call.
LEMMA NoCallTyped == NoCall \in CallRow /\ NoCall.kind = "none" /\ NoCall.ref = None
BY DEF NoCall, Call, CallRow, Kinds, Marked, Modes

\* The initial state satisfies the invariant.
LEMMA InitIInv == Init => IInv
<1> SUFFICES ASSUME Init PROVE IInv
  OBVIOUS
<1> USE ConstantsFit DEF Assumptions
<1> DEFINE carried == initialReference \in tokens
<1> DEFINE first == Call("load", initialReference, carried, None, None)
<1>0. /\ first \in CallRow /\ first.kind = "load" /\ first.ref = initialReference
  <2>1. carried \in BOOLEAN
    OBVIOUS
  <2> HIDE DEF carried
  <2>2. "load" \in Kinds /\ initialReference \in Marked /\ None \in Modes
    BY DEF Kinds, LoadKinds, Marked, Modes
  <2> QED
    BY <2>1, <2>2, CallTyped
<1>a. calls = [c \in Calls |-> IF c = 1 /\ initialReference # None THEN first ELSE NoCall]
  BY DEF Init
<1> HIDE DEF first
<1>1. \A c \in Calls :
        \/ /\ c = 1 /\ initialReference # None /\ calls[c] = first
        \/ /\ c # 1 \/ initialReference = None
           /\ calls[c] = NoCall
  BY <1>a
<1>2. calls \in [Calls -> CallRow]
  BY <1>0, <1>a, NoCallTyped
<1>3. TypeOK
  <2>1. /\ loadState \in [status : {"idle", "loading", "ready", "error"}, ref : Marked,
                          recoverable : BOOLEAN]
        /\ loadState.ref = None <=> loadState.status = "idle"
    BY DEF Init, Idle, Loading, Marked
  <2>2. /\ requestMode \in Modes /\ note \in Modes
        /\ requestMessage \in Marked /\ requestError \in Marked
        /\ care \in [turn : Marked, error : Marked, loading : BOOLEAN]
        /\ reminders \in [enabled : BOOLEAN, busy : BOOLEAN]
    BY DEF Init, Marked, Modes
  <2>3. sent \in 0 .. MaxCalls
    BY DEF Init
  <2>4. StoreTyped
    BY DEF Init, StoreTyped
  <2>5. initialRequest \in linkedRequests /\ submittingRequest \in BOOLEAN
        /\ filed = {} /\ stopped = {}
    BY DEF Init
  <2> QED
    BY <1>2, <2>1, <2>2, <2>3, <2>4, <2>5 DEF TypeOK, CallRow, Kinds, StoreTyped
<1>4. CallsMade
  BY <1>0, <1>1, NoCallTyped DEF CallsMade, Init, Calls
<1>5. RequestsPending = {}
  BY <1>0, <1>1, NoCallTyped DEF RequestsPending
<1>6. NothingShownYet /\ OneRequestAtATime /\ OneOutcomeShown /\ NoteOfItsMode
  BY <1>5 DEF NothingShownYet, OneRequestAtATime, OneOutcomeShown, NoteOfItsMode, Init
<1>7. NoteOfComposer /\ SwitchBacked
  BY DEF NoteOfComposer, SwitchBacked, Init
<1>8. SpinnerMeansCall
  <2>1. CASE initialReference = None
    BY <2>1 DEF SpinnerMeansCall, Init, Idle
  <2>2. CASE initialReference # None
    <3>1. 1 \in Calls
      BY DEF Calls
    <3>2. calls[1].kind = "load" /\ calls[1].ref = initialReference
      BY <2>2, <3>1, <1>0, <1>1
    <3>3. loadState.ref = initialReference
      BY <2>2 DEF Init, Loading
    <3> QED
      BY <3>1, <3>2, <3>3 DEF SpinnerMeansCall, LoadKinds
  <2> QED
    BY <2>1, <2>2
<1> QED
  BY <1>3, <1>4, <1>6, <1>7, <1>8 DEF IInv

-------------------------------------------------------------------------------
\* Sending a call leaves the calls under way alone.
LEMMA SendKeepsCalls ==
  ASSUME IInv, NEW call \in CallRow, Send(call),
         call.ref \in References,
         call.kind = "request" => call.mode \in PortalRequestMode
                                  /\ call.note \in {call.mode, None}
  PROVE  /\ calls' \in [Calls -> CallRow] /\ sent' \in 0 .. MaxCalls
         /\ CallsMade'
         /\ sent + 1 \in Calls /\ calls[sent + 1] = NoCall /\ calls'[sent + 1] = call
         /\ \A c \in Calls : c # sent + 1 => calls'[c] = calls[c]
<1> USE ConstantsFit DEF Assumptions, Calls
<1>1. calls \in [Calls -> CallRow] /\ sent \in 0 .. MaxCalls
  BY DEF IInv, TypeOK, CallRow, Kinds
<1>2. /\ sent < MaxCalls /\ sent' = sent + 1
      /\ calls' = [calls EXCEPT ![sent + 1] = call]
  BY DEF Send
<1>3. sent + 1 \in Calls /\ calls[sent + 1] = NoCall
  BY <1>1, <1>2 DEF IInv, CallsMade
<1>4. \A c \in Calls : c # sent + 1 => calls'[c] = calls[c]
  BY <1>1, <1>2
<1>5. calls'[sent + 1] = call
  BY <1>1, <1>2, <1>3
<1>6. calls' \in [Calls -> CallRow] /\ sent' \in 0 .. MaxCalls
  BY <1>1, <1>2, <1>3
<1>7. CallsMade'
  <2> SUFFICES ASSUME NEW c \in Calls
               PROVE  /\ c > sent' => calls'[c] = NoCall
                      /\ calls'[c].kind = "none" \/ calls'[c].ref \in References
                      /\ calls'[c].kind = "request" =>
                           /\ calls'[c].mode \in PortalRequestMode
                           /\ calls'[c].note \in {calls'[c].mode, None}
    BY DEF CallsMade
  <2>1. CASE c = sent + 1
    BY <2>1, <1>1, <1>2, <1>5
  <2>2. CASE c # sent + 1
    <3>1. calls'[c] = calls[c]
      BY <2>2, <1>4
    <3> QED
      BY <3>1, <1>1, <1>2 DEF IInv, CallsMade
  <2> QED
    BY <2>1, <2>2
<1> QED
  BY <1>3, <1>4, <1>5, <1>6, <1>7

\* A call that settles leaves the others alone.
LEMMA SettleKeepsCalls ==
  ASSUME IInv, NEW c \in Calls, Settle(c)
  PROVE  /\ calls' \in [Calls -> CallRow] /\ sent' \in 0 .. MaxCalls
         /\ CallsMade'
         /\ calls'[c] = NoCall
         /\ \A d \in Calls : d # c => calls'[d] = calls[d]
<1>1. calls \in [Calls -> CallRow] /\ sent \in 0 .. MaxCalls
  BY DEF IInv, TypeOK, CallRow, Kinds
<1>2. calls' = [calls EXCEPT ![c] = NoCall] /\ sent' = sent
  BY DEF Settle
<1>3. \A d \in Calls : d # c => calls'[d] = calls[d]
  BY <1>1, <1>2
<1>4. calls'[c] = NoCall
  BY <1>1, <1>2
<1>5. calls' \in [Calls -> CallRow]
  BY <1>1, <1>2, NoCallTyped
<1>6. CallsMade'
  <2> SUFFICES ASSUME NEW d \in Calls
               PROVE  /\ d > sent' => calls'[d] = NoCall
                      /\ calls'[d].kind = "none" \/ calls'[d].ref \in References
                      /\ calls'[d].kind = "request" =>
                           /\ calls'[d].mode \in PortalRequestMode
                           /\ calls'[d].note \in {calls'[d].mode, None}
    BY DEF CallsMade
  <2>1. calls'[d] \in {calls[d], NoCall}
    BY <1>3, <1>4
  <2> QED
    BY <2>1, <1>2, NoCallTyped DEF IInv, CallsMade
<1> QED
  BY <1>1, <1>2, <1>3, <1>4, <1>5, <1>6

\* What a call that is sent does to the requests under way and to the spinner.
LEMMA SendPending ==
  ASSUME IInv, NEW call \in CallRow, Send(call),
         call.ref \in References,
         call.kind = "request" => call.mode \in PortalRequestMode
                                  /\ call.note \in {call.mode, None}
  PROVE  /\ call.kind # "request" => RequestsPending' = RequestsPending
         /\ call.kind = "request" => RequestsPending' = RequestsPending \cup {sent + 1}
         /\ loadState' = loadState => SpinnerMeansCall'
         /\ call.kind \in LoadKinds /\ loadState'.ref = call.ref => SpinnerMeansCall'
<1>1. /\ sent + 1 \in Calls /\ calls[sent + 1].kind = "none" /\ calls'[sent + 1] = call
      /\ \A c \in Calls : c # sent + 1 => calls'[c] = calls[c]
  BY SendKeepsCalls, NoCallTyped
<1>2. SpinnerMeansCall
  BY DEF IInv
<1>3. loadState' = loadState => SpinnerMeansCall'
  BY <1>1, <1>2 DEF SpinnerMeansCall, LoadKinds
<1>4. call.kind \in LoadKinds /\ loadState'.ref = call.ref => SpinnerMeansCall'
  BY <1>1 DEF SpinnerMeansCall
<1>5. /\ call.kind # "request" => RequestsPending' = RequestsPending
      /\ call.kind = "request" => RequestsPending' = RequestsPending \cup {sent + 1}
  BY <1>1 DEF RequestsPending
<1> QED
  BY <1>3, <1>4, <1>5

\* What a call that settles does to them.
LEMMA SettlePending ==
  ASSUME IInv, NEW c \in Calls, Settle(c)
  PROVE  /\ RequestsPending' = RequestsPending \ {c}
         /\ loadState' = loadState /\ calls[c].kind \notin LoadKinds => SpinnerMeansCall'
         /\ loadState'.status # "loading" => SpinnerMeansCall'
<1>1. /\ calls'[c].kind = "none"
      /\ \A d \in Calls : d # c => calls'[d] = calls[d]
  BY SettleKeepsCalls, NoCallTyped
<1>2. SpinnerMeansCall
  BY DEF IInv
<1>3. loadState' = loadState /\ calls[c].kind \notin LoadKinds => SpinnerMeansCall'
  BY <1>1, <1>2 DEF SpinnerMeansCall
<1>4. loadState'.status # "loading" => SpinnerMeansCall'
  BY DEF SpinnerMeansCall
<1>5. RequestsPending' = RequestsPending \ {c}
  BY <1>1 DEF RequestsPending
<1> QED
  BY <1>3, <1>4, <1>5

\* The states of a page that loads, shows or fails to load a booking have their type.
LEMMA LoadTyped ==
  ASSUME NEW r \in References, NEW again \in BOOLEAN
  PROVE  \A state \in {Loading(r), Ready(r), Failed(r, again)} :
           /\ state \in [status : {"idle", "loading", "ready", "error"}, ref : Marked,
                         recoverable : BOOLEAN]
           /\ state.ref = r /\ state.ref # None /\ state.status # "idle"
<1> DEFINE Fits(state) ==
      /\ state \in [status : {"idle", "loading", "ready", "error"}, ref : Marked,
                    recoverable : BOOLEAN]
      /\ state.ref = r /\ state.ref # None /\ state.status # "idle"
<1>0. r \in Marked /\ r # None
  BY ConstantsFit DEF Assumptions, Marked
<1>1. Fits(Loading(r))
  BY <1>0 DEF Loading
<1>2. Fits(Ready(r))
  BY <1>0 DEF Ready
<1>3. Fits(Failed(r, again))
  BY <1>0 DEF Failed
<1> QED
  BY <1>1, <1>2, <1>3

\* The steps of the customer that send nothing.
LEMMA QuietInv ==
  ASSUME IInv,
         \/ clearLookup \/ closeRequestComposer \/ writeNote
         \/ \E mode \in PortalRequestMode : openRequestComposer(mode)
  PROVE  IInv'
<1> USE ConstantsFit DEF Assumptions
<1>0. /\ UNCHANGED <<initialRequest, submittingRequest, care, reminders, tokens, expired,
                     sent, calls, filed, stopped>>
      /\ loadState' \in {loadState, Idle}
  BY DEF clearLookup, closeRequestComposer, writeNote, openRequestComposer, Quiet, others, api,
         OpenComposer, tokenStore
<1>1. \/ UNCHANGED composer
      \/ requestMode' = None /\ UNCHANGED <<note, requestMessage, requestError>>
      \/ /\ note' = requestMode /\ requestMode # None
         /\ UNCHANGED <<requestMode, requestMessage, requestError>>
      \/ /\ requestMode' \in PortalRequestMode /\ note' = None
         /\ requestMessage' = None /\ requestError' = None
  BY DEF clearLookup, closeRequestComposer, writeNote, openRequestComposer, OpenComposer
<1>2. TypeOK'
  <2>1. /\ loadState' \in [status : {"idle", "loading", "ready", "error"}, ref : Marked,
                           recoverable : BOOLEAN]
        /\ loadState'.ref = None <=> loadState'.status = "idle"
    <3>1. /\ Idle \in [status : {"idle", "loading", "ready", "error"}, ref : Marked,
                       recoverable : BOOLEAN]
          /\ Idle.ref = None /\ Idle.status = "idle"
      BY DEF Idle, Marked
    <3> QED
      BY <3>1, <1>0 DEF IInv, TypeOK
  <2>2. /\ requestMode' \in Modes /\ note' \in Modes
        /\ requestMessage' \in Marked /\ requestError' \in Marked
    BY <1>1 DEF IInv, TypeOK, composer, Marked, Modes
  <2> QED
    BY <1>0, <2>1, <2>2 DEF IInv, TypeOK
<1>3. RequestsPending' = RequestsPending /\ CallsMade'
  BY <1>0 DEF RequestsPending, IInv, CallsMade
<1>4. OneRequestAtATime' /\ SwitchBacked' /\ NoteOfItsMode'
  BY <1>0, <1>3 DEF IInv, OneRequestAtATime, SwitchBacked, NoteOfItsMode
<1>5. NothingShownYet' /\ NoteOfComposer' /\ OneOutcomeShown'
  BY <1>1, <1>3 DEF IInv, NothingShownYet, NoteOfComposer, OneOutcomeShown, composer
<1>6. SpinnerMeansCall'
  BY <1>0 DEF IInv, SpinnerMeansCall, Idle
<1> QED
  BY <1>2, <1>3, <1>4, <1>5, <1>6 DEF IInv

\* Lookups and retries.
LEMMA AskInv ==
  ASSUME IInv, tryAgain \/ \E r \in References : handleLookup(r)
  PROVE  IInv'
<1> USE ConstantsFit DEF Assumptions
<1>1. PICK r \in References, call \in CallRow :
        /\ loadState' = Loading(r) /\ Send(call)
        /\ call.kind \in {"lookup", "retry"} /\ call.ref = r
        /\ UNCHANGED <<initialRequest, requestMode, note, requestMessage, requestError,
                       submittingRequest, care, reminders, filed, stopped>>
        /\ StoreTyped'
  <2>1. CASE tryAgain
    <3> DEFINE carried == FALSE
    <3> DEFINE call == Call("retry", loadState.ref, carried, None, None)
    <3>1. loadState.ref \in References
      BY <2>1 DEF tryAgain, IInv, TypeOK, Marked
    <3>2. /\ "retry" \in Kinds /\ loadState.ref \in Marked
          /\ carried \in BOOLEAN /\ None \in Modes
      BY <3>1 DEF Kinds, LoadKinds, Marked, Modes
    <3>3. loadState' = Loading(loadState.ref) /\ Send(call)
      BY <2>1 DEF tryAgain
    <3> HIDE DEF carried
    <3>4. call \in CallRow /\ call.kind = "retry" /\ call.ref = loadState.ref
      BY <3>2, CallTyped
    <3> HIDE DEF call
    <3>5. StoreTyped'
      BY <2>1, StoreFits, StoreShrinks DEF tryAgain
    <3> QED
      BY <2>1, <3>1, <3>3, <3>4, <3>5 DEF tryAgain, composer, others, Quiet, api
  <2>2. CASE \E r \in References : handleLookup(r)
    <3>1. PICK r \in References : handleLookup(r)
      BY <2>2
    <3> DEFINE carried == TokenOf(r)
    <3> DEFINE call == Call("lookup", r, carried, None, None)
    <3>2. carried \in BOOLEAN
      BY DEF TokenOf
    <3>3. loadState' = Loading(r) /\ Send(call)
      BY <3>1 DEF handleLookup
    <3> HIDE DEF carried
    <3>4. call \in CallRow /\ call.kind = "lookup" /\ call.ref = r
      BY <3>2, CallTyped DEF Kinds, LoadKinds, Marked, Modes
    <3> HIDE DEF call
    <3>5. StoreTyped'
      BY <3>1, StoreFits, StoreShrinks DEF handleLookup
    <3> QED
      BY <3>1, <3>3, <3>4, <3>5 DEF handleLookup, composer, others, Quiet, api
  <2> QED
    BY <2>1, <2>2
<1>2. /\ calls' \in [Calls -> CallRow] /\ sent' \in 0 .. MaxCalls /\ CallsMade'
  BY <1>1, SendKeepsCalls
<1>3. RequestsPending' = RequestsPending /\ SpinnerMeansCall'
  <2>1. loadState'.ref = call.ref
    BY <1>1 DEF Loading
  <2>2. call.kind \in LoadKinds /\ call.kind # "request"
    BY <1>1 DEF LoadKinds
  <2> QED
    BY <1>1, <2>1, <2>2, SendPending
<1>4. TypeOK'
  <2>1. /\ loadState' \in [status : {"idle", "loading", "ready", "error"}, ref : Marked,
                           recoverable : BOOLEAN]
        /\ loadState'.ref = None <=> loadState'.status = "idle"
    BY <1>1, LoadTyped
  <2> QED
    BY <1>1, <1>2, <2>1 DEF IInv, TypeOK, CallRow, Kinds, StoreTyped
<1>5. OneRequestAtATime' /\ SwitchBacked' /\ NoteOfItsMode'
  BY <1>1, <1>3 DEF IInv, OneRequestAtATime, SwitchBacked, NoteOfItsMode
<1>6. NothingShownYet' /\ NoteOfComposer' /\ OneOutcomeShown'
  BY <1>1, <1>3 DEF IInv, NothingShownYet, NoteOfComposer, OneOutcomeShown
<1> QED
  BY <1>2, <1>3, <1>4, <1>5, <1>6 DEF IInv

\* A request is sent when none is under way.
LEMMA SubmitInv ==
  ASSUME IInv, handlePortalRequestSubmit
  PROVE  IInv'
<1> USE ConstantsFit DEF Assumptions
<1> DEFINE r == currentBookingReference
<1> DEFINE carried == TokenOf(r)
<1> DEFINE call == Call("request", r, carried, requestMode, note)
<1>1. r \in References /\ carried \in BOOLEAN /\ requestMode \in Modes /\ note \in Modes
  BY DEF handlePortalRequestSubmit, HasDetail, currentBookingReference, IInv, TypeOK, Marked, Modes,
         TokenOf
<1>2. Send(call)
  BY DEF handlePortalRequestSubmit
<1>b. StoreTyped'
  BY StoreFits, StoreShrinks DEF handlePortalRequestSubmit
<1> HIDE DEF r, carried
<1>3. /\ call \in CallRow /\ call.kind = "request" /\ call.ref = r
      /\ call.mode = requestMode /\ call.note = note
  <2>1. "request" \in Kinds /\ r \in Marked
    BY <1>1 DEF Kinds, Marked
  <2> QED
    BY <1>1, <2>1, CallTyped
<1> HIDE DEF call
<1>4. /\ requestMode \in PortalRequestMode /\ note \in {requestMode, None}
      /\ ~submittingRequest /\ submittingRequest' = TRUE
      /\ requestMessage' = None /\ requestError' = None
      /\ UNCHANGED <<initialRequest, loadState, requestMode, note, care, reminders, filed,
                     stopped>>
  BY DEF handlePortalRequestSubmit, IInv, TypeOK, Modes, NoteOfComposer, others, Quiet, api
<1>5. /\ calls' \in [Calls -> CallRow] /\ sent' \in 0 .. MaxCalls /\ CallsMade'
      /\ sent + 1 \in Calls
  BY <1>1, <1>2, <1>3, <1>4, SendKeepsCalls
<1>6. RequestsPending' = RequestsPending \cup {sent + 1} /\ SpinnerMeansCall'
  BY <1>1, <1>2, <1>3, <1>4, SendPending
<1>7. RequestsPending = {}
  BY <1>4 DEF IInv, OneRequestAtATime
<1>8. TypeOK'
  BY <1>4, <1>5, <1>b DEF IInv, TypeOK, CallRow, Kinds, Marked, StoreTyped
<1>9. OneRequestAtATime'
  BY <1>4, <1>6, <1>7 DEF OneRequestAtATime
<1>10. NothingShownYet' /\ OneOutcomeShown' /\ NoteOfItsMode' /\ NoteOfComposer' /\ SwitchBacked'
  BY <1>4 DEF IInv, NothingShownYet, OneOutcomeShown, NoteOfItsMode, NoteOfComposer, SwitchBacked
<1> QED
  BY <1>5, <1>6, <1>8, <1>9, <1>10 DEF IInv

\* The switch is put off and its call sent.
LEMMA SwitchOffInv ==
  ASSUME IInv, handleRemindersToggle, reminders.enabled
  PROVE  IInv'
<1> USE ConstantsFit DEF Assumptions
<1> DEFINE r == currentBookingReference
<1> DEFINE carried == TokenOf(r)
<1> DEFINE call == Call("reminders", r, carried, None, None)
<1>1. r \in References /\ carried \in BOOLEAN /\ None \in Modes /\ None \in Modes
  BY DEF handleRemindersToggle, HasDetail, currentBookingReference, IInv, TypeOK, Marked, Modes,
         TokenOf
<1>2. Send(call)
  BY DEF handleRemindersToggle
<1>b. StoreTyped'
  BY StoreFits, StoreShrinks DEF handleRemindersToggle
<1> HIDE DEF r, carried
<1>3. /\ call \in CallRow /\ call.kind = "reminders" /\ call.ref = r
      /\ call.mode = None /\ call.note = None
  <2>1. "reminders" \in Kinds /\ r \in Marked
    BY <1>1 DEF Kinds, Marked
  <2> QED
    BY <1>1, <2>1, CallTyped
<1> HIDE DEF call
<1>4. /\ reminders' = [enabled |-> FALSE, busy |-> TRUE]
      /\ UNCHANGED <<initialRequest, loadState, requestMode, note, requestMessage, requestError,
                     submittingRequest, care, filed, stopped>>
  BY DEF handleRemindersToggle, composer, Quiet, api
<1>5. /\ calls' \in [Calls -> CallRow] /\ sent' \in 0 .. MaxCalls /\ CallsMade'
  BY <1>1, <1>2, <1>3, SendKeepsCalls
<1>6. RequestsPending' = RequestsPending /\ SpinnerMeansCall'
  BY <1>1, <1>2, <1>3, <1>4, SendPending
<1>7. TypeOK'
  BY <1>4, <1>5, <1>b DEF IInv, TypeOK, CallRow, Kinds, StoreTyped
<1>8. SwitchBacked'
  BY <1>4 DEF IInv, SwitchBacked, TypeOK
<1>9. OneRequestAtATime' /\ NothingShownYet'
  BY <1>4, <1>6 DEF IInv, OneRequestAtATime, NothingShownYet
<1>10. OneOutcomeShown' /\ NoteOfItsMode' /\ NoteOfComposer'
  BY <1>4 DEF IInv, OneOutcomeShown, NoteOfItsMode, NoteOfComposer
<1> QED
  BY <1>5, <1>6, <1>7, <1>8, <1>9, <1>10 DEF IInv

\* A question is sent.
LEMMA AskCareInv ==
  ASSUME IInv, handleCustomerCareSubmit
  PROVE  IInv'
<1> USE ConstantsFit DEF Assumptions
<1> DEFINE r == currentBookingReference
<1> DEFINE carried == TokenOf(r)
<1> DEFINE call == Call("care", r, carried, None, None)
<1>1. r \in References /\ carried \in BOOLEAN /\ None \in Modes /\ None \in Modes
  BY DEF handleCustomerCareSubmit, HasDetail, currentBookingReference, IInv, TypeOK, Marked, Modes,
         TokenOf
<1>2. Send(call)
  BY DEF handleCustomerCareSubmit
<1>b. StoreTyped'
  BY StoreFits, StoreShrinks DEF handleCustomerCareSubmit
<1> HIDE DEF r, carried
<1>3. /\ call \in CallRow /\ call.kind = "care" /\ call.ref = r
      /\ call.mode = None /\ call.note = None
  <2>1. "care" \in Kinds /\ r \in Marked
    BY <1>1 DEF Kinds, Marked
  <2> QED
    BY <1>1, <2>1, CallTyped
<1> HIDE DEF call
<1>4. /\ care' = [care EXCEPT !.error = None, !.loading = TRUE]
      /\ UNCHANGED <<initialRequest, loadState, requestMode, note, requestMessage, requestError,
                     submittingRequest, reminders, filed, stopped>>
  BY DEF handleCustomerCareSubmit, composer, Quiet, api
<1>a. care' \in [turn : Marked, error : Marked, loading : BOOLEAN]
  BY <1>4 DEF IInv, TypeOK, Marked
<1>5. /\ calls' \in [Calls -> CallRow] /\ sent' \in 0 .. MaxCalls /\ CallsMade'
  BY <1>1, <1>2, <1>3, SendKeepsCalls
<1>6. RequestsPending' = RequestsPending /\ SpinnerMeansCall'
  BY <1>1, <1>2, <1>3, <1>4, SendPending
<1>7. TypeOK'
  BY <1>4, <1>5, <1>a, <1>b DEF IInv, TypeOK, CallRow, Kinds, StoreTyped
<1>8. SwitchBacked'
  BY <1>4 DEF IInv, SwitchBacked, TypeOK
<1>9. OneRequestAtATime' /\ NothingShownYet'
  BY <1>4, <1>6 DEF IInv, OneRequestAtATime, NothingShownYet
<1>10. OneOutcomeShown' /\ NoteOfItsMode' /\ NoteOfComposer'
  BY <1>4 DEF IInv, OneOutcomeShown, NoteOfItsMode, NoteOfComposer
<1> QED
  BY <1>5, <1>6, <1>7, <1>8, <1>9, <1>10 DEF IInv

\* The switch is put on again, which sends nothing.
LEMMA SwitchOnInv ==
  ASSUME IInv, handleRemindersToggle, ~reminders.enabled
  PROVE  IInv'
<1>1. /\ reminders' = [reminders EXCEPT !.enabled = TRUE]
      /\ UNCHANGED <<initialRequest, loadState, requestMode, note, requestMessage, requestError,
                     submittingRequest, care, tokens, expired, sent, calls, filed, stopped>>
  BY DEF handleRemindersToggle, composer, Quiet, api, tokenStore
<1>2. RequestsPending' = RequestsPending
  BY <1>1 DEF RequestsPending
<1>3. TypeOK'
  BY <1>1 DEF IInv, TypeOK
<1>4. SwitchBacked' /\ CallsMade' /\ SpinnerMeansCall'
  BY <1>1 DEF IInv, SwitchBacked, TypeOK, CallsMade, SpinnerMeansCall
<1>5. OneRequestAtATime' /\ NothingShownYet'
  BY <1>1, <1>2 DEF IInv, OneRequestAtATime, NothingShownYet
<1>6. OneOutcomeShown' /\ NoteOfItsMode' /\ NoteOfComposer'
  BY <1>1 DEF IInv, OneOutcomeShown, NoteOfItsMode, NoteOfComposer
<1> QED
  BY <1>2, <1>3, <1>4, <1>5, <1>6 DEF IInv

-------------------------------------------------------------------------------
\* A load answers: the booking, a refusal or an error.
LEMMA LoadedInv ==
  ASSUME IInv, NEW c \in Calls, bookingLoaded(c) \/ loadRefused(c) \/ loadFails(c)
  PROVE  IInv'
<1> USE ConstantsFit DEF Assumptions
<1>1. /\ calls[c].kind \in LoadKinds /\ calls[c].ref \in References /\ Settle(c)
      /\ \/ loadState' = Ready(calls[c].ref)
         \/ \E again \in BOOLEAN : loadState' = Failed(calls[c].ref, again)
      /\ UNCHANGED <<initialRequest, submittingRequest, reminders, filed, stopped>>
  BY DEF bookingLoaded, loadRefused, loadFails, StateAfterAuthError, Quiet, others, api,
         LoadKinds, IInv, CallsMade, LockAfterLoad
<1>a. StoreTyped'
  BY StoreFits, StoreShrinks DEF bookingLoaded, loadRefused, loadFails, ForgetAfterRefusal
<1>2. /\ calls' \in [Calls -> CallRow] /\ sent' \in 0 .. MaxCalls /\ CallsMade'
  BY <1>1, SettleKeepsCalls
<1>3. /\ loadState' \in [status : {"idle", "loading", "ready", "error"}, ref : Marked,
                         recoverable : BOOLEAN]
      /\ loadState'.ref = None <=> loadState'.status = "idle"
  <2>1. CASE loadState' = Ready(calls[c].ref)
    <3>1. TRUE \in BOOLEAN
      OBVIOUS
    <3> QED
      BY <1>1, <2>1, <3>1, LoadTyped
  <2>2. ASSUME NEW again \in BOOLEAN, loadState' = Failed(calls[c].ref, again)
        PROVE  /\ loadState' \in [status : {"idle", "loading", "ready", "error"}, ref : Marked,
                                  recoverable : BOOLEAN]
               /\ loadState'.ref # None /\ loadState'.status # "idle"
    BY <1>1, <2>2, LoadTyped
  <2> QED
    BY <1>1, <2>1, <2>2
<1>4. RequestsPending' = RequestsPending /\ SpinnerMeansCall'
  <2>1. loadState'.status # "loading"
    BY <1>1 DEF Ready, Failed
  <2>2. c \notin RequestsPending
    BY <1>1 DEF RequestsPending, LoadKinds
  <2> QED
    BY <1>1, <2>1, <2>2, SettlePending
<1>5. care' \in [turn : Marked, error : Marked, loading : BOOLEAN]
  <2>1. care \in [turn : Marked, error : Marked, loading : BOOLEAN] /\ None \in Marked
    BY DEF IInv, TypeOK, Marked
  <2>2. care' = care \/ care' = [care EXCEPT !.turn = None, !.error = None]
    BY DEF bookingLoaded, loadRefused, loadFails, others
  <2> QED
    BY <2>1, <2>2
<1>6. \/ UNCHANGED <<requestMode, note, requestMessage, requestError>>
      \/ /\ requestMode' = None /\ requestMessage' = None /\ requestError' = None
         /\ UNCHANGED note
      \/ /\ requestMode' \in PortalRequestMode /\ note' = None
         /\ requestMessage' = None /\ requestError' = None
  <2>1. CASE bookingLoaded(c)
    <3>1. initialRequest \in Modes
      BY DEF IInv, TypeOK, Modes
    <3>2. ComposerAfterLoad(calls[c].kind, calls[c].ref)
      BY <2>1 DEF bookingLoaded
    <3> QED
      BY <3>1, <3>2 DEF ComposerAfterLoad, OpenComposer, composer, Modes
  <2>2. CASE loadRefused(c) \/ loadFails(c)
    BY <2>2 DEF loadRefused, loadFails, composer
  <2> QED
    BY <2>1, <2>2
<1>7. /\ requestMode' \in Modes /\ note' \in Modes
      /\ requestMessage' \in Marked /\ requestError' \in Marked
  BY <1>6 DEF IInv, TypeOK, Modes, Marked
<1>8. TypeOK'
  BY <1>1, <1>2, <1>3, <1>5, <1>7, <1>a DEF IInv, TypeOK, CallRow, Kinds, StoreTyped
<1>9. OneRequestAtATime' /\ SwitchBacked' /\ NoteOfItsMode'
  BY <1>1, <1>4 DEF IInv, OneRequestAtATime, SwitchBacked, NoteOfItsMode
<1>10. NothingShownYet' /\ NoteOfComposer' /\ OneOutcomeShown'
  BY <1>4, <1>6 DEF IInv, NothingShownYet, NoteOfComposer, OneOutcomeShown
<1> QED
  BY <1>2, <1>4, <1>8, <1>9, <1>10 DEF IInv

\* The one request under way ends, and its outcome is shown alone.
LEMMA RequestEndsInv ==
  ASSUME IInv, NEW c \in Calls, requestAccepted(c) \/ requestFails(c)
  PROVE  IInv'
<1> USE ConstantsFit DEF Assumptions
<1>1. /\ calls[c].kind = "request" /\ calls[c].ref \in References
      /\ calls[c].mode \in PortalRequestMode /\ calls[c].note \in {calls[c].mode, None}
      /\ submittingRequest' = FALSE
      /\ UNCHANGED <<initialRequest, loadState, note, care, reminders, tokens, expired, stopped>>
  BY DEF requestAccepted, requestFails, LockAfterError, others, tokenStore, IInv, CallsMade
<1>2. Settle(c) /\ filed' \in {filed, filed \cup {FiledBy(c)}}
  BY DEF requestAccepted, requestFails
<1>3. \/ requestMessage' = calls[c].ref /\ requestMode' = None /\ UNCHANGED requestError
      \/ requestError' = calls[c].ref /\ UNCHANGED <<requestMode, requestMessage>>
  BY DEF requestAccepted, requestFails
<1>4. RequestsPending = {c} /\ requestMessage = None /\ requestError = None
  <2>1. c \in RequestsPending
    BY <1>1 DEF RequestsPending
  <2> QED
    BY <2>1 DEF IInv, OneRequestAtATime, NothingShownYet
<1>5. /\ calls' \in [Calls -> CallRow] /\ sent' \in 0 .. MaxCalls /\ CallsMade'
  BY <1>2, SettleKeepsCalls
<1>6. RequestsPending' = {} /\ SpinnerMeansCall'
  BY <1>1, <1>2, <1>4, SettlePending DEF LoadKinds
<1>7. /\ FiledBy(c) \in [ref : References, mode : PortalRequestMode, note : Modes]
      /\ FiledBy(c).note \in {FiledBy(c).mode, None}
  BY <1>1 DEF FiledBy, Modes
<1>8. TypeOK'
  <2>1. requestMode' \in Modes /\ requestMessage' \in Marked /\ requestError' \in Marked
    BY <1>1, <1>3 DEF IInv, TypeOK, Modes, Marked
  <2>2. filed' \subseteq [ref : References, mode : PortalRequestMode, note : Modes]
    BY <1>2, <1>7 DEF IInv, TypeOK
  <2> QED
    BY <1>1, <1>5, <2>1, <2>2 DEF IInv, TypeOK, CallRow, Kinds
<1>9. OneRequestAtATime' /\ NothingShownYet'
  BY <1>1, <1>6 DEF OneRequestAtATime, NothingShownYet
<1>10. OneOutcomeShown' /\ NoteOfComposer'
  BY <1>1, <1>3, <1>4 DEF IInv, OneOutcomeShown, NoteOfComposer
<1>11. NoteOfItsMode' /\ SwitchBacked'
  BY <1>1, <1>2, <1>7 DEF IInv, NoteOfItsMode, SwitchBacked
<1> QED
  BY <1>5, <1>6, <1>8, <1>9, <1>10, <1>11 DEF IInv

\* The call of the switch ends, or a question is answered.
LEMMA AnswerInv ==
  ASSUME IInv, NEW c \in Calls, remindersDisabled(c) \/ remindersFail(c) \/ careAnswers(c)
  PROVE  IInv'
<1> USE ConstantsFit DEF Assumptions
<1>1. /\ calls[c].kind \in {"reminders", "care"} /\ calls[c].ref \in References /\ Settle(c)
      /\ UNCHANGED <<initialRequest, loadState, requestMode, note, requestMessage, requestError,
                     submittingRequest, tokens, expired, filed>>
  BY DEF remindersDisabled, remindersFail, careAnswers, composer, Quiet, api, tokenStore, IInv,
         CallsMade
<1>2. /\ calls' \in [Calls -> CallRow] /\ sent' \in 0 .. MaxCalls /\ CallsMade'
  BY <1>1, SettleKeepsCalls
<1>3. RequestsPending' = RequestsPending /\ SpinnerMeansCall'
  <2>1. c \notin RequestsPending /\ calls[c].kind \notin LoadKinds
    BY <1>1 DEF RequestsPending, LoadKinds
  <2> QED
    BY <1>1, <2>1, SettlePending
<1>4. /\ care' \in [turn : Marked, error : Marked, loading : BOOLEAN]
      /\ reminders' \in [enabled : BOOLEAN, busy : BOOLEAN]
      /\ stopped' \subseteq References
      /\ SwitchBacked'
  <2>1. CASE remindersDisabled(c)
    BY <2>1, <1>1 DEF remindersDisabled, IInv, TypeOK, SwitchBacked
  <2>2. CASE remindersFail(c)
    BY <2>2, <1>1 DEF remindersFail, SwitchAfterError, IInv, TypeOK, SwitchBacked
  <2>3. CASE careAnswers(c)
    <3>1. /\ reminders' = reminders /\ stopped' = stopped
          /\ \/ care' = [care EXCEPT !.turn = calls[c].ref, !.loading = FALSE]
             \/ care' = [care EXCEPT !.error = calls[c].ref, !.loading = FALSE]
      BY <2>3 DEF careAnswers, Quiet, api
    <3>2. calls[c].ref \in Marked
      BY <1>1 DEF Marked
    <3> QED
      BY <3>1, <3>2 DEF IInv, TypeOK, SwitchBacked
  <2> QED
    BY <2>1, <2>2, <2>3
<1>5. TypeOK'
  BY <1>1, <1>2, <1>4 DEF IInv, TypeOK, CallRow, Kinds
<1>6. OneRequestAtATime' /\ NothingShownYet'
  BY <1>1, <1>3 DEF IInv, OneRequestAtATime, NothingShownYet
<1>7. OneOutcomeShown' /\ NoteOfItsMode' /\ NoteOfComposer'
  BY <1>1 DEF IInv, OneOutcomeShown, NoteOfItsMode, NoteOfComposer
<1> QED
  BY <1>2, <1>3, <1>4, <1>5, <1>6, <1>7 DEF IInv

\* A call that has its headers is still the same call.
LEMMA HeadersKeepCalls ==
  ASSUME IInv, NEW c \in Calls, headersArrive(c)
  PROVE  /\ calls' \in [Calls -> CallRow]
         /\ \A d \in Calls :
              /\ calls'[d].kind = calls[d].kind /\ calls'[d].ref = calls[d].ref
              /\ calls'[d].token = calls[d].token
              /\ calls'[d].mode = calls[d].mode /\ calls'[d].note = calls[d].note
         /\ \A d \in Calls : d # c => calls'[d] = calls[d]
<1>1. calls \in [Calls -> CallRow]
  BY DEF IInv, TypeOK, CallRow, Kinds
<1> DEFINE row == [calls[c] EXCEPT !.headers = TRUE]
<1>2. calls' = [calls EXCEPT ![c] = row]
  BY DEF headersArrive
<1>3. /\ row \in CallRow
      /\ row.kind = calls[c].kind /\ row.ref = calls[c].ref /\ row.token = calls[c].token
      /\ row.mode = calls[c].mode /\ row.note = calls[c].note
  <2>1. calls[c] \in CallRow
    BY <1>1
  <2> QED
    BY <2>1 DEF CallRow
<1> HIDE DEF row
<1> QED
  BY <1>1, <1>2, <1>3

\* The headers of an answer come.
LEMMA HeadersInv ==
  ASSUME IInv, NEW c \in Calls, headersArrive(c)
  PROVE  IInv'
<1>1. UNCHANGED <<initialRequest, loadState, requestMode, note, requestMessage, requestError,
                  submittingRequest, care, reminders, tokens, expired, sent, filed, stopped>>
  BY DEF headersArrive, composer, others, tokenStore, Quiet, api
<1>2. /\ calls' \in [Calls -> CallRow]
      /\ \A d \in Calls :
           /\ calls'[d].kind = calls[d].kind /\ calls'[d].ref = calls[d].ref
           /\ calls'[d].mode = calls[d].mode /\ calls'[d].note = calls[d].note
      /\ \A d \in Calls : d # c => calls'[d] = calls[d]
  BY HeadersKeepCalls
<1>3. c \leq sent
  <2>1. calls[c] # NoCall
    BY NoCallTyped DEF headersArrive
  <2>2. sent \in 0 .. MaxCalls /\ c \in 1 .. MaxCalls /\ MaxCalls \in Nat
    BY ConstantsFit DEF Assumptions, IInv, TypeOK, Calls
  <2> QED
    BY <2>1, <2>2 DEF IInv, CallsMade
<1>4. CallsMade'
  <2> SUFFICES ASSUME NEW d \in Calls
               PROVE  /\ d > sent' => calls'[d] = NoCall
                      /\ calls'[d].kind = "none" \/ calls'[d].ref \in References
                      /\ calls'[d].kind = "request" =>
                           /\ calls'[d].mode \in PortalRequestMode
                           /\ calls'[d].note \in {calls'[d].mode, None}
    BY DEF CallsMade
  <2>1. d > sent' => d # c
    BY <1>1, <1>3, ConstantsFit DEF Assumptions, IInv, TypeOK, Calls
  <2>2. d > sent' => calls'[d] = NoCall
    BY <1>1, <1>2, <2>1 DEF IInv, CallsMade
  <2> QED
    BY <1>2, <2>2 DEF IInv, CallsMade
<1>5. RequestsPending' = RequestsPending
  BY <1>2 DEF RequestsPending
<1>6. SpinnerMeansCall'
  BY <1>1, <1>2 DEF IInv, SpinnerMeansCall
<1>7. TypeOK' /\ SwitchBacked'
  BY <1>1, <1>2 DEF IInv, TypeOK, SwitchBacked, CallRow, Kinds
<1>8. NothingShownYet' /\ NoteOfComposer' /\ OneRequestAtATime' /\ OneOutcomeShown'
      /\ NoteOfItsMode'
  BY <1>1, <1>5 DEF IInv, NothingShownYet, NoteOfComposer, OneRequestAtATime,
     OneOutcomeShown, NoteOfItsMode
<1> QED
  BY <1>4, <1>6, <1>7, <1>8 DEF IInv

-------------------------------------------------------------------------------
\* A step that leaves everything but the expiry of tokens.
LEMMA ExpiryInv ==
  ASSUME IInv, UNCHANGED vars \/ \E r \in References : tokenExpires(r)
  PROVE  IInv'
<1>1. /\ UNCHANGED <<initialRequest, loadState, requestMode, note, requestMessage, requestError,
                     submittingRequest, care, reminders, tokens, sent, calls, filed, stopped>>
      /\ expired' \subseteq tokens
  BY DEF vars, tokenExpires, composer, others, tokenStore, Quiet, api, IInv, TypeOK
<1>2. RequestsPending' = RequestsPending
  BY <1>1 DEF RequestsPending
<1>3. TypeOK' /\ CallsMade' /\ SwitchBacked' /\ SpinnerMeansCall'
  BY <1>1 DEF IInv, TypeOK, CallsMade, SwitchBacked, SpinnerMeansCall
<1>4. NothingShownYet' /\ NoteOfComposer' /\ OneRequestAtATime' /\ OneOutcomeShown'
      /\ NoteOfItsMode'
  BY <1>1, <1>2 DEF IInv, NothingShownYet, NoteOfComposer, OneRequestAtATime,
     OneOutcomeShown, NoteOfItsMode
<1> QED
  BY <1>3, <1>4 DEF IInv

\* Every step preserves the invariant.
LEMMA NextIInv == IInv /\ [Next]_vars => IInv'
<1> SUFFICES ASSUME IInv, [Next]_vars PROVE IInv'
  OBVIOUS
<1>1. CASE Customer
  <2>1. CASE handleRemindersToggle
    BY <2>1, SwitchOffInv, SwitchOnInv
  <2> QED
    BY <1>1, <2>1, QuietInv, AskInv, SubmitInv, AskCareInv DEF Customer
<1>2. CASE \E c \in Calls : Answer(c)
  BY <1>2, LoadedInv, RequestEndsInv, AnswerInv DEF Answer
<1>3. CASE UNCHANGED vars \/ \E r \in References : tokenExpires(r)
  BY <1>3, ExpiryInv
<1>4. CASE \E c \in Calls : headersArrive(c)
  BY <1>4, HeadersInv
<1> QED
  BY <1>1, <1>2, <1>3, <1>4 DEF Next

\* The invariant holds in every reachable state.
LEMMA Invariance == Spec => []IInv
BY InitIInv, NextIInv, PTL DEF Spec

\* Every variable of the portal page has its type in every reachable state.
THEOREM TypeCorrect == Spec => []TypeOK
<1>1. IInv => TypeOK
  BY DEF IInv
<1> QED
  BY <1>1, Invariance, PTL

\* At most one portal request is under way, and the button is locked exactly while it
\* is, for any number of lookups and calls.
THEOREM RequestsDoNotOverlap == Spec => []OneRequestAtATime
<1>1. IInv => OneRequestAtATime
  BY DEF IInv
<1> QED
  BY <1>1, Invariance, PTL

\* The confirmation of a request is shown alone.
THEOREM OutcomeShownAlone == Spec => []OneOutcomeShown
<1>1. IInv => OneOutcomeShown
  BY DEF IInv
<1> QED
  BY <1>1, Invariance, PTL

\* A request is recorded with no other note than one written for its kind.
THEOREM NoteKeepsMode == Spec => []NoteOfItsMode
<1>1. IInv => NoteOfItsMode
  BY DEF IInv
<1> QED
  BY <1>1, Invariance, PTL

\* A settled switch that says off is backed by a booking whose reminders stopped.
THEOREM SwitchTellsTruth == Spec => []RemindersOffMeansStopped
<1>1. IInv => RemindersOffMeansStopped
  BY DEF IInv, SwitchBacked, RemindersOffMeansStopped
<1> QED
  BY <1>1, Invariance, PTL

\* A spinner always has a call behind it.
THEOREM SpinnerHasCall == Spec => []SpinnerMeansCall
<1>1. IInv => SpinnerMeansCall
  BY DEF IInv
<1> QED
  BY <1>1, Invariance, PTL

\* Only a refusal, and asking for an expired token, take one from the store.
LEMMA OnlyExpiredElse ==
  ASSUME [Next]_vars
  PROVE  \/ \E c \in Calls : loadRefused(c)
         \/ UNCHANGED tokens
         \/ \E r \in expired : tokens' = tokens \ {r}
<1>1. ASSUME NEW r, getPortalAccessToken(r)
      PROVE  UNCHANGED tokens \/ \E q \in expired : tokens' = tokens \ {q}
  BY <1>1 DEF getPortalAccessToken, clearPortalAccessToken, tokenStore
<1>2. CASE Customer
  <2>1. CASE \E r \in References : handleLookup(r)
    BY <1>1, <2>1 DEF handleLookup
  <2>2. CASE handlePortalRequestSubmit
    BY <1>1, <2>2 DEF handlePortalRequestSubmit
  <2>3. CASE handleRemindersToggle
    BY <1>1, <2>3 DEF handleRemindersToggle, tokenStore
  <2>4. CASE handleCustomerCareSubmit
    BY <1>1, <2>4 DEF handleCustomerCareSubmit
  <2> QED
    BY <1>2, <2>1, <2>2, <2>3, <2>4 DEF Customer, clearLookup, tryAgain, openRequestComposer,
       closeRequestComposer, writeNote, tokenStore
<1>3. ASSUME NEW c \in Calls, Answer(c) PROVE loadRefused(c) \/ UNCHANGED tokens
  BY <1>3 DEF Answer, bookingLoaded, loadFails, requestAccepted, requestFails,
     remindersDisabled, remindersFail, careAnswers, tokenStore
<1>4. ASSUME NEW c \in Calls, headersArrive(c) PROVE UNCHANGED tokens
  BY <1>4 DEF headersArrive, tokenStore
<1>5. ASSUME NEW r \in References, tokenExpires(r) PROVE UNCHANGED tokens
  BY <1>5 DEF tokenExpires
<1>6. CASE UNCHANGED vars
  BY <1>6 DEF vars, tokenStore
<1> QED
  BY <1>2, <1>3, <1>4, <1>5, <1>6 DEF Next

\* No step stores a token.
LEMMA TokensShrink == [Next]_vars => tokens' \subseteq tokens
<1> SUFFICES ASSUME [Next]_vars PROVE tokens' \subseteq tokens
  OBVIOUS
<1>1. ASSUME NEW c \in Calls, loadRefused(c) PROVE tokens' \subseteq tokens
  BY <1>1 DEF loadRefused, ForgetAfterRefusal, clearPortalAccessToken, tokenStore
<1> QED
  BY <1>1, OnlyExpiredElse

\* A load and a lookup under way carry the token that is stored for their booking.
TokenSent ==
  \A c \in Calls :
    calls[c].kind \in {"load", "lookup"} /\ calls[c].ref \in tokens => calls[c].token

\* The first call carries the token that is stored for its booking.
LEMMA InitTokenSent == Init => TokenSent
<1> SUFFICES ASSUME Init, NEW c \in Calls, calls[c].kind \in {"load", "lookup"},
                    calls[c].ref \in tokens
             PROVE  calls[c].token
  BY DEF TokenSent
<1> DEFINE carried == initialReference \in tokens
<1>1. calls[c] \in {Call("load", initialReference, carried, None, None), NoCall}
  BY DEF Init
<1> HIDE DEF carried
<1>2. calls[c] = Call("load", initialReference, carried, None, None)
  BY <1>1, NoCallTyped
<1>3. calls[c].ref = initialReference /\ calls[c].token = carried
  BY <1>2 DEF Call
<1> QED
  BY <1>3 DEF carried

\* A call that is sent, or settles, leaves the tokens that the others carry.
LEMMA TokenSentNext == IInv /\ TokenSent /\ [Next]_vars => TokenSent'
<1> SUFFICES ASSUME IInv, TokenSent, [Next]_vars, NEW c \in Calls,
                    calls'[c].kind \in {"load", "lookup"}, calls'[c].ref \in tokens'
             PROVE  calls'[c].token
  BY DEF TokenSent
<1> USE DEF IInv
<1>1. tokens' \subseteq tokens
  BY TokensShrink
<1>2. calls'[c] = calls[c] => calls'[c].token
  BY <1>1 DEF TokenSent
<1>3. ASSUME NEW d \in Calls, Settle(d) PROVE calls'[c] = calls[c]
  <2>1. calls'[c] = calls[c] \/ calls'[c] = NoCall
    BY <1>3, SettleKeepsCalls
  <2> QED
    BY <2>1, NoCallTyped
<1>4. ASSUME NEW call, Send(call) PROVE calls'[c] = calls[c] \/ calls'[c] = call
  BY <1>4 DEF Send, TypeOK
<1>5. CASE \E d \in Calls : Answer(d)
  BY <1>2, <1>3, <1>5 DEF Answer, bookingLoaded, loadRefused, loadFails, requestAccepted,
     requestFails, remindersDisabled, remindersFail, careAnswers
<1>6. ASSUME NEW kind \in {"retry", "request", "reminders", "care"}, NEW r, NEW carried,
             NEW mode, NEW text, Send(Call(kind, r, carried, mode, text))
      PROVE  calls'[c].token
  <2>1. Call(kind, r, carried, mode, text).kind = kind
    BY DEF Call
  <2> QED
    BY <1>2, <1>4, <1>6, <2>1
<1>7. ASSUME NEW r \in References, handleLookup(r) PROVE calls'[c].token
  <2> DEFINE carried == TokenOf(r)
  <2>1. Send(Call("lookup", r, carried, None, None)) /\ getPortalAccessToken(r)
    BY <1>7 DEF handleLookup
  <2> HIDE DEF carried
  <2>2. CASE calls'[c] = Call("lookup", r, carried, None, None)
    <3>1. calls'[c].ref = r /\ calls'[c].token = carried
      BY <2>2 DEF Call
    <3>2. r \in tokens /\ r \notin expired
      BY <1>1, <2>1, <3>1 DEF getPortalAccessToken, clearPortalAccessToken
    <3> QED
      BY <3>1, <3>2 DEF carried, TokenOf
  <2> QED
    BY <1>2, <1>4, <2>1, <2>2
<1>8. UNCHANGED calls => calls'[c].token
  BY <1>2
<1>9. CASE Customer
  <2>1. CASE tryAgain
    BY <1>6, <2>1 DEF tryAgain
  <2>2. CASE handlePortalRequestSubmit
    BY <1>6, <2>2 DEF handlePortalRequestSubmit
  <2>3. CASE handleRemindersToggle
    BY <1>6, <1>8, <2>3 DEF handleRemindersToggle
  <2>4. CASE handleCustomerCareSubmit
    BY <1>6, <2>4 DEF handleCustomerCareSubmit
  <2> QED
    BY <1>7, <1>8, <1>9, <2>1, <2>2, <2>3, <2>4 DEF Customer, clearLookup, openRequestComposer,
       closeRequestComposer, writeNote
<1>10. ASSUME NEW d \in Calls, headersArrive(d) PROVE calls'[c].token
  BY <1>1, <1>10, HeadersKeepCalls DEF TokenSent
<1> QED
  BY <1>5, <1>8, <1>9, <1>10 DEF Next, tokenExpires, vars

\* A token that is not expired is only forgotten because the API refused a call that
\* carried it, for any number of lookups, retries and expiries that overlap.
THEOREM TokenForgottenOnlyIfSent == Spec => TokenForgottenWasSent
<1> DEFINE Forgotten == \A r \in tokens \ tokens' : r \in expired \/ \E c \in Calls :
                          calls[c].ref = r /\ calls[c].token /\ calls'[c] = NoCall
<1>1. ASSUME IInv, TokenSent, [Next]_vars PROVE Forgotten
  <2> SUFFICES ASSUME NEW r \in tokens \ tokens', r \notin expired
               PROVE  \E c \in Calls : calls[c].ref = r /\ calls[c].token /\ calls'[c] = NoCall
    OBVIOUS
  <2>1. PICK c \in Calls : loadRefused(c)
    BY <1>1, OnlyExpiredElse
  <2>2. calls[c].kind \in {"load", "lookup"} /\ calls[c].ref = r
    BY <2>1 DEF loadRefused, ForgetAfterRefusal, clearPortalAccessToken, tokenStore, LoadKinds
  <2>3. calls'[c] = NoCall
    BY <1>1, <2>1, SettleKeepsCalls DEF loadRefused
  <2> QED
    BY <1>1, <2>2, <2>3 DEF TokenSent
<1>2. IInv /\ TokenSent /\ [Next]_vars => [Forgotten]_vars
  BY <1>1
<1>3. Spec => []TokenSent
  BY InitTokenSent, TokenSentNext, Invariance, PTL DEF Spec
<1> QED
  BY <1>2, <1>3, Invariance, PTL DEF Spec, TokenForgottenWasSent
===============================================================================
