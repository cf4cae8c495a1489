--------------------------- MODULE SessionProofs ---------------------------
(***************************************************************************)
(* Machine-checked proofs about Session: browsers stay apart, and only old  *)
(* answers, logins and logouts replace a valid session, for any number of   *)
(* browsers, accounts and overlapping requests and any faults.              *)
(***************************************************************************)
EXTENDS Session, TLAPS

\* A session belongs to an account or to the anonymous user of its number.
UsersOwn == \A s \in SessionId : user[s] \in Account \cup {s, None}

\* Only a request without a valid session got a new one, and only the
\* handlers of a login and a logout set another cookie.
AnswersExplained ==
    \A i \in Slot :
        /\ request[i].step = "sent" => request[i].fresh = None
        /\ request[i].fresh # None => request[i].sent \notin valid
        /\ request[i].step = "answered" /\ request[i].kind \notin {"callback", "logout"} =>
             request[i].answer = request[i].fresh

\* Browser b holds session s, is being given it, or acts as its user.
Touches(b, s) ==
    \/ cookie[b] = s
    \/ <<b, s>> \in saved
    \/ \E i \in Slot :
         /\ request[i].browser = b
         /\ s \in {request[i].sent, request[i].user, request[i].fresh, request[i].answer}

TouchesKnown == \A b \in Browser, s \in SessionId : Touches(b, s) => s <= created
TouchesApart ==
    \A b, c \in Browser, s \in SessionId : Touches(b, s) /\ Touches(c, s) => b = c

SessionInv ==
    SessionTypeOK /\ UsersOwn /\ AnswersExplained /\ TouchesKnown /\ TouchesApart

LEMMA SessionInitInv == SessionInit => SessionInv
  BY SessionAssumption
     DEF SessionInit, SessionInv, SessionTypeOK, UsersOwn, AnswersExplained, Touches, TouchesKnown,
         TouchesApart, Free, User, SessionId

LEMMA ValidKnown == SessionTypeOK => valid \subseteq SessionId
  <1> SUFFICES ASSUME SessionTypeOK, NEW s \in valid PROVE s \in SessionId
    OBVIOUS
  <1>1. created \in 0 .. MaxSessions /\ s \in 1 .. created
    BY DEF SessionTypeOK
  <1> QED
    BY <1>1, SessionAssumption DEF SessionId

\* What the type of a request says about its parts.
LEMMA RequestParts ==
    ASSUME SessionTypeOK, NEW i \in Slot
    PROVE  /\ request[i] = Free \/ request[i] \in Request
           /\ request[i].step \in {"sent", "handled", "dropped", "answered"} =>
                request[i] \in Request
           /\ request[i].sent \in SessionId \cup {None}
  BY DEF SessionTypeOK, Free, Request

LEMMA CreateSessionTypeOK ==
    ASSUME SessionTypeOK, NEW u \in User, CreateSession(u)
    PROVE  /\ created' \in 0 .. MaxSessions
           /\ user' \in [SessionId -> User \cup {None}]
           /\ valid' \subseteq 1 .. created'
           /\ \A s \in 1 .. created' : user'[s] # None
           /\ NextSession \in SessionId
           /\ NextSession > created /\ created' = NextSession
  BY SessionAssumption DEF SessionTypeOK, CreateSession, NextSession, SessionId

\* What the steps of a request do to their slot.
SlotOK(i) ==
    /\ request[i] \in Request \cup {Free}
    /\ request[i].step \in {"handled", "dropped", "answered"} => request[i].user # None

SessionsOK ==
    /\ created \in 0 .. MaxSessions
    /\ user \in [SessionId -> User \cup {None}]
    /\ valid \subseteq 1 .. created
    /\ \A s \in 1 .. created : user[s] # None

LEMMA OneSlotTypeOK ==
    ASSUME SessionTypeOK, NEW i \in Slot, NEW r, request' = [request EXCEPT ![i] = r],
           SlotOK(i)', SessionsOK',
           cookie' \in [Browser -> SessionId \cup {None}], away' \subseteq Browser,
           saved' \subseteq Browser \X User, faults' \in 0 .. MaxFaults
    PROVE  SessionTypeOK'
  <1>1. \A j \in Slot : j # i => request'[j] = request[j]
    BY DEF SessionTypeOK
  <1>2. request' \in [Slot -> Request \cup {Free}]
    BY <1>1 DEF SessionTypeOK, SlotOK
  <1>3. \A j \in Slot :
          request'[j].step \in {"handled", "dropped", "answered"} => request'[j].user # None
    BY <1>1 DEF SessionTypeOK, SlotOK
  <1> QED
    BY <1>2, <1>3 DEF SessionTypeOK, SessionsOK

LEMMA AnswerTypeOK ==
    ASSUME SessionTypeOK, NEW i \in Slot, NEW s \in SessionId \cup {None}, Answer(i, s),
           request[i].step \in {"handled", "dropped"}, SessionsOK',
           cookie' \in [Browser -> SessionId \cup {None}], away' \subseteq Browser,
           saved' \subseteq Browser \X User, faults' \in 0 .. MaxFaults
    PROVE  SessionTypeOK'
  <1>1. request[i] \in Request /\ request[i].user # None
    BY RequestParts DEF SessionTypeOK
  <1>2. SlotOK(i)'
    BY <1>1 DEF Answer, SessionTypeOK, Request, SlotOK
  <1>3. request' = [request EXCEPT ![i] =
           [request[i] EXCEPT !.step = "answered",
                              !.answer = IF request[i].fresh # None THEN request[i].fresh ELSE s]]
    BY DEF Answer
  <1> QED
    BY <1>2, <1>3, OneSlotTypeOK

LEMMA SessionsStayOK ==
    ASSUME SessionTypeOK, UNCHANGED sessions
    PROVE  SessionsOK'
  BY DEF SessionTypeOK, SessionsOK, sessions

LEMMA CreatedSessionsOK ==
    ASSUME SessionTypeOK, NEW u \in User, CreateSession(u)
    PROVE  SessionsOK'
  BY CreateSessionTypeOK DEF SessionsOK

LEMMA AuthenticateTypeOK ==
    ASSUME SessionTypeOK, NEW i \in Slot, Authenticate(i)
    PROVE  SessionTypeOK'
  <1>1. request[i] \in Request
    BY RequestParts DEF Authenticate
  <1>2. CASE request[i].sent \in valid
    <2>1. request[i].sent \in SessionId /\ request[i].sent \in 1 .. created
      BY <1>2, ValidKnown DEF SessionTypeOK
    <2>2. user[request[i].sent] \in User
      BY <2>1 DEF SessionTypeOK
    <2>3. Resume(i) /\ UNCHANGED <<cookie, away, saved, faults>>
      BY <1>2 DEF Authenticate
    <2>4. SlotOK(i)'
      BY <1>1, <2>2, <2>3, SessionAssumption DEF Resume, SessionTypeOK, Request, SlotOK
    <2>5. request' = [request EXCEPT ![i] =
             [request[i] EXCEPT !.step = "handled", !.user = user[request[i].sent]]]
      BY <2>3 DEF Resume
    <2> QED
      BY <2>3, <2>4, <2>5, OneSlotTypeOK, SessionsStayOK DEF Resume, SessionTypeOK
  <1>3. CASE request[i].sent \notin valid
    <2>1. StartAnonymous(i) /\ UNCHANGED <<cookie, away, saved, faults>>
      BY <1>3 DEF Authenticate
    <2>2. NextSession \in SessionId /\ AnonymousUser(NextSession) \in User
      BY <2>1, SessionAssumption
         DEF StartAnonymous, CreateSession, SessionTypeOK, AnonymousUser, NextSession, User, SessionId
    <2>3. SlotOK(i)'
      BY <1>1, <2>1, <2>2, SessionAssumption DEF StartAnonymous, SessionTypeOK, Request, SlotOK
    <2>4. request' = [request EXCEPT ![i] =
             [request[i] EXCEPT !.step = "handled", !.user = AnonymousUser(NextSession),
                                !.fresh = NextSession]]
      BY <2>1 DEF StartAnonymous
    <2> QED
      BY <2>1, <2>2, <2>3, <2>4, OneSlotTypeOK, CreatedSessionsOK DEF StartAnonymous, SessionTypeOK
  <1> QED
    BY <1>2, <1>3

LEMMA RequestStepTypeOK ==
    ASSUME SessionTypeOK, NEW i \in Slot, RequestStep(i)
    PROVE  SessionTypeOK'
  <1>1. ASSUME NEW b \in Browser, NEW kind \in Kind, Send(i, b, kind)
        PROVE  SessionTypeOK'
    <2>1. SlotOK(i)'
      BY <1>1 DEF Send, SessionTypeOK, Request, SlotOK
    <2> QED
      BY <1>1, <2>1, OneSlotTypeOK, SessionsStayOK DEF Send, SessionTypeOK
  <1>2. CASE Visit(i)
    BY <1>2, AnswerTypeOK, SessionsStayOK DEF Visit, At, SessionTypeOK
  <1>3. CASE Save(i)
    <2>1. request[i] \in Request /\ request[i].user # None
      BY <1>3, RequestParts DEF Save, At, SessionTypeOK
    <2>2. saved' \subseteq Browser \X User
      BY <1>3, <2>1 DEF Save, SessionTypeOK, Request
    <2> QED
      BY <1>3, <2>2, AnswerTypeOK, SessionsStayOK DEF Save, At, SessionTypeOK
  <1>4. CASE DropSession(i)
    <2>1. request[i] \in Request /\ request[i].user # None
      BY <1>4, RequestParts DEF DropSession, At, SessionTypeOK
    <2>2. SlotOK(i)' /\ SessionsOK'
      BY <1>4, <2>1 DEF DropSession, SessionTypeOK, Request, SlotOK, SessionsOK
    <2>3. request' = [request EXCEPT ![i] = [request[i] EXCEPT !.step = "dropped"]]
      BY <1>4 DEF DropSession
    <2> QED
      BY <1>4, <2>2, <2>3, OneSlotTypeOK DEF DropSession, SessionTypeOK
  <1>5. ASSUME NEW account \in Account, SignIn(i, account)
        PROVE  SessionTypeOK'
    <2>1. account \in User
      BY DEF User
    <2> QED
      BY <1>5, <2>1, AnswerTypeOK, CreateSessionTypeOK, CreatedSessionsOK
         DEF SignIn, At, SessionTypeOK
  <1>6. CASE SignInFails(i)
    <2>1. request[i] \in Request /\ request[i].user # None
      BY <1>6, RequestParts DEF SignInFails, At, SessionTypeOK
    <2>2. faults' \in 0 .. MaxFaults
      BY <1>6, SessionAssumption DEF SignInFails, Fault, SessionTypeOK
    <2>3. CASE Answer(i, None)
      BY <1>6, <2>2, <2>3, AnswerTypeOK, SessionsStayOK DEF SignInFails, At, SessionTypeOK
    <2>4. CASE request' = [request EXCEPT ![i].step = "answered"]
      <3>1. SlotOK(i)'
        BY <2>1, <2>4 DEF SessionTypeOK, Request, SlotOK
      <3>2. request' = [request EXCEPT ![i] = [request[i] EXCEPT !.step = "answered"]]
        BY <2>4
      <3> QED
        BY <1>6, <2>2, <3>1, <3>2, OneSlotTypeOK, SessionsStayOK DEF SignInFails, SessionTypeOK
    <2> QED
      BY <1>6, <2>3, <2>4 DEF SignInFails
  <1>7. CASE LogOut(i)
    <2>1. AnonymousUser(NextSession) \in User /\ NextSession \in SessionId
      BY <1>7, SessionAssumption
         DEF LogOut, CreateSession, SessionTypeOK, AnonymousUser, NextSession, User, SessionId
    <2> QED
      BY <1>7, <2>1, AnswerTypeOK, CreatedSessionsOK DEF LogOut, At, SessionTypeOK
  <1>8. CASE Receive(i)
    <2>1. request[i] \in Request
      BY <1>8, RequestParts DEF Receive
    <2>2. SlotOK(i)'
      BY <1>8 DEF Receive, SessionTypeOK, SlotOK, Free
    <2>3. cookie' \in [Browser -> SessionId \cup {None}] /\ away' \subseteq Browser
      BY <1>8, <2>1 DEF Receive, SessionTypeOK, Request
    <2> QED
      BY <1>8, <2>2, <2>3, OneSlotTypeOK, SessionsStayOK DEF Receive, SessionTypeOK
  <1>9. CASE CutOff(i)
    <2>1. SlotOK(i)' /\ faults' \in 0 .. MaxFaults
      BY <1>9, SessionAssumption DEF CutOff, Fault, SessionTypeOK, SlotOK, Free
    <2> QED
      BY <1>9, <2>1, OneSlotTypeOK, SessionsStayOK DEF CutOff, SessionTypeOK
  <1> QED
    BY <1>1, <1>2, <1>3, <1>4, <1>5, <1>6, <1>7, <1>8, <1>9, AuthenticateTypeOK DEF RequestStep

LEMMA NextSessionTypeOK == SessionTypeOK /\ [SessionNext]_sessionVars => SessionTypeOK'
  <1> SUFFICES ASSUME SessionTypeOK, [SessionNext]_sessionVars PROVE SessionTypeOK'
    OBVIOUS
  <1>1. CASE UNCHANGED sessionVars
    BY <1>1 DEF SessionTypeOK, sessionVars, sessions
  <1>2. ASSUME NEW s \in SessionId, Expire(s)
        PROVE  SessionTypeOK'
    BY <1>2, SessionAssumption DEF Expire, Fault, SessionTypeOK
  <1> QED
    BY <1>1, <1>2, RequestStepTypeOK DEF SessionNext

LEMMA ValidStaysKnown ==
    ASSUME SessionTypeOK, [SessionNext]_sessionVars
    PROVE  valid' \subseteq SessionId
  <1>1. SessionTypeOK'
    BY NextSessionTypeOK
  <1>2. created' \in 0 .. MaxSessions /\ valid' \subseteq 1 .. created'
    BY <1>1 DEF SessionTypeOK
  <1>3. 1 .. created' \subseteq SessionId
    BY <1>2, SessionAssumption DEF SessionId
  <1> QED
    BY <1>2, <1>3

(***************************************************************************)
(* Whose sessions and answers these are.                                    *)
(***************************************************************************)
LEMMA UsersOwnStep ==
    ASSUME SessionTypeOK, UsersOwn, [SessionNext]_sessionVars
    PROVE  UsersOwn'
  <1>1. ASSUME NEW u \in User, CreateSession(u), u \in Account \cup {NextSession}
        PROVE  UsersOwn'
    <2>1. NextSession \in SessionId /\ user' = [user EXCEPT ![NextSession] = u]
      BY <1>1, CreateSessionTypeOK DEF CreateSession
    <2> QED
      BY <1>1, <2>1 DEF UsersOwn, SessionTypeOK
  <1>2. CASE UNCHANGED user
    BY <1>2 DEF UsersOwn
  <1>3. ASSUME CreateSession(AnonymousUser(NextSession))
        PROVE  UsersOwn'
    <2>1. NextSession \in User
      BY <1>3, SessionAssumption DEF CreateSession, SessionTypeOK, NextSession, User, SessionId
    <2> QED
      BY <1>1, <1>3, <2>1 DEF AnonymousUser
  <1>4. ASSUME NEW i \in Slot, RequestStep(i)
        PROVE  \/ UNCHANGED user
               \/ CreateSession(AnonymousUser(NextSession))
               \/ \E account \in Account : CreateSession(account)
    BY <1>4
       DEF RequestStep, Send, Authenticate, Resume, StartAnonymous, Visit, Save, DropSession, SignIn,
           SignInFails, LogOut, Receive, CutOff, sessions
  <1>5. ASSUME NEW account \in Account, CreateSession(account)
        PROVE  UsersOwn'
    BY <1>1, <1>5 DEF User
  <1> QED
    BY <1>2, <1>3, <1>4, <1>5 DEF SessionNext, Expire, sessionVars, sessions

\* No step makes an old session valid again.
LEMMA ValidOnlyShrinks ==
    ASSUME SessionTypeOK, [SessionNext]_sessionVars
    PROVE  \A s \in SessionId : s <= created /\ s \notin valid => s \notin valid'
  <1>1. ASSUME NEW i \in Slot, RequestStep(i)
        PROVE  valid' \subseteq valid \cup {NextSession}
    BY <1>1
       DEF RequestStep, Send, Authenticate, Resume, StartAnonymous, Visit, Save, DropSession, SignIn,
           SignInFails, LogOut, Receive, CutOff, sessions, CreateSession
  <1>2. valid' \subseteq valid \cup {NextSession}
    BY <1>1 DEF SessionNext, Expire, sessionVars, sessions
  <1>3. \A s \in SessionId : s <= created => s # NextSession
    BY SessionAssumption DEF SessionTypeOK, NextSession, SessionId
  <1> QED
    BY <1>2, <1>3

\* The part of AnswersExplained that is about one slot.
Explained(i) ==
    /\ request[i].step = "sent" => request[i].fresh = None
    /\ request[i].fresh # None => request[i].sent \notin valid
    /\ request[i].step = "answered" /\ request[i].kind \notin {"callback", "logout"} =>
         request[i].answer = request[i].fresh

LEMMA SlotExplained ==
    ASSUME SessionTypeOK, TouchesKnown, [SessionNext]_sessionVars, NEW i \in Slot, Explained(i),
           request'[i] = request[i]
    PROVE  Explained(i)'
  <1>1. request[i].sent \in SessionId /\ request[i].browser \in Browser =>
          request[i].sent <= created
    BY DEF TouchesKnown, Touches
  <1>2. request[i] = Free \/ request[i] \in Request
    BY RequestParts
  <1>3. request[i].fresh # None => request[i].sent \notin valid'
    <2>1. CASE request[i] = Free
      BY <2>1 DEF Free
    <2>2. CASE request[i] \in Request /\ request[i].sent \in SessionId
      BY <1>1, <2>2, ValidOnlyShrinks DEF Explained, Request
    <2>3. CASE request[i] \in Request /\ request[i].sent = None
      <3>1. valid' \subseteq SessionId
        BY ValidStaysKnown
      <3> QED
        BY <2>3, <3>1, SessionAssumption DEF User
    <2> QED
      BY <1>2, <2>1, <2>2, <2>3 DEF Request
  <1> QED
    BY <1>3 DEF Explained

LEMMA StepExplained ==
    ASSUME SessionTypeOK, TouchesKnown, NEW i \in Slot, RequestStep(i), Explained(i)
    PROVE  Explained(i)'
  <1>0. request \in [Slot -> Request \cup {Free}]
    BY DEF SessionTypeOK
  <1>1. ASSUME NEW b \in Browser, NEW kind \in Kind, Send(i, b, kind)
        PROVE  Explained(i)'
    BY <1>0, <1>1 DEF Send, Explained
  <1>2. CASE Authenticate(i)
    <2>1. request[i] \in Request
      BY <1>2, RequestParts DEF Authenticate
    <2>2. CASE Resume(i)
      BY <1>0, <1>2, <2>1, <2>2 DEF Resume, Authenticate, Explained, Request
    <2>3. CASE StartAnonymous(i) /\ request[i].sent \notin valid
      <3>1. /\ request'[i].sent = request[i].sent /\ request'[i].step = "handled"
            /\ request'[i].fresh = NextSession
        BY <1>0, <2>1, <2>3 DEF StartAnonymous, Request
      <3>2. valid' = valid \cup {NextSession}
        BY <2>3 DEF StartAnonymous, CreateSession
      <3>3. request[i].sent # NextSession
        <4>1. CASE request[i].sent \in SessionId
          <5>1. request[i].sent <= created
            BY <2>1, <4>1 DEF TouchesKnown, Touches, Request
          <5> QED
            BY <4>1, <5>1 DEF NextSession, SessionTypeOK, SessionId
        <4>2. CASE request[i].sent = None
          BY <2>3, <4>2, SessionAssumption
             DEF StartAnonymous, CreateSession, NextSession, SessionTypeOK, User, SessionId
        <4> QED
          BY <2>1, <4>1, <4>2 DEF Request
      <3> QED
        BY <2>3, <3>1, <3>2, <3>3 DEF Explained
    <2> QED
      BY <1>2, <2>2, <2>3 DEF Authenticate
  <1>3. ASSUME RequestStep(i),
               request'[i].sent = request[i].sent, request'[i].fresh = request[i].fresh,
               request'[i].kind = request[i].kind, request'[i].step # "sent",
               \/ request[i].kind \in {"callback", "logout"}
               \/ request'[i].step # "answered"
               \/ request'[i].answer = request[i].fresh
        PROVE  Explained(i)'
    <2>1. request[i].fresh # None => request[i].sent \notin valid'
      <3> SUFFICES ASSUME request[i].fresh # None PROVE request[i].sent \notin valid'
        OBVIOUS
      <3>1. request[i] \in Request
        BY RequestParts DEF Free
      <3>2. [SessionNext]_sessionVars
        BY <1>3 DEF SessionNext
      <3>3. valid' \subseteq SessionId
        BY <3>2, ValidStaysKnown
      <3>4. CASE request[i].sent \in SessionId
        BY <3>1, <3>2, <3>4, ValidOnlyShrinks DEF Explained, TouchesKnown, Touches, Request
      <3>5. CASE request[i].sent = None
        BY <3>3, <3>5, SessionAssumption DEF User
      <3> QED
        BY <3>1, <3>4, <3>5 DEF Request
    <2> QED
      BY <1>3, <2>1 DEF Explained
  <1>4. CASE Visit(i) \/ Save(i) \/ LogOut(i) \/ \E account \in Account : SignIn(i, account)
    <2>1. request[i] \in Request
      BY <1>4, RequestParts DEF Visit, Save, LogOut, SignIn, At
    <2>2. \E s : Answer(i, s) /\ (request[i].kind \in {"callback", "logout"} \/ s = None)
      BY <1>4 DEF Visit, Save, LogOut, SignIn, At
    <2> QED
      BY <1>0, <1>3, <2>1, <2>2 DEF Answer, Request
  <1>5. CASE DropSession(i)
    <2>1. request[i] \in Request
      BY <1>5, RequestParts DEF DropSession, At
    <2> QED
      BY <1>0, <1>3, <1>5, <2>1 DEF DropSession, Request
  <1>6. CASE SignInFails(i)
    <2>1. request[i] \in Request /\ request[i].kind = "callback"
      BY <1>6, RequestParts DEF SignInFails, At
    <2> QED
      BY <1>0, <1>3, <1>6, <2>1 DEF SignInFails, Answer, Request
  <1>7. CASE Receive(i) \/ CutOff(i)
    BY <1>0, <1>7 DEF Receive, CutOff, Explained, Free
  <1> QED
    BY <1>1, <1>2, <1>4, <1>5, <1>6, <1>7 DEF RequestStep

LEMMA AnswersStep ==
    ASSUME SessionTypeOK, TouchesKnown, AnswersExplained, [SessionNext]_sessionVars
    PROVE  AnswersExplained'
  <1> SUFFICES ASSUME NEW j \in Slot PROVE Explained(j)'
    BY DEF AnswersExplained, Explained
  <1>1. Explained(j)
    BY DEF AnswersExplained, Explained
  <1>2. ASSUME NEW i \in Slot, RequestStep(i)
        PROVE  request'[j] = request[j] \/ i = j
    BY <1>2
       DEF RequestStep, Send, Authenticate, Resume, StartAnonymous, Visit, Save, DropSession, SignIn,
           SignInFails, LogOut, Receive, CutOff, Answer, SessionTypeOK
  <1>3. CASE request'[j] = request[j]
    BY <1>1, <1>3, SlotExplained
  <1>4. CASE \E i \in Slot : RequestStep(i)
    BY <1>1, <1>2, <1>3, <1>4, StepExplained
  <1> QED
    BY <1>3, <1>4 DEF SessionNext, Expire, sessionVars

(***************************************************************************)
(* Sessions reach no second browser.                                        *)
(***************************************************************************)
LEMMA OneSlotTouches ==
    ASSUME SessionTypeOK, NEW i \in Slot, NEW r, request' = [request EXCEPT ![i] = r],
           NEW b \in Browser, NEW s \in SessionId, Touches(b, s)'
    PROVE  \/ Touches(b, s)
           \/ cookie'[b] = s
           \/ <<b, s>> \in saved'
           \/ r.browser = b /\ s \in {r.sent, r.user, r.fresh, r.answer}
  <1>1. \A j \in Slot : request'[j] = IF j = i THEN r ELSE request[j]
    BY DEF SessionTypeOK
  <1> QED
    BY <1>1 DEF Touches

\* A session that request i has created for browser b.
Given(i, b, s) == b = request[i].browser /\ s = NextSession /\ created' = NextSession

LEMMA AnswerTouches ==
    ASSUME SessionTypeOK, NEW i \in Slot, request[i] \in Request,
           NEW t \in SessionId \cup {None}, Answer(i, t), UNCHANGED cookie,
           NEW b \in Browser, NEW s \in SessionId, Touches(b, s)',
           <<b, s>> \in saved' => Touches(b, s)
    PROVE  Touches(b, s) \/ (b = request[i].browser /\ s = t)
  <1> DEFINE r == [request[i] EXCEPT !.step = "answered",
                                     !.answer = IF request[i].fresh # None
                                                THEN request[i].fresh ELSE t]
  <1>1. request' = [request EXCEPT ![i] = r]
    BY DEF Answer
  <1>2. /\ r.browser = request[i].browser /\ r.sent = request[i].sent
        /\ r.user = request[i].user /\ r.fresh = request[i].fresh
        /\ r.answer = request[i].fresh \/ r.answer = t
    BY DEF Request
  <1> HIDE DEF r
  <1>3. \/ Touches(b, s)
        \/ cookie'[b] = s
        \/ <<b, s>> \in saved'
        \/ r.browser = b /\ s \in {r.sent, r.user, r.fresh, r.answer}
    BY <1>1, OneSlotTouches
  <1> QED
    BY <1>2, <1>3 DEF Touches

LEMMA RequestTouches ==
    ASSUME SessionTypeOK, UsersOwn, NEW i \in Slot, RequestStep(i),
           NEW b \in Browser, NEW s \in SessionId, Touches(b, s)'
    PROVE  Touches(b, s) \/ Given(i, b, s)
  <1>0. s # None /\ s \notin Account /\ None \notin Browser
    BY SessionAssumption DEF User
  <1>1. ASSUME NEW c \in Browser, NEW kind \in Kind, Send(i, c, kind)
        PROVE  Touches(b, s)
    <2> DEFINE r == [browser |-> c, kind |-> kind, sent |-> cookie[c], step |-> "sent",
                     user |-> None, fresh |-> None, answer |-> None]
    <2>1. request' = [request EXCEPT ![i] = r] /\ UNCHANGED <<cookie, saved>>
      BY <1>1 DEF Send
    <2>2. \/ Touches(b, s)
          \/ cookie'[b] = s
          \/ <<b, s>> \in saved'
          \/ r.browser = b /\ s \in {r.sent, r.user, r.fresh, r.answer}
      BY <2>1, OneSlotTouches
    <2> QED
      BY <1>0, <2>1, <2>2 DEF Touches
  <1>2. CASE Authenticate(i)
    <2>1. request[i] \in Request /\ UNCHANGED <<cookie, saved>>
      BY <1>2, RequestParts DEF Authenticate
    <2>2. CASE request[i].sent \in valid
      <3> DEFINE r == [request[i] EXCEPT !.step = "handled", !.user = user[request[i].sent]]
      <3>1. request' = [request EXCEPT ![i] = r]
        BY <1>2, <2>2 DEF Authenticate, Resume
      <3>2. /\ r.browser = request[i].browser /\ r.sent = request[i].sent
            /\ r.fresh = request[i].fresh /\ r.answer = request[i].answer
            /\ r.user \in Account \cup {request[i].sent, None}
        BY <2>1, <2>2, ValidKnown DEF Request, UsersOwn
      <3> HIDE DEF r
      <3>3. \/ Touches(b, s)
            \/ cookie'[b] = s
            \/ <<b, s>> \in saved'
            \/ r.browser = b /\ s \in {r.sent, r.user, r.fresh, r.answer}
        BY <3>1, OneSlotTouches
      <3> QED
        BY <1>0, <2>1, <3>2, <3>3 DEF Touches
    <2>3. CASE request[i].sent \notin valid
      <3> DEFINE r == [request[i] EXCEPT !.step = "handled", !.user = AnonymousUser(NextSession),
                                         !.fresh = NextSession]
      <3>1. request' = [request EXCEPT ![i] = r] /\ created' = NextSession
        BY <1>2, <2>3 DEF Authenticate, StartAnonymous, CreateSession
      <3>2. /\ r.browser = request[i].browser /\ r.sent = request[i].sent
            /\ r.fresh = NextSession /\ r.answer = request[i].answer
            /\ r.user = NextSession
        BY <2>1 DEF Request, AnonymousUser
      <3> HIDE DEF r
      <3>3. \/ Touches(b, s)
            \/ cookie'[b] = s
            \/ <<b, s>> \in saved'
            \/ r.browser = b /\ s \in {r.sent, r.user, r.fresh, r.answer}
        BY <3>1, OneSlotTouches
      <3> QED
        BY <2>1, <3>1, <3>2, <3>3 DEF Touches, Given
    <2> QED
      BY <2>2, <2>3
  <1>3. CASE Visit(i)
    <2>1. request[i] \in Request
      BY <1>3, RequestParts DEF Visit, At
    <2> QED
      BY <1>0, <1>3, <2>1, AnswerTouches DEF Visit, Touches
  <1>4. CASE Save(i)
    <2>1. request[i] \in Request
      BY <1>4, RequestParts DEF Save, At
    <2>2. <<b, s>> \in saved' => Touches(b, s)
      BY <1>4 DEF Save, Touches
    <2> QED
      BY <1>0, <1>4, <2>1, <2>2, AnswerTouches DEF Save
  <1>5. CASE DropSession(i)
    <2>1. request[i] \in Request
      BY <1>5, RequestParts DEF DropSession, At
    <2> DEFINE r == [request[i] EXCEPT !.step = "dropped"]
    <2>2. request' = [request EXCEPT ![i] = r] /\ UNCHANGED <<cookie, saved>>
      BY <1>5 DEF DropSession
    <2>3. /\ r.browser = request[i].browser /\ r.sent = request[i].sent
          /\ r.user = request[i].user /\ r.fresh = request[i].fresh
          /\ r.answer = request[i].answer
      BY <2>1 DEF Request
    <2> HIDE DEF r
    <2>4. \/ Touches(b, s)
          \/ cookie'[b] = s
          \/ <<b, s>> \in saved'
          \/ r.browser = b /\ s \in {r.sent, r.user, r.fresh, r.answer}
      BY <2>2, OneSlotTouches
    <2> QED
      BY <2>2, <2>3, <2>4 DEF Touches
  <1>6. CASE LogOut(i) \/ \E account \in Account : SignIn(i, account)
    <2>1. /\ request[i] \in Request
          /\ Answer(i, NextSession) /\ created' = NextSession /\ UNCHANGED <<cookie, saved>>
      BY <1>6, RequestParts DEF LogOut, SignIn, At, CreateSession
    <2>2. NextSession \in SessionId
      BY <1>6, SessionAssumption
         DEF LogOut, SignIn, CreateSession, SessionTypeOK, NextSession, SessionId
    <2> QED
      BY <2>1, <2>2, AnswerTouches DEF Touches, Given
  <1>7. CASE SignInFails(i)
    <2>1. request[i] \in Request /\ UNCHANGED <<cookie, saved>>
      BY <1>7, RequestParts DEF SignInFails, At
    <2>2. CASE Answer(i, None)
      BY <1>0, <2>1, <2>2, AnswerTouches DEF Touches
    <2>3. CASE request' = [request EXCEPT ![i].step = "answered"]
      <3> DEFINE r == [request[i] EXCEPT !.step = "answered"]
      <3>1. request' = [request EXCEPT ![i] = r]
        BY <2>3
      <3>2. /\ r.browser = request[i].browser /\ r.sent = request[i].sent
            /\ r.user = request[i].user /\ r.fresh = request[i].fresh
            /\ r.answer = request[i].answer
        BY <2>1 DEF Request
      <3> HIDE DEF r
      <3>3. \/ Touches(b, s)
            \/ cookie'[b] = s
            \/ <<b, s>> \in saved'
            \/ r.browser = b /\ s \in {r.sent, r.user, r.fresh, r.answer}
        BY <3>1, OneSlotTouches
      <3> QED
        BY <2>1, <3>2, <3>3 DEF Touches
    <2> QED
      BY <1>7, <2>2, <2>3 DEF SignInFails
  <1>8. CASE Receive(i) \/ CutOff(i)
    <2>1. request' = [request EXCEPT ![i] = Free] /\ UNCHANGED saved
      BY <1>8 DEF Receive, CutOff
    <2>2. cookie'[b] = s => Touches(b, s)
      BY <1>0, <1>8 DEF Receive, CutOff, Touches, SessionTypeOK
    <2>3. Free.browser # b
      BY <1>0 DEF Free
    <2>4. \/ Touches(b, s)
          \/ cookie'[b] = s
          \/ <<b, s>> \in saved'
          \/ Free.browser = b /\ s \in {Free.sent, Free.user, Free.fresh, Free.answer}
      BY <2>1, OneSlotTouches
    <2> QED
      BY <2>1, <2>2, <2>3, <2>4 DEF Touches
  <1> QED
    BY <1>1, <1>2, <1>3, <1>4, <1>5, <1>6, <1>7, <1>8 DEF RequestStep

LEMMA CreatedGrows ==
    ASSUME SessionTypeOK, [SessionNext]_sessionVars
    PROVE  created <= created'
  <1>1. ASSUME NEW i \in Slot, RequestStep(i)
        PROVE  created' \in {created, NextSession}
    BY <1>1
       DEF RequestStep, Send, Authenticate, Resume, StartAnonymous, Visit, Save, DropSession, SignIn,
           SignInFails, LogOut, Receive, CutOff, sessions, CreateSession
  <1>2. created' \in {created, NextSession}
    BY <1>1 DEF SessionNext, Expire, sessionVars, sessions
  <1> QED
    BY <1>2 DEF SessionTypeOK, NextSession

LEMMA TouchesStep ==
    ASSUME SessionTypeOK, UsersOwn, TouchesKnown, TouchesApart, [SessionNext]_sessionVars
    PROVE  TouchesKnown' /\ TouchesApart'
  <1>1. \/ \A b \in Browser, s \in SessionId : Touches(b, s)' => Touches(b, s)
        \/ \E i \in Slot : RequestStep(i)
    BY DEF SessionNext, Expire, sessionVars, Touches
  <1>2. \E c : \A b \in Browser, s \in SessionId :
          Touches(b, s)' => \/ Touches(b, s)
                            \/ b = c /\ s = NextSession /\ created' = NextSession
    BY <1>1, RequestTouches DEF Given
  <1>3. PICK c : \A b \in Browser, s \in SessionId :
          Touches(b, s)' => \/ Touches(b, s)
                            \/ b = c /\ s = NextSession /\ created' = NextSession
    BY <1>2
  <1>4. created \in Nat /\ created' \in Nat /\ created <= created' /\ SessionId \subseteq Nat
    BY CreatedGrows, NextSessionTypeOK DEF SessionTypeOK, SessionId
  <1>5. ASSUME NEW b \in Browser, NEW s \in SessionId, Touches(b, s)'
        PROVE  s <= created'
    <2>1. CASE Touches(b, s)
      BY <1>4, <2>1 DEF TouchesKnown
    <2>2. CASE s = NextSession /\ created' = NextSession
      BY <1>4, <2>2
    <2> QED
      BY <1>3, <1>5, <2>1, <2>2
  <1>6. ASSUME NEW b \in Browser, NEW d \in Browser, NEW s \in SessionId,
               Touches(b, s)', Touches(d, s)'
        PROVE  b = d
    <2>1. CASE s = NextSession
      <3>1. ~ s <= created
        BY <1>4, <2>1 DEF NextSession
      <3>2. ~Touches(b, s) /\ ~Touches(d, s)
        BY <3>1 DEF TouchesKnown
      <3> QED
        BY <1>3, <1>6, <3>2
    <2>2. CASE s # NextSession
      <3>1. Touches(b, s) /\ Touches(d, s)
        BY <1>3, <1>6, <2>2
      <3> QED
        BY <3>1 DEF TouchesApart
    <2> QED
      BY <2>1, <2>2
  <1>7. TouchesKnown'
    BY <1>5 DEF TouchesKnown
  <1>8. TouchesApart'
    BY <1>6 DEF TouchesApart
  <1> QED
    BY <1>7, <1>8

LEMMA NextSessionInv == SessionInv /\ [SessionNext]_sessionVars => SessionInv'
  BY NextSessionTypeOK, UsersOwnStep, AnswersStep, TouchesStep DEF SessionInv

LEMMA SessionInvHolds == SessionSpec => []SessionInv
  BY SessionInitInv, NextSessionInv, PTL DEF SessionSpec

-----------------------------------------------------------------------------
\* Every state of users, sessions, cookies and requests that the middleware
\* and the login handlers can reach is well formed.
THEOREM SessionTypeCorrect == SessionSpec => []SessionTypeOK
  <1>1. SessionInv => SessionTypeOK
    BY DEF SessionInv
  <1> QED
    BY <1>1, SessionInvHolds, PTL

\* No two browsers ever hold one session, or save work as one anonymous user,
\* for any number of browsers, of overlapping requests, logins and faults.
THEOREM BrowsersStayApart == SessionSpec => []BrowsersApart
  <1>1. SessionInv => BrowsersApart
    <2> SUFFICES ASSUME SessionInv, NEW b \in Browser, NEW c \in Browser, b # c
                 PROVE  /\ cookie[b] = None \/ cookie[b] # cookie[c]
                        /\ \A s \in SessionId : ~(<<b, s>> \in saved /\ <<c, s>> \in saved)
      BY DEF BrowsersApart
    <2>1. cookie[b] \in SessionId \cup {None}
      BY DEF SessionInv, SessionTypeOK
    <2> QED
      BY <2>1 DEF SessionInv, TouchesApart, Touches
  <1> QED
    BY <1>1, SessionInvHolds, PTL

\* A valid session of a browser is replaced by its own login or logout, or by
\* the answer to a request sent with another cookie, and by nothing else:
\* expiries, failed logins and requests that are cut off included.
THEOREM OnlyOldAnswersReplaceHolds == SessionSpec => OnlyOldAnswersReplace
  <1> DEFINE Replaced(b) ==
        cookie[b] \in valid /\ cookie'[b] # cookie[b] =>
          \E i \in Slot :
              /\ request[i].browser = b
              /\ request[i].step = "answered" /\ request'[i] = Free
              /\ request[i].kind \in {"callback", "logout"} \/ request[i].sent # cookie[b]
  <1>1. SessionInv /\ [SessionNext]_sessionVars => [\A b \in Browser : Replaced(b)]_sessionVars
    <2> SUFFICES ASSUME SessionInv, [SessionNext]_sessionVars, NEW b \in Browser,
                        cookie[b] \in valid, cookie'[b] # cookie[b]
                 PROVE  \E i \in Slot :
                          /\ request[i].browser = b
                          /\ request[i].step = "answered" /\ request'[i] = Free
                          /\ \/ request[i].kind \in {"callback", "logout"}
                             \/ request[i].sent # cookie[b]
      OBVIOUS
    <2>1. PICK i \in Slot : Receive(i)
      BY DEF SessionNext, RequestStep, Send, Authenticate, Visit, Save, DropSession, SignIn,
             SignInFails, LogOut, CutOff, Expire, sessionVars
    <2>2. SessionTypeOK /\ AnswersExplained
      BY DEF SessionInv
    <2>3. /\ request[i].browser = b /\ request[i].answer # None
          /\ request[i].step = "answered" /\ request'[i] = Free
      BY <2>1, <2>2 DEF Receive, SessionTypeOK
    <2>4. request[i].kind \notin {"callback", "logout"} => request[i].sent \notin valid
      BY <2>2, <2>3 DEF AnswersExplained
    <2> QED
      BY <2>3, <2>4
  <1> QED
    BY <1>1, SessionInvHolds, PTL DEF SessionSpec, OnlyOldAnswersReplace
=============================================================================
