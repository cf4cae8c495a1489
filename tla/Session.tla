------------------------------ MODULE Session ------------------------------
(***************************************************************************)
(* Who a browser is: UserSessionMiddleware gives every request without a    *)
(* valid session cookie a new anonymous user and session, login at an OIDC  *)
(* provider and logout replace the session, and queries and sheets are      *)
(* saved under the user of the request. A page sends several requests at a  *)
(* time (it loads three and then polls every second), other tabs more, and  *)
(* whatever answer comes last sets the cookie.                              *)
(*                                                                         *)
(* A session is a number, in the order of creation. An anonymous user has    *)
(* one session, written right after the user, and carries its number: a      *)
(* user without a session, left by a crash in between, is seen by nobody.   *)
(***************************************************************************)
EXTENDS Naturals

CONSTANTS
    Browser,
    Slot,        \* bound on the requests under way
    Account,     \* identities at the provider; none if OIDC is not configured
    MaxSessions, \* bound on the sessions of a behaviour
    Faults,      \* the kinds of fault that may happen
    MaxFaults,   \* bound on the faults of a behaviour
    None

SessionId == 1 .. MaxSessions
User == Account \cup SessionId

ASSUME SessionAssumption ==
    /\ MaxSessions \in Nat
    /\ MaxFaults \in Nat
    /\ Faults \subseteq {"provider", "expiry", "request"}
    /\ Account \cap SessionId = {}
    /\ None \notin User
    /\ None \notin Browser

VARIABLES
    created,    \* sessions created so far
    user,       \* user[s]: the user of session s
    valid,      \* sessions that exist and have not expired
    cookie,     \* cookie[b]: the session_id cookie of browser b
    away,       \* browsers that were sent to the provider
    request,    \* request[i]: the request in slot i
    saved,      \* <<b, u>>: browser b has saved a query or a sheet as user u
    faults      \* faults so far

sessions == <<created, user, valid>>
sessionVars == <<sessions, cookie, away, request, saved, faults>>

\* visit stands for every handler that saves nothing and sets no cookie.
Kind == {"visit", "save"} \cup (IF Account = {} THEN {} ELSE {"login", "callback"}) \cup {"logout"}

\* sent is the cookie the request came with, fresh the session the middleware
\* created for it, answer the cookie its response sets.
Request == [browser : Browser, kind : Kind, sent : SessionId \cup {None},
            step : {"sent", "handled", "dropped", "answered"}, user : User \cup {None},
            fresh : SessionId \cup {None}, answer : SessionId \cup {None}]
Free == [browser |-> None, kind |-> "none", sent |-> None, step |-> "free",
         user |-> None, fresh |-> None, answer |-> None]

SessionInit ==
    /\ created = 0
    /\ user = [s \in SessionId |-> None]
    /\ valid = {}
    /\ cookie = [b \in Browser |-> None]
    /\ away = {}
    /\ request = [i \in Slot |-> Free]
    /\ saved = {}
    /\ faults = 0

Fault(kind) == kind \in Faults /\ faults < MaxFaults /\ faults' = faults + 1
-----------------------------------------------------------------------------
At(i, step, kinds) == request[i].step = step /\ request[i].kind \in kinds

\* The browser comes back from the provider once for every login.
Send(i, b, kind) ==
    /\ request[i] = Free
    /\ kind = "callback" => b \in away
    /\ away' = IF kind = "callback" THEN away \ {b} ELSE away
    /\ request' = [request EXCEPT ![i] =
           [browser |-> b, kind |-> kind, sent |-> cookie[b], step |-> "sent",
            user |-> None, fresh |-> None, answer |-> None]]
    /\ UNCHANGED <<sessions, cookie, saved, faults>>

\* Mutant: every anonymous user gets the same subject.
SharedAnonymousUser(s) == 1

\* create_anonymous_user, for the session that is created next.
AnonymousUser(s) == s

NextSession == created + 1

\* Mutant: the identifier is not a new one.
CreateSessionAgain(u) ==
    /\ created < MaxSessions
    /\ created' = created
    /\ user' = [user EXCEPT ![NextSession] = u]
    /\ valid' = valid \cup {NextSession}

CreateSession(u) ==
    /\ created < MaxSessions
    /\ created' = NextSession
    /\ user' = [user EXCEPT ![NextSession] = u]
    /\ valid' = valid \cup {NextSession}

Resume(i) ==
    /\ request' = [request EXCEPT ![i].step = "handled", ![i].user = user[request[i].sent]]
    /\ UNCHANGED sessions

StartAnonymous(i) ==
    /\ CreateSession(AnonymousUser(NextSession))
    /\ request' = [request EXCEPT ![i].step = "handled",
                                  ![i].user = AnonymousUser(NextSession),
                                  ![i].fresh = NextSession]

\* Mutant: the user found by the cookie is not used.
AuthenticateAnew(i) ==
    /\ request[i].step = "sent"
    /\ StartAnonymous(i)
    /\ UNCHANGED <<cookie, away, saved, faults>>

\* UserSessionMiddleware, before the handler.
Authenticate(i) ==
    /\ request[i].step = "sent"
    /\ IF request[i].sent \in valid THEN Resume(i) ELSE StartAnonymous(i)
    /\ UNCHANGED <<cookie, away, saved, faults>>

\* The middleware, after the handler: its own cookie follows, and overrides,
\* the one the handler has set.
Answer(i, s) ==
    request' = [request EXCEPT ![i].step = "answered",
                               ![i].answer = IF request[i].fresh # None
                                             THEN request[i].fresh ELSE s]

Visit(i) ==
    /\ At(i, "handled", {"visit", "login"})
    /\ Answer(i, None)
    /\ UNCHANGED <<sessions, cookie, away, saved, faults>>

\* submit_query and create_sheet, under the user of the request.
Save(i) ==
    /\ At(i, "handled", {"save"})
    /\ saved' = saved \cup {<<request[i].browser, request[i].user>>}
    /\ Answer(i, None)
    /\ UNCHANGED <<sessions, cookie, away, faults>>

\* auth_callback and auth_logout first delete the session of the cookie.
DropSession(i) ==
    /\ At(i, "handled", {"callback", "logout"})
    /\ valid' = valid \ {request[i].sent}
    /\ request' = [request EXCEPT ![i].step = "dropped"]
    /\ UNCHANGED <<created, user, cookie, away, saved, faults>>

SignIn(i, account) ==
    /\ At(i, "dropped", {"callback"})
    /\ CreateSession(account)
    /\ Answer(i, NextSession)
    /\ UNCHANGED <<cookie, away, saved, faults>>

\* The token exchange fails: an error page, with the cookie of the middleware
\* only if the exception was an HTTPException.
SignInFails(i) ==
    /\ Fault("provider")
    /\ At(i, "dropped", {"callback"})
    /\ \/ Answer(i, None)
       \/ request' = [request EXCEPT ![i].step = "answered"]
    /\ UNCHANGED <<sessions, cookie, away, saved>>

LogOut(i) ==
    /\ At(i, "dropped", {"logout"})
    /\ CreateSession(AnonymousUser(NextSession))
    /\ Answer(i, NextSession)
    /\ UNCHANGED <<cookie, away, saved, faults>>

\* The browser gets the answer; the one to /auth/login sends it away.
Receive(i) ==
    /\ request[i].step = "answered"
    /\ cookie' = IF request[i].answer = None THEN cookie
                 ELSE [cookie EXCEPT ![request[i].browser] = request[i].answer]
    /\ away' = IF request[i].kind = "login" THEN away \cup {request[i].browser} ELSE away
    /\ request' = [request EXCEPT ![i] = Free]
    /\ UNCHANGED <<sessions, saved, faults>>

\* A request is cut off: the coordinator stops between two of its statements,
\* or the page that waits for the answer is left.
CutOff(i) ==
    /\ Fault("request")
    /\ request[i] # Free
    /\ request' = [request EXCEPT ![i] = Free]
    /\ UNCHANGED <<sessions, cookie, away, saved>>

\* get_session_user takes no expired session, and deletes it.
Expire(s) ==
    /\ Fault("expiry")
    /\ s \in valid
    /\ valid' = valid \ {s}
    /\ UNCHANGED <<created, user, cookie, away, request, saved>>

RequestStep(i) ==
    \/ \E b \in Browser, kind \in Kind : Send(i, b, kind)
    \/ Authenticate(i)
    \/ Visit(i)
    \/ Save(i)
    \/ DropSession(i)
    \/ \E account \in Account : SignIn(i, account)
    \/ SignInFails(i)
    \/ LogOut(i)
    \/ Receive(i)
    \/ CutOff(i)

SessionNext ==
    \/ \E i \in Slot : RequestStep(i)
    \/ \E s \in SessionId : Expire(s)

SessionSpec == SessionInit /\ [][SessionNext]_sessionVars
-----------------------------------------------------------------------------
(* Properties *)

\* Requests, cookies and sessions hold what their code can put there.
SessionTypeOK ==
    /\ created \in 0 .. MaxSessions
    /\ user \in [SessionId -> User \cup {None}]
    /\ valid \subseteq 1 .. created
    /\ cookie \in [Browser -> SessionId \cup {None}]
    /\ away \subseteq Browser
    /\ request \in [Slot -> Request \cup {Free}]
    /\ saved \subseteq Browser \X User
    /\ faults \in 0 .. MaxFaults
    /\ \A s \in 1 .. created : user[s] # None
    /\ \A i \in Slot :
         request[i].step \in {"handled", "dropped", "answered"} => request[i].user # None

\* README.md:116 assigns each browser a session of its own: two browsers never
\* hold the same session, and never save work as the same anonymous user,
\* however their requests, logins and logouts overlap.
BrowsersApart ==
    \A b, c \in Browser :
        \/ b = c
        \/ /\ cookie[b] = None \/ cookie[b] # cookie[c]
           /\ \A s \in SessionId : ~(<<b, s>> \in saved /\ <<c, s>> \in saved)

\* A browser whose session is valid loses it only to its own login or logout,
\* or to the answer to a request that it had sent with another cookie. The
\* last case is the weakness of the scheme: a poll sent before a login and
\* answered after it makes the browser anonymous again.
OnlyOldAnswersReplace ==
    [][\A b \in Browser :
         cookie[b] \in valid /\ cookie'[b] # cookie[b] =>
             \E i \in Slot :
                 /\ request[i].browser = b
                 /\ request[i].step = "answered" /\ request'[i] = Free
                 /\ request[i].kind \in {"callback", "logout"} \/ request[i].sent # cookie[b]
      ]_sessionVars
=============================================================================
