----------------------------- MODULE WebSession -----------------------------
(***************************************************************************)
(* The session in the browser: the auth store of every tab, the two copies *)
(* of the token in localStorage (rb_token, which api() sends, and rb_auth, *)
(* which the store persists), the login, callback and logout flows, the    *)
(* page gates that redirect by role, and the server of AuthSessions.       *)
(***************************************************************************)
EXTENDS AuthSessions, Sequences, SequencesExt

CONSTANTS
    RoleOf,        \* the role of each account
    MaxAsking,     \* bound: GET /auth/me requests of a tab in flight
    Addresses,     \* input: pages opened by their address, or reloaded
    SessionModes   \* input: circumstances, records of SessionMode

SessionFaults ==
    { "reorder",      \* answers to GET /auth/me overtake each other
      "unreachable",  \* the API may fail to answer it
      "link",         \* pages are opened with ?token=
      "expire", "revoke",   \* sessions end at the server
      "restart" }     \* the API process restarts
SessionMode == [tabs: SUBSET Clients, slots: SUBSET Slots, flows: SUBSET Flows,
                faults: SUBSET SessionFaults]
Roles == {RoleOf[a] : a \in Accounts}
Pages == Roles \union {"landing", "login", "callback"}

\* No account is nobody, or one of the words that stand where an account may;
\* no role has a portal at /login.
ASSUME SessionAssumption ==
    /\ Accounts \intersect {Nobody, "sent", "denied", "error"} = {}
    /\ "login" \notin Roles
    /\ MaxAsking \in Nat \ {0}
    /\ Addresses \subseteq Pages /\ SessionModes \subseteq SessionMode

VARIABLES
    store,      \* the zustand store of each tab: token, user, and whether the
                \* user record is the server's (user.id # 0), sessionError
    rbToken,    \* localStorage.rb_token
    persisted,  \* localStorage.rb_auth
    asking,     \* GET /auth/me of each tab, in the order sent
    page,       \* what each tab shows: a role's portal, or a public page
    leaving,    \* tokens whose POST /auth/logout is under way
    sessionMode

sessionVars == <<store, rbToken, persisted, asking, page, leaving, sessionMode, authVars>>

SignedOut == [token |-> 0, user |-> Nobody, confirmed |-> FALSE, error |-> FALSE]

SessionTypes ==
    /\ AuthTypes
    /\ store \in [Clients -> [token: 0..MaxToken, user: Accounts \union {Nobody},
                              confirmed: BOOLEAN, error: BOOLEAN]]
    /\ rbToken \in 0..MaxToken /\ persisted \in 0..MaxToken
    /\ \A c \in Clients : \A i \in DOMAIN asking[c] :
          asking[c][i] \in [token: Tokens, then: Pages \union {"stay", "gate"},
                            answer: Accounts \union {"sent", "denied", "error"}]
    /\ page \in [Clients -> Pages]
    /\ leaving \subseteq Tokens
    /\ sessionMode \in SessionModes

SessionInit ==
    /\ AuthInit
    /\ store = [c \in Clients |-> SignedOut]
    /\ rbToken = 0 /\ persisted = 0
    /\ asking = [c \in Clients |-> <<>>]
    /\ page = [c \in Clients |-> "landing"]
    /\ leaving = {}
    /\ sessionMode \in SessionModes

Question(t, then) == [token |-> t, then |-> then, answer |-> "sent"]
Signing(c) == \E s \in Slots : signIn[s].pc # "free" /\ signIn[s].client = c

\* A change of the store: persist writes this tab's token to rb_auth with
\* every set(), whatever another tab wrote there since.
SetStore(c, new) ==
    /\ store' = [store EXCEPT ![c] = new]
    /\ persisted' = new.token

\* fetchUser: the store's token becomes the one api() sends.
FetchUser(c, token, then) ==
    /\ Len(asking[c]) < MaxAsking
    /\ asking' = [asking EXCEPT ![c] = Append(@, Question(token, then))]
    /\ rbToken' = token

\* A page load: the store is read back from rb_auth, and asks who it is.
\* What the old page was waiting for goes unanswered.
Load(c, p) ==
    /\ page' = [page EXCEPT ![c] = p]
    /\ SetStore(c, [SignedOut EXCEPT !.token = persisted])
    /\ asking' = [asking EXCEPT ![c] =
          IF persisted = 0 THEN <<>> ELSE <<Question(persisted, "stay")>>]
    /\ rbToken' = IF persisted = 0 THEN rbToken ELSE persisted

Abandon(c) == [s \in Slots |-> IF signIn[s].client = c
                               THEN IF signIn[s].pc \in {"done", "failed"} THEN IdleSignIn
                                    ELSE [signIn[s] EXCEPT !.client = Nobody]
                               ELSE signIn[s]]

\* The customer opens a page by its address, or reloads.
OpenPage(c, p) ==
    /\ Load(c, p)
    /\ signIn' = Abandon(c)
    /\ UNCHANGED <<leaving, flow, exchanged, known, session, expired, owner>>

\* TokenCapture: a page opened with ?token= keeps that token instead.
OpenWithToken(c, t) ==
    /\ "link" \in sessionMode.faults /\ t \in Issued
    /\ page' = [page EXCEPT ![c] = "landing"]
    /\ SetStore(c, [SignedOut EXCEPT !.token = t])
    /\ rbToken' = t
    /\ asking' = [asking EXCEPT ![c] =
          IF persisted = 0 THEN <<>> ELSE <<Question(persisted, "stay")>>]
    /\ signIn' = Abandon(c)
    /\ UNCHANGED <<leaving, flow, exchanged, known, session, expired, owner>>

\* Login.tsx onSubmit; the form is there while the store has no signed-in user,
\* and disabled while it waits.  Nobody stands for wrong credentials.
SubmitLogin(c, s, a) ==
    /\ page[c] = "login" /\ ~Signing(c)
    /\ store[c].token = 0 \/ store[c].user = Nobody
    /\ LoginRequest(s, c, a)
    /\ UNCHANGED <<store, rbToken, persisted, asking, page, leaving>>

\* loadPortalHints, answered: a set() that brings no token still persists the one
\* this tab has.  Any tab may have been at /login, whose effect asks: going there
\* and back through the history changes nothing else, and is no step here.
HintsAnswered(c) ==
    /\ SetStore(c, store[c])
    /\ UNCHANGED <<rbToken, asking, page, leaving, authVars>>

\* login(): a flow is started and the browser leaves for Swiggy.
LeaveForSwiggy(c, f) ==
    /\ StartFlow(f)
    /\ UNCHANGED <<store, rbToken, persisted, asking, page, leaving>>

\* The browser comes back, or the callback page is loaded again.
ReturnFromSwiggy(c, s, f) ==
    /\ flow[f] # "unused" /\ ~Signing(c)
    /\ Load(c, "callback")
    /\ CallbackRequest(s, c, f)
    /\ UNCHANGED leaving

\* Mutant: the login trusts what it was told and asks no more.
LoginAnsweredUnchecked(c, s) ==
    /\ signIn[s].pc = "done" /\ signIn[s].client = c /\ signIn[s].flow = NoFlow
    /\ SetStore(c, [token |-> signIn[s].token, user |-> signIn[s].account,
                    confirmed |-> FALSE, error |-> FALSE])
    /\ rbToken' = signIn[s].token
    /\ page' = [page EXCEPT ![c] = RoleOf[signIn[s].account]]
    /\ signIn' = [signIn EXCEPT ![s] = IdleSignIn]
    /\ UNCHANGED <<asking, leaving, flow, exchanged, known, session, expired, owner>>

\* loginWithCredentials once answered: the store takes the token and the user
\* it was told, with id 0, then asks the server and goes to the home page.
LoginAnswered(c, s) ==
    /\ signIn[s].pc = "done" /\ signIn[s].client = c /\ signIn[s].flow = NoFlow
    /\ SetStore(c, [token |-> signIn[s].token, user |-> signIn[s].account,
                    confirmed |-> FALSE, error |-> FALSE])
    /\ FetchUser(c, signIn[s].token, RoleOf[signIn[s].account])
    /\ signIn' = [signIn EXCEPT ![s] = IdleSignIn]
    /\ UNCHANGED <<page, leaving, flow, exchanged, known, session, expired, owner>>

\* AuthCallback once answered: setToken leaves the user as it is, and the page
\* goes to the traveller's home.
CallbackAnswered(c, s) ==
    /\ signIn[s].pc = "done" /\ signIn[s].client = c /\ signIn[s].flow # NoFlow
    /\ SetStore(c, [store[c] EXCEPT !.token = signIn[s].token, !.error = FALSE])
    /\ FetchUser(c, signIn[s].token, RoleOf[FlowAccount[signIn[s].flow]])
    /\ signIn' = [signIn EXCEPT ![s] = IdleSignIn]
    /\ UNCHANGED <<page, leaving, flow, exchanged, known, session, expired, owner>>

\* A refused sign-in is shown; an answer nobody waits for is dropped.
SignInFailed(s) ==
    /\ \/ signIn[s].pc = "failed"
       \/ signIn[s].pc = "done" /\ signIn[s].client = Nobody
    /\ signIn' = [signIn EXCEPT ![s] = IdleSignIn]
    /\ UNCHANGED <<store, rbToken, persisted, asking, page, leaving,
                   flow, exchanged, known, session, expired, owner>>

\* GET /auth/me at the server, or not reached.
MeServed(c, i) ==
    /\ asking[c][i].answer = "sent"
    /\ \/ \E a \in Authenticated(asking[c][i].token) :
             asking' = [asking EXCEPT ![c][i].answer = a]
       \/ /\ Authenticated(asking[c][i].token) = {}
          /\ asking' = [asking EXCEPT ![c][i].answer = "denied"]
       \/ /\ "unreachable" \in sessionMode.faults
          /\ asking' = [asking EXCEPT ![c][i].answer = "error"]
    /\ UNCHANGED <<store, rbToken, persisted, page, leaving, authVars>>

\* What the store becomes: the answer is not compared with the token the store
\* holds by then.
Told(st, answer) ==
    CASE answer = "denied" -> [SignedOut EXCEPT !.error = TRUE]
      [] answer = "error"  -> [st EXCEPT !.error = TRUE]
      [] OTHER             -> [st EXCEPT !.user = answer, !.confirmed = TRUE, !.error = FALSE]

\* Where the waiting caller goes: login and callback to their home whatever the
\* answer, useProtectedNavigate by what the store then holds.
Destination(c, q, st) ==
    CASE q.then = "stay" -> page[c]
      [] q.then = "gate" -> IF q.answer \in Accounts /\ st.user # Nobody
                            THEN RoleOf[st.user] ELSE "login"
      [] OTHER           -> q.then

MeAnswered(c, i) ==
    LET q == asking[c][i]
        st == Told(store[c], q.answer)
    IN  /\ q.answer # "sent"
        /\ "reorder" \in sessionMode.faults \/ i = 1
        /\ SetStore(c, st)
        /\ rbToken' = IF q.answer = "denied" THEN 0 ELSE rbToken
        /\ page' = [page EXCEPT ![c] = Destination(c, q, st)]
        /\ asking' = [asking EXCEPT ![c] = RemoveAt(@, i)]
        /\ UNCHANGED <<leaving, authVars>>

\* useProtectedNavigate from a public page.
GoProtected(c) ==
    /\ page[c] = "landing"
    /\ \/ /\ store[c].token = 0
          /\ page' = [page EXCEPT ![c] = "login"]
          /\ UNCHANGED <<asking, rbToken>>
       \/ /\ store[c].token # 0
          /\ FetchUser(c, store[c].token, "gate")
          /\ UNCHANGED page
    /\ UNCHANGED <<store, persisted, leaving, authVars>>

\* logout(): the request takes rb_token with it, both copies are cleared and
\* /login is loaded.
Logout(c) ==
    /\ store[c].user # Nobody
    /\ leaving' = leaving \union ({rbToken} \ {0})
    /\ rbToken' = 0
    /\ SetStore(c, SignedOut)
    /\ asking' = [asking EXCEPT ![c] = <<>>]
    /\ page' = [page EXCEPT ![c] = "login"]
    /\ signIn' = Abandon(c)
    /\ UNCHANGED <<flow, exchanged, known, session, expired, owner>>

\* The logout request arrives, or is lost with the page that sent it.
LogoutArrives(t) ==
    /\ leaving' = leaving \ {t}
    /\ LogoutToken(t) \/ UNCHANGED authVars
    /\ UNCHANGED <<store, rbToken, persisted, asking, page>>

\* Mutant: any session error sends to the login page.
GateSendsOnUnconfirmed(st, role) ==
    IF st.token = 0 \/ st.user = Nobody THEN "login"
    ELSE IF RoleOf[st.user] # role THEN RoleOf[st.user]
    ELSE IF ~st.confirmed THEN "login" ELSE role

\* RequireRole around a portal: who is sent where.
GateSends(st, role) ==
    IF st.token = 0 \/ st.user = Nobody THEN "login"
    ELSE IF RoleOf[st.user] # role THEN RoleOf[st.user]
    ELSE IF st.error /\ ~st.confirmed THEN "login" ELSE role

\* Login.tsx sends a signed-in user home.
LoginSends(st) == IF st.token # 0 /\ st.user # Nobody THEN RoleOf[st.user] ELSE "login"

\* The redirect of the page shown.  RequireRole also adopts an rb_token that
\* the store does not have (ensureSession).
Redirect(c) ==
    LET to == IF page[c] = "login" THEN LoginSends(store[c])
              ELSE GateSends(store[c], page[c])
    IN  /\ page[c] \in Roles \union {"login"}
        /\ to # page[c]
        /\ page' = [page EXCEPT ![c] = to]
        /\ IF page[c] # "login" /\ store[c].token = 0 /\ rbToken # 0
           THEN /\ SetStore(c, [store[c] EXCEPT !.token = rbToken])
                /\ FetchUser(c, rbToken, "stay")
           ELSE UNCHANGED <<store, persisted, asking, rbToken>>
        /\ UNCHANGED <<leaving, authVars>>

TabStep(c) ==
    \/ \E p \in Addresses : OpenPage(c, p)
    \/ \E t \in Tokens : OpenWithToken(c, t)
    \/ \E s \in sessionMode.slots, a \in Accounts \union {Nobody} : SubmitLogin(c, s, a)
    \/ \E f \in sessionMode.flows : LeaveForSwiggy(c, f)
    \/ \E s \in sessionMode.slots, f \in sessionMode.flows : ReturnFromSwiggy(c, s, f)
    \/ \E s \in Slots : LoginAnswered(c, s) \/ CallbackAnswered(c, s)
    \/ \E i \in DOMAIN asking[c] : MeServed(c, i) \/ MeAnswered(c, i)
    \/ GoProtected(c)
    \/ HintsAnswered(c)
    \/ Logout(c)
    \/ Redirect(c)

SessionNext ==
    /\ \/ \E c \in sessionMode.tabs : TabStep(c)
       \/ \E s \in Slots : SignInFailed(s)
       \/ \E t \in leaving : LogoutArrives(t)
       \/ /\ AuthServerStep(sessionMode.faults)
          /\ UNCHANGED <<store, rbToken, persisted, asking, page, leaving>>
    /\ UNCHANGED sessionMode

SessionSpec == SessionInit /\ [][SessionNext]_sessionVars

-----------------------------------------------------------------------------
\* Once a tab has its answers, in the order it asked, the user it shows is the
\* owner of the token it sends: late answers for an earlier token do not stay.
\* (Out of order they do: fetchUser never compares an answer with the token
\* the store holds by then.  So does the earlier user when the API is not
\* reached after a callback, or when a link brings a token: TokenCapture and
\* setToken leave the user as it is.)
SettledUserOwnsToken ==
    sessionMode.faults \intersect {"reorder", "unreachable", "link"} = {} =>
        \A c \in Clients :
            asking[c] = <<>> /\ store[c].token # 0 /\ store[c].user # Nobody
                => owner[store[c].token] = store[c].user

\* While the API answers, the two gates never send a tab back and forth: no
\* portal page refers to /login a user whom /login refers to that portal.
\* (Unreachable after a login they do: user.id is still 0 and sessionError set.)
NoRedirectLoop ==
    "unreachable" \notin sessionMode.faults =>
        \A c \in Clients, r \in Roles :
            ~(GateSends(store[c], r) = "login" /\ LoginSends(store[c]) = r)
=============================================================================
