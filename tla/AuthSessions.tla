---------------------------- MODULE AuthSessions ----------------------------
(***************************************************************************)
(* The server's sessions: one token per account in the users table, issued *)
(* by the portal login and by the Swiggy (PKCE) callback, checked by the   *)
(* auth middleware, dropped by logout, by an administrator and by expiry.  *)
(* A PKCE flow lives in the memory of the process, with a timer.  Handlers *)
(* interleave at every await; each runs in a slot until it is answered.    *)
(***************************************************************************)
EXTENDS Naturals, FiniteSets

CONSTANTS
    Accounts,      \* portal accounts, and the identities Swiggy tokens hash to
    Clients,       \* browser tabs that send the requests
    Flows,         \* PKCE flows, by their `state` parameter
    FlowAccount,   \* the identity of the Swiggy token each flow yields
    Slots,         \* bound: sign-in requests at the server at one time
    MaxToken,      \* bound: session tokens ever issued
    Nobody, NoFlow

ASSUME AuthAssumption == MaxToken \in Nat /\ FlowAccount \in [Flows -> Accounts]

VARIABLES
    flow,       \* pendingFlows: "unused", "pending", or "gone"
    exchanged,  \* how often the code of a flow was exchanged at Swiggy
    known,      \* accounts with a row in users
    session,    \* users.session_token of each account; 0: null
    expired,    \* accounts whose token_expiry has passed
    owner,      \* the account each token was issued to
    signIn      \* login and callback handlers

authVars == <<flow, exchanged, known, session, expired, owner, signIn>>

Tokens == 1..MaxToken
Issued == {t \in Tokens : owner[t] # Nobody}
IdleSignIn == [pc |-> "free", client |-> Nobody, account |-> Nobody,
               flow |-> NoFlow, seen |-> FALSE, token |-> 0]

AuthTypes ==
    /\ flow \in [Flows -> {"unused", "pending", "gone"}]
    /\ exchanged \in [Flows -> Nat]
    /\ known \subseteq Accounts /\ expired \subseteq known
    /\ session \in [Accounts -> 0..MaxToken]
    /\ owner \in [Tokens -> Accounts \union {Nobody}]
    /\ signIn \in [Slots ->
          [pc: {"free", "exchange", "select", "write", "done", "failed"},
           client: Clients \union {Nobody}, account: Accounts \union {Nobody},
           flow: Flows \union {NoFlow}, seen: BOOLEAN, token: 0..MaxToken]]

AuthInit ==
    /\ flow = [f \in Flows |-> "unused"]
    /\ exchanged = [f \in Flows |-> 0]
    /\ known = {} /\ expired = {}
    /\ session = [a \in Accounts |-> 0]
    /\ owner = [t \in Tokens |-> Nobody]
    /\ signIn = [s \in Slots |-> IdleSignIn]

\* GET /auth/swiggy: the verifier is kept, under the state, for two minutes.
StartFlow(f) ==
    /\ flow[f] = "unused"
    /\ flow' = [flow EXCEPT ![f] = "pending"]
    /\ UNCHANGED <<exchanged, known, session, expired, owner, signIn>>

FlowTimesOut(f) ==
    /\ flow[f] = "pending"
    /\ flow' = [flow EXCEPT ![f] = "gone"]
    /\ UNCHANGED <<exchanged, known, session, expired, owner, signIn>>

\* The process restarts: flows in memory and requests being served are gone.
ServerRestart ==
    /\ flow' = [f \in Flows |-> IF flow[f] = "pending" THEN "gone" ELSE flow[f]]
    /\ signIn' = [s \in Slots |-> IF signIn[s].pc \in {"exchange", "select", "write"}
                                  THEN [signIn[s] EXCEPT !.pc = "failed"] ELSE signIn[s]]
    /\ signIn' # signIn \/ flow' # flow
    /\ UNCHANGED <<exchanged, known, session, expired, owner>>

\* POST /auth/login: unknown credentials are refused at once.
LoginRequest(s, c, a) ==
    /\ signIn[s].pc = "free"
    /\ signIn' = [signIn EXCEPT ![s] =
          [IdleSignIn EXCEPT !.pc = IF a = Nobody THEN "failed" ELSE "select",
                             !.client = c, !.account = a]]
    /\ UNCHANGED <<flow, exchanged, known, session, expired, owner>>

\* Mutant: the flow is only deleted by its timer.
CallbackRequestKeepsFlow(s, c, f) ==
    /\ signIn[s].pc = "free"
    /\ signIn' = [signIn EXCEPT ![s] =
          [IdleSignIn EXCEPT !.pc = IF flow[f] = "pending" THEN "exchange" ELSE "failed",
                             !.client = c, !.flow = f]]
    /\ UNCHANGED <<flow, exchanged, known, session, expired, owner>>

\* GET /auth/callback: the flow is looked up and deleted before the exchange.
CallbackRequest(s, c, f) ==
    /\ signIn[s].pc = "free"
    /\ signIn' = [signIn EXCEPT ![s] =
          [IdleSignIn EXCEPT !.pc = IF flow[f] = "pending" THEN "exchange" ELSE "failed",
                             !.client = c, !.flow = f]]
    /\ flow' = [flow EXCEPT ![f] = IF @ = "pending" THEN "gone" ELSE @]
    /\ UNCHANGED <<exchanged, known, session, expired, owner>>

\* exchangeCodeForToken: the code is used up, with a token or a failure.
Exchange(s) ==
    /\ signIn[s].pc = "exchange"
    /\ exchanged' = [exchanged EXCEPT ![signIn[s].flow] = @ + 1]
    /\ \/ signIn' = [signIn EXCEPT ![s].pc = "select",
                                   ![s].account = FlowAccount[signIn[s].flow]]
       \/ signIn' = [signIn EXCEPT ![s].pc = "failed"]
    /\ UNCHANGED <<flow, known, session, expired, owner>>

SelectUser(s) ==
    /\ signIn[s].pc = "select"
    /\ signIn' = [signIn EXCEPT ![s].pc = "write",
                                ![s].seen = signIn[s].account \in known]
    /\ UNCHANGED <<flow, exchanged, known, session, expired, owner>>

\* The row is updated, or inserted: swiggy_id_hash is unique, so of two first
\* sign-ins of an account that selected together the second insert raises.
WriteSession(s) ==
    LET a == signIn[s].account
        fresh == Cardinality(Issued) + 1
    IN  /\ signIn[s].pc = "write"
        /\ \/ /\ signIn[s].seen \/ a \notin known
              /\ fresh <= MaxToken
              /\ known' = known \union {a}
              /\ session' = [session EXCEPT ![a] = fresh]
              /\ expired' = expired \ {a}
              /\ owner' = [owner EXCEPT ![fresh] = a]
              /\ signIn' = [signIn EXCEPT ![s].pc = "done", ![s].token = fresh]
           \/ /\ ~signIn[s].seen /\ a \in known
              /\ signIn' = [signIn EXCEPT ![s].pc = "failed"]
              /\ UNCHANGED <<known, session, expired, owner>>
        /\ UNCHANGED <<flow, exchanged>>

\* authMiddleware: the account whose current, unexpired token this is.
Authenticated(t) == {a \in known \ expired : session[a] = t /\ t # 0}

\* POST /auth/logout: the row is found by the token's hash.
LogoutToken(t) ==
    /\ session' = [a \in Accounts |-> IF session[a] = t THEN 0 ELSE session[a]]
    /\ UNCHANGED <<flow, exchanged, known, expired, owner, signIn>>

\* PATCH /admin/users/:id with revokeSession.
RevokeSession(a) ==
    /\ session[a] # 0
    /\ session' = [session EXCEPT ![a] = 0]
    /\ UNCHANGED <<flow, exchanged, known, expired, owner, signIn>>

\* Mutant: an expiry is recorded for an account without a row.
ExpireSessionOfAnyone(a) ==
    /\ a \notin expired
    /\ expired' = expired \union {a}
    /\ UNCHANGED <<flow, exchanged, known, session, owner, signIn>>

ExpireSession(a) ==
    /\ a \in known \ expired
    /\ expired' = expired \union {a}
    /\ UNCHANGED <<flow, exchanged, known, session, owner, signIn>>

\* What the server does by itself, with those of the faults named.
AuthServerStep(faults) ==
    \/ \E f \in Flows : FlowTimesOut(f)
    \/ \E s \in Slots : Exchange(s) \/ SelectUser(s) \/ WriteSession(s)
    \/ "revoke" \in faults /\ \E a \in Accounts : RevokeSession(a)
    \/ "expire" \in faults /\ \E a \in Accounts : ExpireSession(a)
    \/ "restart" \in faults /\ ServerRestart

\* Any browsers: what WebSession's tabs send is some of it.
AuthNext ==
    \/ \E f \in Flows : StartFlow(f)
    \/ \E s \in Slots, c \in Clients :
          \/ \E a \in Accounts \union {Nobody} : LoginRequest(s, c, a)
          \/ \E f \in Flows : CallbackRequest(s, c, f)
    \/ \E t \in Tokens : LogoutToken(t)
    \/ AuthServerStep({"revoke", "expire", "restart"})

AuthSpec == AuthInit /\ [][AuthNext]_authVars

-----------------------------------------------------------------------------
\* The code of a PKCE flow goes to Swiggy at most once, whatever browsers and
\* timers do: the callback handler takes the flow out of the map before it
\* awaits the exchange, so a second callback, or one after the timer or a
\* restart, finds none.
FlowExchangedOnce ==
    \A f \in Flows :
        exchanged[f] + Cardinality({s \in Slots : signIn[s].pc = "exchange"
                                                  /\ signIn[s].flow = f}) <= 1
=============================================================================
