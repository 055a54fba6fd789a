------------------------- MODULE WebClient_proofs -------------------------
(***************************************************************************)
(* Proofs about the server's sessions and the pages of MCWebClient, for    *)
(* every number of users, tabs, sign-ins, flows and tokens, of kitchens,   *)
(* dishes and hops, of jobs and of requests under way.                     *)
(*                                                                         *)
(*   The server's sessions, with restarts, expiry and revocations.         *)
(*   SlotInv is what the steps of one sign-in hand to each other, FlowInv  *)
(*   that a flow out of the map is in one handler's hands.                 *)
(*   The rider's console.  ConsoleInv is about the order in which a calm   *)
(*   rider's requests are answered and what they say of his duty, ShownInv *)
(*   about the selected job and the details asked for.                     *)
(*   The checkout.  OnceInv says where the place button is off and what    *)
(*   keeps it off, and since when the cart counts as ordered; AwayInv,     *)
(*   MenuInv, PreviewInv, PlanInv and FoodInv say that what is shown, or   *)
(*   asked for, is about the cart as it is.                                *)
(*   The session.  ServerInv is what the tabs may rely on at the server,   *)
(*   TabsInv what each store and its questions have to do with the owners  *)
(*   of their tokens, BrowserInv what the tabs share.                      *)
(*                                                                         *)
(* At the end: each of the three, composed with the others, is itself.     *)
(***************************************************************************)
EXTENDS MCWebClient, FiniteSetTheorems, SequenceTheorems, TLAPS

----------------------------------------------------------------------------
\* The server's sessions, by themselves.

\* What the steps of one sign-in hand to each other.
SlotInv ==
    \A s \in Slots :
        /\ signIn[s].pc = "exchange" => signIn[s].flow \in Flows
        /\ signIn[s].pc \in {"select", "write"} => signIn[s].account \in Accounts

SignIn ==
    [pc: {"free", "exchange", "select", "write", "done", "failed"},
     client: Clients \union {Nobody}, account: Accounts \union {Nobody},
     flow: Flows \union {NoFlow}, seen: BOOLEAN, token: 0..MaxToken]

\* The callbacks that are about to exchange the code of a flow.
Exchanging(f) == {s \in Slots : signIn[s].pc = "exchange" /\ signIn[s].flow = f}

\* A flow that is still in the map is in nobody's hands; one that is in
\* somebody's hands is in one handler's, and has not been exchanged.
FlowInv ==
    \A f \in Flows :
        /\ exchanged[f] \in {0, 1}
        /\ flow[f] # "gone" => exchanged[f] = 0
        /\ \A s \in Exchanging(f) : flow[f] = "gone" /\ exchanged[f] = 0
        /\ \A s, t \in Exchanging(f) : s = t

----------------------------------------------------------------------------
\* The types of the initial state (portal-accounts.ts, the table users).
LEMMA TypesInit == AuthInit => AuthTypes /\ SlotInv
  BY AuthAssumption DEF AuthInit, AuthTypes, SlotInv, IdleSignIn

\* A token is issued only within the bound, and the row it is written to is
\* one of an account (auth.ts: issueSessionForPortalUser).
LEMMA TypesWrite ==
    ASSUME AuthTypes, SlotInv, NEW s \in Slots, WriteSession(s)
    PROVE  AuthTypes' /\ SlotInv'
<1> DEFINE fresh == Cardinality(Issued) + 1
<1>1. fresh \in Nat \ {0}
  <2>1. IsFiniteSet(Tokens)
    BY FS_Interval, AuthAssumption DEF Tokens
  <2>2. IsFiniteSet(Issued)
    BY <2>1, FS_Subset DEF Issued
  <2> QED  BY <2>2, FS_CardinalityType
<1>2. signIn \in [Slots -> SignIn] /\ signIn[s].account \in Accounts
  BY DEF AuthTypes, SignIn, SlotInv, WriteSession
<1> HIDE DEF fresh
<1>3. CASE /\ fresh <= MaxToken
           /\ known' = known \union {signIn[s].account}
           /\ session' = [session EXCEPT ![signIn[s].account] = fresh]
           /\ expired' = expired \ {signIn[s].account}
           /\ owner' = [owner EXCEPT ![fresh] = signIn[s].account]
           /\ signIn' = [signIn EXCEPT ![s].pc = "done", ![s].token = fresh]
           /\ UNCHANGED <<flow, exchanged>>
  <2> DEFINE r == [signIn[s] EXCEPT !.pc = "done", !.token = fresh]
  <2>0. r \in SignIn /\ r.pc = "done" /\ signIn' = [signIn EXCEPT ![s] = r]
    <3>1. fresh \in 0..MaxToken
      BY <1>1, <1>3, AuthAssumption
    <3>2. signIn[s] \in SignIn
      BY <1>2
    <3> QED  BY <3>1, <3>2, <1>2, <1>3 DEF SignIn
  <2> HIDE DEF r
  <2>1. signIn' \in [Slots -> SignIn] /\ SlotInv'
    BY <1>2, <2>0 DEF SlotInv
  <2>2. session' \in [Accounts -> 0..MaxToken] /\ owner' \in [Tokens -> Accounts \union {Nobody}]
    BY <1>1, <1>2, <1>3, AuthAssumption DEF AuthTypes, Tokens
  <2>3. known' \subseteq Accounts /\ expired' \subseteq known'
    BY <1>2, <1>3 DEF AuthTypes
  <2> QED  BY <2>1, <2>2, <2>3, <1>3 DEF AuthTypes, SignIn
<1>4. CASE /\ signIn' = [signIn EXCEPT ![s].pc = "failed"]
           /\ UNCHANGED <<known, session, expired, owner, flow, exchanged>>
  <2>1. signIn' \in [Slots -> SignIn] /\ SlotInv'
    BY <1>2, <1>4 DEF SlotInv, SignIn
  <2> QED  BY <2>1, <1>4 DEF AuthTypes, SignIn
<1> QED  BY <1>3, <1>4 DEF WriteSession, fresh

\* The other steps of a sign-in: each hands on what the next one needs.
LEMMA TypesSlot ==
    ASSUME AuthTypes, SlotInv, NEW s \in Slots,
           \/ \E c \in Clients, a \in Accounts \union {Nobody} : LoginRequest(s, c, a)
           \/ \E c \in Clients, f \in Flows : CallbackRequest(s, c, f)
           \/ Exchange(s) \/ SelectUser(s)
    PROVE  AuthTypes' /\ SlotInv'
<1>1. signIn \in [Slots -> SignIn]
  BY DEF AuthTypes, SignIn
<1>2. CASE \E c \in Clients, a \in Accounts \union {Nobody} : LoginRequest(s, c, a)
  <2>1. PICK c \in Clients, a \in Accounts \union {Nobody} : LoginRequest(s, c, a)
    BY <1>2
  <2>2. PICK p \in {"failed", "select"} : /\ p = "select" => a \in Accounts
                                         /\ signIn' = [signIn EXCEPT ![s] = [IdleSignIn EXCEPT !.pc = p, !.client = c, !.account = a]]
    <3>1. CASE a = Nobody
      BY <2>1, <3>1 DEF LoginRequest
    <3>2. CASE a # Nobody
      BY <2>1, <3>2 DEF LoginRequest
    <3> QED  BY <3>1, <3>2
  <2> DEFINE r == [IdleSignIn EXCEPT !.pc = p, !.client = c, !.account = a]
  <2>3. r \in SignIn /\ r.pc = p /\ r.account = a
    <3>1. IdleSignIn \in SignIn
      BY AuthAssumption DEF IdleSignIn, SignIn
    <3> QED  BY <2>2, <3>1 DEF SignIn
  <2> HIDE DEF r
  <2>4. signIn' = [signIn EXCEPT ![s] = r]
    BY <2>2 DEF r
  <2>5. signIn' \in [Slots -> SignIn] /\ SlotInv'
    BY <1>1, <2>2, <2>3, <2>4 DEF SlotInv
  <2> QED  BY <2>1, <2>5 DEF AuthTypes, SignIn, LoginRequest
<1>3. CASE \E c \in Clients, f \in Flows : CallbackRequest(s, c, f)
  <2>1. PICK c \in Clients, f \in Flows : CallbackRequest(s, c, f)
    BY <1>3
  <2>2. PICK p \in {"failed", "exchange"} :
            signIn' = [signIn EXCEPT ![s] = [IdleSignIn EXCEPT !.pc = p, !.client = c, !.flow = f]]
    BY <2>1 DEF CallbackRequest
  <2> DEFINE r == [IdleSignIn EXCEPT !.pc = p, !.client = c, !.flow = f]
  <2>3. r \in SignIn /\ r.pc = p /\ r.flow = f
    <3>1. IdleSignIn \in SignIn
      BY AuthAssumption DEF IdleSignIn, SignIn
    <3> QED  BY <2>2, <3>1 DEF SignIn
  <2> HIDE DEF r
  <2>4. signIn' = [signIn EXCEPT ![s] = r]
    BY <2>2 DEF r
  <2>5. signIn' \in [Slots -> SignIn] /\ SlotInv'
    BY <1>1, <2>2, <2>3, <2>4 DEF SlotInv
  <2>6. flow' \in [Flows -> {"unused", "pending", "gone"}]
    BY <2>1 DEF AuthTypes, CallbackRequest
  <2> QED  BY <2>1, <2>5, <2>6 DEF AuthTypes, SignIn, CallbackRequest
<1>4. CASE Exchange(s)
  <2>1. signIn[s].flow \in Flows /\ FlowAccount[signIn[s].flow] \in Accounts
    BY <1>4, AuthAssumption DEF Exchange, SlotInv
  <2>2. signIn' \in [Slots -> SignIn] /\ SlotInv'
    BY <1>1, <1>4, <2>1 DEF Exchange, SignIn, SlotInv
  <2>3. exchanged' \in [Flows -> Nat]
    BY <1>4, <2>1 DEF Exchange, AuthTypes
  <2> QED  BY <1>4, <2>2, <2>3 DEF AuthTypes, SignIn, Exchange
<1>5. CASE SelectUser(s)
  <2>3. PICK b \in BOOLEAN : signIn' = [signIn EXCEPT ![s].pc = "write", ![s].seen = b]
    <3> DEFINE q == signIn[s].account \in known
    <3>1. q \in BOOLEAN
      OBVIOUS
    <3>2. signIn' = [signIn EXCEPT ![s].pc = "write", ![s].seen = q]
      BY <1>5, Zenon DEF SelectUser
    <3> HIDE DEF q
    <3> QED  BY <3>1, <3>2
  <2> DEFINE r == [signIn[s] EXCEPT !.pc = "write", !.seen = b]
  <2>0. signIn[s] \in SignIn /\ signIn[s].account \in Accounts
    BY <1>1, <1>5 DEF SelectUser, SlotInv
  <2>2. /\ r \in SignIn /\ r.pc = "write" /\ r.account = signIn[s].account
        /\ signIn' = [signIn EXCEPT ![s] = r]
    BY <1>1, <2>0, <2>3 DEF SignIn
  <2> HIDE DEF r
  <2>1. signIn' \in [Slots -> SignIn] /\ SlotInv'
    BY <1>1, <2>0, <2>2 DEF SlotInv
  <2> QED  BY <1>5, <2>1 DEF AuthTypes, SignIn, SelectUser
<1> QED  BY <1>2, <1>3, <1>4, <1>5

\* The steps that leave the requests alone.
LEMMA TypesRest ==
    ASSUME AuthTypes, SlotInv,
           \/ \E f \in Flows : StartFlow(f) \/ FlowTimesOut(f)
           \/ \E t \in Tokens : LogoutToken(t)
           \/ \E a \in Accounts : RevokeSession(a) \/ ExpireSession(a)
           \/ ServerRestart
    PROVE  AuthTypes' /\ SlotInv'
<1>1. CASE \E f \in Flows : StartFlow(f) \/ FlowTimesOut(f)
  BY <1>1 DEF AuthTypes, SlotInv, StartFlow, FlowTimesOut
<1>2. CASE \E t \in Tokens : LogoutToken(t)
  BY <1>2, AuthAssumption DEF AuthTypes, SlotInv, LogoutToken
<1>3. CASE \E a \in Accounts : RevokeSession(a) \/ ExpireSession(a)
  BY <1>3, AuthAssumption DEF AuthTypes, SlotInv, RevokeSession, ExpireSession
<1>4. CASE ServerRestart
  <2>1. signIn' \in [Slots -> SignIn] /\ SlotInv'
    BY <1>4 DEF AuthTypes, SignIn, SlotInv, ServerRestart
  <2>2. flow' \in [Flows -> {"unused", "pending", "gone"}]
    BY <1>4 DEF AuthTypes, ServerRestart
  <2> QED  BY <1>4, <2>1, <2>2 DEF AuthTypes, SignIn, ServerRestart
<1> QED  BY <1>1, <1>2, <1>3, <1>4

\* Every step of the routes, of the timers and of the faults keeps the types.
LEMMA TypesStep == AuthTypes /\ SlotInv /\ [AuthNext]_authVars => AuthTypes' /\ SlotInv'
<1> SUFFICES ASSUME AuthTypes, SlotInv, [AuthNext]_authVars PROVE AuthTypes' /\ SlotInv'
  OBVIOUS
<1>1. CASE UNCHANGED authVars
  BY <1>1 DEF AuthTypes, SlotInv, authVars
<1> QED  BY <1>1, TypesSlot, TypesWrite, TypesRest DEF AuthNext, AuthServerStep

\* The sessions table and the requests being served have their types, for any
\* number of accounts, browsers, flows and slots.
THEOREM SessionsAreTyped == AuthSpec => []AuthTypes
<1>1. AuthInit => AuthTypes /\ SlotInv
  BY TypesInit
<1>2. AuthTypes /\ SlotInv /\ [AuthNext]_authVars => AuthTypes' /\ SlotInv'
  BY TypesStep
<1> QED  BY <1>1, <1>2, PTL DEF AuthSpec

----------------------------------------------------------------------------
\* No flow has been started.
LEMMA FlowInit == AuthInit => FlowInv
  BY DEF AuthInit, FlowInv, Exchanging, IdleSignIn

\* A callback takes the flow out of the map before it awaits the exchange
\* (auth.ts: GET /auth/callback): it is the only one that holds it.
LEMMA FlowCallback ==
    ASSUME AuthTypes, FlowInv, NEW s \in Slots, NEW c, NEW f \in Flows, CallbackRequest(s, c, f)
    PROVE  FlowInv'
<1>1. signIn \in [Slots -> SignIn] /\ flow \in [Flows -> {"unused", "pending", "gone"}]
  BY DEF AuthTypes, SignIn
<1>2. CASE flow[f] = "pending"
  <2>1. Exchanging(f) = {} /\ exchanged[f] = 0 /\ s \notin Exchanging(f)
    BY <1>2 DEF FlowInv
  <2>2. /\ signIn'[s].pc = "exchange" /\ signIn'[s].flow = f
        /\ \A t \in Slots \ {s} : signIn'[t] = signIn[t]
        /\ signIn[s].pc = "free"
    BY <1>1, <1>2 DEF CallbackRequest, IdleSignIn
  <2>3. Exchanging(f)' = {s}
    BY <2>1, <2>2 DEF Exchanging
  <2>4. \A g \in Flows \ {f} : Exchanging(g)' = Exchanging(g) /\ flow'[g] = flow[g]
    BY <1>1, <2>2 DEF Exchanging, CallbackRequest
  <2>5. flow'[f] = "gone" /\ exchanged' = exchanged
    BY <1>1, <1>2 DEF CallbackRequest
  <2> QED  BY <2>1, <2>3, <2>4, <2>5 DEF FlowInv
<1>3. CASE flow[f] # "pending"
  <2>1. flow' = flow /\ exchanged' = exchanged
    BY <1>1, <1>3 DEF CallbackRequest
  <2>2. /\ signIn'[s].pc = "failed" /\ signIn[s].pc = "free"
        /\ \A t \in Slots \ {s} : signIn'[t] = signIn[t]
    BY <1>1, <1>3 DEF CallbackRequest, IdleSignIn
  <2>3. \A g \in Flows : Exchanging(g)' = Exchanging(g)
    BY <2>2 DEF Exchanging
  <2> QED  BY <2>1, <2>3 DEF FlowInv
<1> QED  BY <1>2, <1>3

\* The exchange uses the code up, with or without a token: the one handler
\* that held the flow lets it go.
LEMMA FlowExchange ==
    ASSUME AuthTypes, SlotInv, FlowInv, NEW s \in Slots, Exchange(s)
    PROVE  FlowInv'
<1>1. PICK f \in Flows : f = signIn[s].flow /\ s \in Exchanging(f)
  BY DEF Exchange, SlotInv, Exchanging
<1>2. flow[f] = "gone" /\ exchanged[f] = 0 /\ Exchanging(f) = {s}
  BY <1>1 DEF FlowInv
<1>3. signIn'[s].pc # "exchange" /\ \A t \in Slots \ {s} : signIn'[t] = signIn[t]
  BY DEF Exchange, AuthTypes
<1>4. Exchanging(f)' \subseteq {}
  BY <1>2, <1>3 DEF Exchanging
<1>5. \A g \in Flows : Exchanging(g)' \subseteq Exchanging(g)
  BY <1>3 DEF Exchanging
<1>6. flow' = flow /\ exchanged'[f] = 1 /\ \A g \in Flows \ {f} : exchanged'[g] = exchanged[g]
  BY <1>1, <1>2 DEF Exchange, AuthTypes
<1> QED  BY <1>1, <1>2, <1>4, <1>5, <1>6 DEF FlowInv

\* No other step puts a flow back into the map or starts an exchange.
LEMMA FlowRest ==
    ASSUME AuthTypes, FlowInv,
           \/ \E f \in Flows : StartFlow(f) \/ FlowTimesOut(f)
           \/ \E s \in Slots, c \in Clients, a \in Accounts \union {Nobody} : LoginRequest(s, c, a)
           \/ \E s \in Slots : SelectUser(s) \/ WriteSession(s)
           \/ ServerRestart
           \/ UNCHANGED <<flow, exchanged, signIn>>
    PROVE  FlowInv'
<1>1. CASE \E f \in Flows : StartFlow(f) \/ FlowTimesOut(f)
  <2>1. signIn' = signIn /\ exchanged' = exchanged
    BY <1>1 DEF StartFlow, FlowTimesOut
  <2>2. \A g \in Flows : flow[g] = "gone" => flow'[g] = "gone"
    BY <1>1 DEF StartFlow, FlowTimesOut, AuthTypes
  <2>3. \A g \in Flows : flow'[g] # "gone" => flow[g] # "gone"
    BY <2>2
  <2> QED  BY <2>1, <2>2, <2>3 DEF FlowInv, Exchanging
<1>2. CASE UNCHANGED <<flow, exchanged, signIn>>
  BY <1>2 DEF FlowInv, Exchanging
<1>3. CASE ServerRestart
  <2>1. exchanged' = exchanged /\ \A g \in Flows : flow[g] = "gone" => flow'[g] = "gone"
    BY <1>3 DEF ServerRestart
  <2>2. \A g \in Flows : Exchanging(g)' \subseteq Exchanging(g)
    BY <1>3 DEF ServerRestart, Exchanging, AuthTypes
  <2>3. \A g \in Flows : flow'[g] # "gone" => flow[g] # "gone"
    BY <2>1
  <2> QED  BY <2>1, <2>2, <2>3 DEF FlowInv
<1>4. CASE \/ \E s \in Slots, c \in Clients, a \in Accounts \union {Nobody} : LoginRequest(s, c, a)
           \/ \E s \in Slots : SelectUser(s) \/ WriteSession(s)
  <2>1. PICK s \in Slots : \/ \E c \in Clients, a \in Accounts \union {Nobody} : LoginRequest(s, c, a)
                           \/ SelectUser(s) \/ WriteSession(s)
    BY <1>4
  <2>2. signIn'[s].pc # "exchange" /\ \A t \in Slots \ {s} : signIn'[t] = signIn[t]
    <3>0. signIn \in [Slots -> SignIn]
      BY DEF AuthTypes, SignIn
    <3>1. CASE \E c \in Clients, a \in Accounts \union {Nobody} : LoginRequest(s, c, a)
      BY <3>0, <3>1 DEF LoginRequest, IdleSignIn
    <3>2. CASE SelectUser(s)
      BY <3>0, <3>2 DEF SelectUser, SignIn
    <3>3. CASE WriteSession(s)
      BY <3>0, <3>3 DEF WriteSession, SignIn
    <3> QED  BY <2>1, <3>1, <3>2, <3>3
  <2>3. flow' = flow /\ exchanged' = exchanged
    BY <2>1 DEF LoginRequest, SelectUser, WriteSession
  <2>4. \A g \in Flows : Exchanging(g)' \subseteq Exchanging(g)
    BY <2>2 DEF Exchanging
  <2> QED  BY <2>3, <2>4 DEF FlowInv
<1> QED  BY <1>1, <1>2, <1>3, <1>4

\* Every step keeps a flow in at most one handler's hands.
LEMMA FlowStep == AuthTypes /\ SlotInv /\ FlowInv /\ [AuthNext]_authVars => FlowInv'
<1> SUFFICES ASSUME AuthTypes, SlotInv, FlowInv, [AuthNext]_authVars PROVE FlowInv'
  OBVIOUS
<1>1. CASE UNCHANGED authVars
  BY <1>1, FlowRest DEF authVars
<1>2. CASE \E t \in Tokens : LogoutToken(t)
  BY <1>2, FlowRest DEF LogoutToken
<1>3. CASE \E a \in Accounts : RevokeSession(a) \/ ExpireSession(a)
  BY <1>3, FlowRest DEF RevokeSession, ExpireSession
<1> QED  BY <1>1, <1>2, <1>3, FlowCallback, FlowExchange, FlowRest DEF AuthNext, AuthServerStep

\* What the invariant says of the counts: none exchanging and at most one
\* exchange made, or one exchanging and none made.
LEMMA FlowInvGivesOnce == ASSUME FlowInv PROVE FlowExchangedOnce
<1> SUFFICES ASSUME NEW f \in Flows
             PROVE  exchanged[f] + Cardinality(Exchanging(f)) <= 1
  BY DEF FlowExchangedOnce, Exchanging
<1>1. CASE Exchanging(f) = {}
  BY <1>1, FS_EmptySet DEF FlowInv
<1>2. CASE Exchanging(f) # {}
  <2>1. PICK s : Exchanging(f) = {s}
    BY <1>2 DEF FlowInv
  <2>2. exchanged[f] = 0
    BY <2>1 DEF FlowInv
  <2> QED  BY <2>1, <2>2, FS_Singleton
<1> QED  BY <1>1, <1>2

\* The code of a PKCE flow goes to Swiggy at most once (GET /auth/callback),
\* whatever browsers repeat the callback, timers fire and restarts happen.
THEOREM ExchangedOnce == AuthSpec => []FlowExchangedOnce
<1>1. AuthInit => AuthTypes /\ SlotInv /\ FlowInv
  BY TypesInit, FlowInit
<1>2. AuthTypes /\ SlotInv /\ FlowInv /\ [AuthNext]_authVars => AuthTypes' /\ SlotInv' /\ FlowInv'
  BY TypesStep, FlowStep
<1>3. FlowInv => FlowExchangedOnce
  BY FlowInvGivesOnce
<1> QED  BY <1>1, <1>2, <1>3, PTL DEF AuthSpec

----------------------------------------------------------------------------
\* The pages.

\* What is left of a list of requests once one of them is answered.
LEMMA RemovedAt ==
    ASSUME NEW S, NEW q \in Seq(S), NEW i \in 1..Len(q)
    PROVE  /\ RemoveAt(q, i) \in Seq(S)
           /\ Len(RemoveAt(q, i)) = Len(q) - 1
           /\ \A k \in 1..(Len(q) - 1) : RemoveAt(q, i)[k] = IF k < i THEN q[k] ELSE q[k + 1]
<1> DEFINE a == SubSeq(q, 1, i - 1)
           b == SubSeq(q, i + 1, Len(q))
<1>1. /\ a \in Seq(S) /\ Len(a) = i - 1
      /\ \A k \in 1..(i - 1) : a[k] = q[k]
  BY SubSeqProperties
<1>2. /\ b \in Seq(S) /\ Len(b) = Len(q) - i
      /\ \A k \in 1..(Len(q) - i) : b[k] = q[i + k]
  BY SubSeqProperties
<1>3. RemoveAt(q, i) = a \o b
  BY DEF RemoveAt
<1> HIDE DEF a, b
<1>4. /\ a \o b \in Seq(S)
      /\ Len(a \o b) = Len(a) + Len(b)
      /\ \A k \in 1..(Len(a) + Len(b)) :
            (a \o b)[k] = IF k <= Len(a) THEN a[k] ELSE b[k - Len(a)]
  BY <1>1, <1>2, ConcatProperties, Zenon
<1>5. Len(a) + Len(b) = Len(q) - 1
  BY <1>1, <1>2
<1>6. ASSUME NEW k \in 1..(Len(q) - 1)
      PROVE  (a \o b)[k] = IF k < i THEN q[k] ELSE q[k + 1]
  <2>1. CASE k < i
    BY <2>1, <1>1, <1>4, <1>5
  <2>2. CASE ~(k < i)
    <3>1. (a \o b)[k] = b[k - Len(a)]
      BY <2>2, <1>1, <1>4, <1>5
    <3>2. k - Len(a) \in 1..(Len(q) - i) /\ i + (k - Len(a)) = k + 1
      BY <2>2, <1>1
    <3> QED
      BY <2>2, <3>1, <3>2, <1>2
  <2> QED
    BY <2>1, <2>2
<1>7. /\ a \o b \in Seq(S)
      /\ Len(a \o b) = Len(q) - 1
  BY <1>4, <1>5
<1> QED
  BY <1>3, <1>6, <1>7, Zenon

-----------------------------------------------------------------------------
(* The rider's console: types.                                             *)

\* A request names its job, and a detail shown is of it.
Named(c) ==
    /\ c.kind \in {"detail", "claim", "release", "status"} => c.job \in Jobs
    /\ c.kind # "refresh" => c.then = "nothing"
    /\ c.kind = "detail" /\ c.pc = "done" => c.shown.job = c.job
Known(q) == q \in Seq(Call) /\ \A i \in DOMAIN q : Named(q[i])
ConsoleKnown == ConsoleTypes /\ Known(calls)

\* The requests the page makes.
LEMMA CallShapes ==
    /\ NewCall \in Call /\ NewCall.pc = "sent" /\ NewCall.then = "nothing"
    /\ \A then \in Jobs \union {"nothing", "idle", "clear"} :
          /\ RefreshCall(then) \in Call /\ Named(RefreshCall(then))
          /\ RefreshCall(then).kind = "refresh" /\ RefreshCall(then).pc = "sent"
          /\ RefreshCall(then).left = Parts /\ RefreshCall(then).then = then
    /\ \A j \in Jobs :
          /\ GetDetail(j) \in Call /\ Named(GetDetail(j))
          /\ GetDetail(j).kind = "detail" /\ GetDetail(j).pc = "sent"
          /\ GetDetail(j).job = j /\ GetDetail(j).then = "nothing"
  BY DEF NewCall, Call, RefreshCall, GetDetail, Named, Parts, Stage, Unread, NoDetail

\* The request that turns the rider's presence.
LEMMA PresenceShape ==
    ASSUME online \in BOOLEAN,
           NEW c, c = [NewCall EXCEPT !.kind = "presence", !.on = ~online]
    PROVE  c \in Call /\ Named(c) /\ c.pc = "sent" /\ c.kind = "presence"
<1>1. PICK on \in BOOLEAN : on = ~online
  OBVIOUS
<1>2. c = [NewCall EXCEPT !.kind = "presence", !.on = on]
  BY <1>1
<1>3. c \in Call /\ c.pc = "sent" /\ c.kind = "presence" /\ c.then = "nothing"
  BY <1>2, CallShapes DEF Call
<1> QED  BY <1>3 DEF Named

\* A request more.
LEMMA KnownAppend ==
    ASSUME NEW q, Known(q), NEW c \in Call, Named(c)
    PROVE  /\ Known(Append(q, c))
           /\ Len(Append(q, c)) = Len(q) + 1
           /\ \A i \in 1..Len(q) : Append(q, c)[i] = q[i]
           /\ Append(q, c)[Len(q) + 1] = c
<1>1. q \in Seq(Call) /\ DOMAIN q = 1..Len(q)
  BY DEF Known
<1>2. /\ Append(q, c) \in Seq(Call)
      /\ Len(Append(q, c)) = Len(q) + 1
      /\ \A i \in 1..Len(q) : Append(q, c)[i] = q[i]
      /\ Append(q, c)[Len(q) + 1] = c
  BY <1>1, AppendProperties
<1>3. \A i \in 1..(Len(q) + 1) : Named(Append(q, c)[i])
  BY <1>1, <1>2 DEF Known
<1> QED
  BY <1>2, <1>3 DEF Known

\* A request less, the one that is answered.
LEMMA KnownRemove ==
    ASSUME NEW q, Known(q), NEW i \in DOMAIN q
    PROVE  /\ Known(RemoveAt(q, i))
           /\ Len(RemoveAt(q, i)) = Len(q) - 1
           /\ \A k \in 1..(Len(q) - 1) : RemoveAt(q, i)[k] = IF k < i THEN q[k] ELSE q[k + 1]
<1>1. q \in Seq(Call) /\ i \in 1..Len(q)
  BY DEF Known
<1>2. /\ RemoveAt(q, i) \in Seq(Call)
      /\ Len(RemoveAt(q, i)) = Len(q) - 1
      /\ \A k \in 1..(Len(q) - 1) : RemoveAt(q, i)[k] = IF k < i THEN q[k] ELSE q[k + 1]
  BY <1>1, RemovedAt
<1>3. \A k \in 1..(Len(q) - 1) : Named(RemoveAt(q, i)[k])
  BY <1>1, <1>2 DEF Known
<1> QED
  BY <1>2, <1>3 DEF Known

\* A request changed, by what the server does with it.
LEMMA KnownUpdate ==
    ASSUME NEW q, Known(q), NEW i \in DOMAIN q, NEW c \in Call, Named(c)
    PROVE  /\ Known([q EXCEPT ![i] = c])
           /\ Len([q EXCEPT ![i] = c]) = Len(q)
           /\ \A k \in DOMAIN q : [q EXCEPT ![i] = c][k] = IF k = i THEN c ELSE q[k]
<1>1. q \in Seq(Call) /\ DOMAIN q = 1..Len(q)
  BY DEF Known
<1>2. /\ [q EXCEPT ![i] = c] \in Seq(Call)
      /\ Len([q EXCEPT ![i] = c]) = Len(q)
      /\ \A k \in DOMAIN q : [q EXCEPT ![i] = c][k] = IF k = i THEN c ELSE q[k]
  BY <1>1, ExceptSeq
<1> QED
  BY <1>1, <1>2 DEF Known

\* Selecting a job, or none, and asking for its detail.
LEMMA Selected ==
    ASSUME ConsoleKnown, NEW j \in Jobs \union {NoJob}, NEW q, Known(q), Select(j, q)
    PROVE  /\ selected' \in Jobs \union {NoJob}
           /\ detail' \in [job: Jobs \union {NoJob}, stage: Stage, assignedToMe: BOOLEAN]
           /\ Known(calls')
<1>1. NoDetail \in [job: Jobs \union {NoJob}, stage: Stage, assignedToMe: BOOLEAN]
  BY DEF NoDetail, Stage
<1>2. j # NoJob => Known(Append(q, GetDetail(j)))
  BY CallShapes, KnownAppend
<1> QED
  BY <1>1, <1>2 DEF Select, ConsoleKnown, ConsoleTypes

\* Whatever is selected by itself is a job of the lists, or was selected.
LEMMA Choice ==
    \A t : \A mine \in SUBSET Jobs, current \in Jobs \union {NoJob} :
        /\ \A j \in Preferred(mine, current) : j \in Jobs \union {NoJob}
        /\ \A j \in Nearer(mine, current) : j \in Jobs \union {NoJob}
        /\ \A j \in OnTab(t, mine, current) : j \in Jobs \union {NoJob}
<1> SUFFICES ASSUME NEW t, NEW mine \in SUBSET Jobs, NEW current \in Jobs \union {NoJob}
             PROVE  /\ \A j \in Preferred(mine, current) : j \in Jobs \union {NoJob}
                    /\ \A j \in Nearer(mine, current) : j \in Jobs \union {NoJob}
                    /\ \A j \in OnTab(t, mine, current) : j \in Jobs \union {NoJob}
  OBVIOUS
<1>1. \A j \in Preferred(mine, current) : j \in Jobs \union {NoJob}
  BY DEF Preferred
<1>2. \A j \in Nearer(mine, current) : j \in Jobs \union {NoJob}
  BY DEF Nearer, Nearest
<1>3. \A j \in OnTab(t, mine, current) : j \in Jobs \union {NoJob}
  BY DEF Preferred, OnTab
<1> QED
  BY <1>1, <1>2, <1>3

\* What the rider does.
LEMMA RiderTyping ==
    ASSUME ConsoleKnown,
           \/ \E t \in {"active", "available", "history"} : ShowTab(t)
           \/ \E j \in Jobs : PickCard(j) \/ Claim(j)
           \/ \E s \in Stage : Advance(s)
           \/ TogglePresence \/ Release \/ ReloadLists \/ PollRefresh \/ GpsFix
    PROVE  ConsoleKnown'
<1>1. /\ Known(calls) /\ selected \in Jobs \union {NoJob}
      /\ lists \in [available: SUBSET Jobs, mine: SUBSET Jobs, history: SUBSET Jobs]
      /\ {duty, online} \subseteq BOOLEAN
      /\ busy \in Jobs \union {NoJob, "presence"}
  BY DEF ConsoleKnown, ConsoleTypes
<1>2. ASSUME NEW c \in Call, Named(c), NEW what \in Jobs \union {NoJob, "presence"}, Press(c, what)
      PROVE  ConsoleKnown'
  <2>1. Known(calls')
    BY <1>1, <1>2, KnownAppend DEF Press
  <2> QED
    BY <1>2, <2>1 DEF Press, ConsoleKnown, ConsoleTypes, Known
<1>3. ASSUME NEW t \in {"active", "available", "history"}, ShowTab(t)
      PROVE  ConsoleKnown'
  <2>1. PICK j \in OnTab(t, lists.mine, selected) : Select(j, calls)
    BY <1>3 DEF ShowTab
  <2>2. j \in Jobs \union {NoJob}
    BY <1>1, Choice
  <2>3. /\ selected' \in Jobs \union {NoJob}
        /\ detail' \in [job: Jobs \union {NoJob}, stage: Stage, assignedToMe: BOOLEAN]
        /\ Known(calls')
    BY <1>1, <2>1, <2>2, Selected
  <2> QED
    BY <1>3, <2>3 DEF ShowTab, ConsoleKnown, ConsoleTypes, Known
<1>4. ASSUME NEW j \in Jobs, PickCard(j)
      PROVE  ConsoleKnown'
  BY <1>1, <1>4, Selected DEF PickCard, ConsoleKnown, ConsoleTypes, Known
<1>5. ASSUME NEW j \in Jobs, Claim(j)
      PROVE  ConsoleKnown'
  <2> DEFINE c == [NewCall EXCEPT !.kind = "claim", !.job = j]
  <2>1. c \in Call /\ Named(c)
    BY CallShapes DEF Call, Named
  <2> HIDE DEF c
  <2>2. Press(c, j)
    BY <1>5 DEF Claim, c
  <2> QED
    BY <1>2, <2>1, <2>2
<1>6. ASSUME NEW s \in Stage, Advance(s)
      PROVE  ConsoleKnown'
  <2> DEFINE c == [NewCall EXCEPT !.kind = "status", !.job = selected, !.stage = s]
  <2>1. c \in Call /\ Named(c)
    BY <1>1, <1>6, CallShapes DEF Call, Named, Advance, Controls
  <2> HIDE DEF c
  <2>2. Press(c, selected)
    BY <1>6 DEF Advance, c
  <2> QED
    BY <1>1, <1>2, <2>1, <2>2
<1>7. ASSUME TogglePresence
      PROVE  ConsoleKnown'
  <2> DEFINE c == [NewCall EXCEPT !.kind = "presence", !.on = ~online]
  <2>1. c \in Call /\ Named(c)
    BY PresenceShape DEF ConsoleKnown, ConsoleTypes
  <2> HIDE DEF c
  <2>2. Press(c, "presence")
    BY <1>7 DEF TogglePresence, c
  <2> QED
    BY <1>2, <2>1, <2>2
<1>8. ASSUME Release
      PROVE  ConsoleKnown'
  <2> DEFINE c == [NewCall EXCEPT !.kind = "release", !.job = selected]
  <2>1. c \in Call /\ Named(c)
    BY <1>1, <1>8, CallShapes DEF Call, Named, Release, Controls
  <2> HIDE DEF c
  <2>2. Press(c, selected)
    BY <1>8 DEF Release, c
  <2> QED
    BY <1>1, <1>2, <2>1, <2>2
<1>9. ASSUME ReloadLists
      PROVE  ConsoleKnown'
  BY <1>1, <1>2, <1>9, CallShapes DEF ReloadLists
<1>10. ASSUME PollRefresh
       PROVE  ConsoleKnown'
  <2>1. Known(calls')
    BY <1>1, <1>10, CallShapes, KnownAppend DEF PollRefresh
  <2> QED
    BY <1>10, <2>1 DEF PollRefresh, ConsoleKnown, ConsoleTypes, Known
<1>11. ASSUME GpsFix
       PROVE  ConsoleKnown'
  <2> DEFINE c == [NewCall EXCEPT !.kind = "ping"]
  <2>1. PICK j \in Nearer(lists.mine, selected) : Select(j, calls) \/ Select(j, Append(calls, c))
    BY <1>11 DEF GpsFix
  <2>2. j \in Jobs \union {NoJob}
    BY <1>1, Choice
  <2>3. c \in Call /\ Named(c)
    BY CallShapes DEF Call, Named
  <2> HIDE DEF c
  <2>4. Known(Append(calls, c))
    BY <1>1, <2>3, KnownAppend
  <2>5. /\ selected' \in Jobs \union {NoJob}
        /\ detail' \in [job: Jobs \union {NoJob}, stage: Stage, assignedToMe: BOOLEAN]
        /\ Known(calls')
    BY <1>1, <2>1, <2>2, <2>4, Selected
  <2> QED
    BY <1>11, <2>5 DEF GpsFix, ConsoleKnown, ConsoleTypes, Known
<1> QED
  BY <1>3, <1>4, <1>5, <1>6, <1>7, <1>8, <1>9, <1>10, <1>11

\* What was shown and read at the server fits the page.
LEMMA ServedTyping ==
    ASSUME ConsoleKnown, NEW i \in DOMAIN calls,
           ReadServed(i) \/ WriteServed(i) \/ Unreached(i)
    PROVE  ConsoleKnown'
<1>1. /\ Known(calls) /\ calls[i] \in Call /\ Named(calls[i])
      /\ job \in [Jobs -> [holder: Holder, stage: Stage]]
      /\ {duty, online} \subseteq BOOLEAN
      /\ calls \in Seq(Call)
  BY DEF ConsoleKnown, ConsoleTypes, Known
<1>2. ASSUME NEW c \in Call, Named(c), calls' = [calls EXCEPT ![i] = c],
             job' \in [Jobs -> [holder: Holder, stage: Stage]], duty' \in BOOLEAN,
             UNCHANGED <<tab, lists, selected, detail, online, busy, consoleMode>>
      PROVE  ConsoleKnown'
  <2>1. Known(calls')
    BY <1>1, <1>2, KnownUpdate
  <2> QED
    BY <1>2, <2>1 DEF ConsoleKnown, ConsoleTypes, Known
<1>3. ASSUME NEW p \in {"done", "refused"}, p = "refused" \/ calls[i].kind # "detail"
      PROVE  /\ [calls[i] EXCEPT !.pc = p] \in Call
             /\ Named([calls[i] EXCEPT !.pc = p])
             /\ [calls EXCEPT ![i].pc = p] = [calls EXCEPT ![i] = [calls[i] EXCEPT !.pc = p]]
  <2>1. [calls[i] EXCEPT !.pc = p] \in Call
    BY <1>1 DEF Call
  <2>2. Named([calls[i] EXCEPT !.pc = p])
    BY <1>1, <1>3 DEF Call, Named
  <2> QED
    BY <1>1, <2>1, <2>2
<1>4. ASSUME ReadServed(i), NEW part \in calls[i].left, calls[i].kind = "refresh",
             calls' = [calls EXCEPT ![i].left = @ \ {part}, ![i].read = Read(@, part),
                                    ![i].pc = IF calls[i].left = {part} THEN "done" ELSE "sent"]
      PROVE  ConsoleKnown'
  <2> DEFINE r == Read(calls[i].read, part)
             c == [calls[i] EXCEPT !.left = @ \ {part}, !.read = r,
                                   !.pc = IF calls[i].left = {part} THEN "done" ELSE "sent"]
  <2>1. r \in [duty: BOOLEAN, available: SUBSET Jobs, mine: SUBSET Jobs, history: SUBSET Jobs]
    BY <1>1 DEF Read, Call, Open, Mine, Over
  <2>2. calls' = [calls EXCEPT ![i] = [calls[i] EXCEPT !.left = @ \ {part}, !.read = Read(@, part),
                                   !.pc = IF calls[i].left = {part} THEN "done" ELSE "sent"]]
    BY <1>1, <1>4
  <2>3. calls' = [calls EXCEPT ![i] = c]
    BY <2>2, <1>1 DEF Call
  <2> HIDE DEF r
  <2>4. c \in Call /\ Named(c)
    BY <1>1, <1>4, <2>1 DEF Call, Named
  <2> HIDE DEF c
  <2> QED
    BY <1>1, <1>2, <1>4, <2>3, <2>4 DEF ReadServed
<1>5. ASSUME ReadServed(i), calls[i].kind = "detail",
             calls' = [calls EXCEPT ![i].pc = "done", ![i].shown =
                    [job |-> calls[i].job, stage |-> job[calls[i].job].stage,
                     assignedToMe |-> calls[i].job \in Mine]]
      PROVE  ConsoleKnown'
  <2> DEFINE d == [job |-> calls[i].job, stage |-> job[calls[i].job].stage,
                   assignedToMe |-> calls[i].job \in Mine]
             c == [calls[i] EXCEPT !.pc = "done", !.shown = d]
  <2>1. d \in [job: Jobs \union {NoJob}, stage: Stage, assignedToMe: BOOLEAN]
    BY <1>1, <1>5 DEF Named
  <2>4. d.job = calls[i].job
    OBVIOUS
  <2> HIDE DEF d
  <2>2. c \in Call /\ Named(c)
    <3>1. c \in Call
      BY <1>1, <2>1 DEF Call
    <3>2. Named(c)
      BY <1>1, <1>5, <2>4 DEF Call, Named
    <3> QED
      BY <3>1, <3>2
  <2>3. calls' = [calls EXCEPT ![i] = c]
    BY <1>1, <1>5 DEF d
  <2> HIDE DEF c
  <2> QED
    BY <1>1, <1>2, <1>5, <2>2, <2>3 DEF ReadServed
<1>6. ASSUME ReadServed(i), calls[i].kind = "ping", calls' = [calls EXCEPT ![i].pc = "done"]
      PROVE  ConsoleKnown'
  BY <1>1, <1>2, <1>3, <1>6 DEF ReadServed
<1>7. ASSUME WriteServed(i)
      PROVE  ConsoleKnown'
  <2>1. /\ job' \in [Jobs -> [holder: Holder, stage: Stage]]
        /\ duty' \in BOOLEAN
    <3>1. CASE /\ calls[i].kind = "presence"
               /\ duty' = calls[i].on /\ UNCHANGED job
      BY <3>1, <1>1 DEF Call
    <3>2. CASE /\ calls[i].kind = "claim"
               /\ job' = [job EXCEPT ![calls[i].job].holder = "me"]
               /\ duty' = (duty \/ calls[i].job \in Open)
      BY <3>2, <1>1 DEF Holder, Named
    <3>3. CASE /\ calls[i].kind = "release"
               /\ job' = [job EXCEPT ![calls[i].job].holder = "nobody"]
               /\ UNCHANGED duty
      BY <3>3, <1>1 DEF Holder, Named
    <3>4. CASE /\ calls[i].kind = "status"
               /\ job' = [job EXCEPT ![calls[i].job].stage = calls[i].stage]
               /\ UNCHANGED duty
      BY <3>4, <1>1 DEF Call, Named
    <3>5. CASE UNCHANGED <<job, duty>>
      BY <3>5, <1>1
    <3> QED
      BY <1>7, <3>1, <3>2, <3>3, <3>4, <3>5 DEF WriteServed
  <2>2. PICK p \in {"done", "refused"} : calls' = [calls EXCEPT ![i].pc = p]
    BY <1>7 DEF WriteServed
  <2>3. calls[i].kind # "detail"
    BY <1>7 DEF WriteServed
  <2> QED
    BY <1>2, <1>3, <1>7, <2>1, <2>2, <2>3 DEF WriteServed
<1>8. ASSUME Unreached(i)
      PROVE  ConsoleKnown'
  BY <1>1, <1>2, <1>3, <1>8 DEF Unreached
<1>9. CASE ReadServed(i)
  BY <1>4, <1>5, <1>6, <1>9 DEF ReadServed
<1> QED
  BY <1>7, <1>8, <1>9

\* Answers, with the effects they trigger.
LEMMA AnsweredTyping ==
    ASSUME ConsoleKnown, NEW i \in DOMAIN calls, Answered(i)
    PROVE  ConsoleKnown'
<1> DEFINE rest == RemoveAt(calls, i)
           details == [job: Jobs \union {NoJob}, stage: Stage, assignedToMe: BOOLEAN]
<1>1. /\ Known(calls) /\ calls[i] \in Call /\ Named(calls[i]) /\ Known(rest)
      /\ selected \in Jobs \union {NoJob}
      /\ lists \in [available: SUBSET Jobs, mine: SUBSET Jobs, history: SUBSET Jobs]
      /\ {duty, online} \subseteq BOOLEAN
      /\ busy \in Jobs \union {NoJob, "presence"}
      /\ detail \in details /\ NoDetail \in details
  BY KnownRemove DEF ConsoleKnown, ConsoleTypes, Known, NoDetail, Stage
<1>2. \A j \in Jobs : Known(Append(rest, GetDetail(j)))
  BY <1>1, CallShapes, KnownAppend
<1>3. \A then \in Jobs \union {"nothing", "idle", "clear"} : Known(Append(rest, RefreshCall(then)))
  BY <1>1, CallShapes, KnownAppend
<1>4. \A j \in Jobs \union {NoJob}, then \in Jobs :
         /\ Known(Append(Append(rest, GetDetail(then)), GetDetail(j))) \/ j = NoJob
         /\ Known(Append(rest, GetDetail(j))) \/ j = NoJob
  BY <1>2, CallShapes, KnownAppend
<1> HIDE DEF rest
<1>5. ASSUME Refreshed(i)
      PROVE  ConsoleKnown'
  <2> DEFINE c == calls[i]
             after == IF c.then \in Jobs THEN Append(rest, GetDetail(c.then)) ELSE rest
  <2>1. Known(after)
    BY <1>1, <1>2
  <2>2. PICK best \in Preferred(c.read.mine, selected) :
           \E near \in {best} \union Nearer(c.read.mine, best) :
              \E j \in OnTab(tab, c.read.mine, near) :
                 /\ selected' = j
                 /\ detail' = IF j = NoJob \/ c.then = "clear" THEN NoDetail ELSE detail
                 /\ calls' = IF j \in {selected, NoJob} THEN after ELSE Append(after, GetDetail(j))
    BY <1>5 DEF Refreshed, rest
  <2>3. c.read \in [duty: BOOLEAN, available: SUBSET Jobs, mine: SUBSET Jobs, history: SUBSET Jobs]
    BY <1>1 DEF Call
  <2>4. best \in Jobs \union {NoJob}
    BY <1>1, <2>2, <2>3, Choice
  <2>5. PICK near \in {best} \union Nearer(c.read.mine, best) :
           \E j \in OnTab(tab, c.read.mine, near) :
                 /\ selected' = j
                 /\ detail' = IF j = NoJob \/ c.then = "clear" THEN NoDetail ELSE detail
                 /\ calls' = IF j \in {selected, NoJob} THEN after ELSE Append(after, GetDetail(j))
    BY <2>2
  <2>6. near \in Jobs \union {NoJob}
    BY <2>3, <2>4, <2>5, Choice
  <2> HIDE DEF after
  <2>7. /\ selected' \in Jobs \union {NoJob}
        /\ detail' \in details
        /\ \/ calls' = after
           \/ selected' \in Jobs /\ calls' = Append(after, GetDetail(selected'))
    <3>1. \A j \in OnTab(tab, c.read.mine, near) : j \in Jobs \union {NoJob}
      BY <2>3, <2>6, Choice
    <3> QED
      BY <1>1, <2>5, <3>1
  <2>8. Known(calls')
    <3>1. CASE calls' = after
      BY <2>1, <3>1
    <3>2. CASE selected' \in Jobs /\ calls' = Append(after, GetDetail(selected'))
      <4>1. GetDetail(selected') \in Call /\ Named(GetDetail(selected'))
        BY <3>2, CallShapes
      <4> QED
        BY <2>1, <3>2, <4>1, KnownAppend
    <3> QED
      BY <2>7, <3>1, <3>2
  <2>9. lists' \in [available: SUBSET Jobs, mine: SUBSET Jobs, history: SUBSET Jobs]
    BY <1>5, <2>3 DEF Refreshed
  <2>10. online' \in BOOLEAN /\ busy' \in Jobs \union {NoJob, "presence"}
    BY <1>1, <1>5, <2>3 DEF Refreshed
  <2> QED
    BY <1>5, <2>7, <2>8, <2>9, <2>10 DEF Refreshed, ConsoleKnown, ConsoleTypes, Known
<1>6. ASSUME RefreshFailed(i)
      PROVE  ConsoleKnown'
  <2>1. Known(calls')
    BY <1>1, <1>2, <1>6 DEF RefreshFailed, rest
  <2> QED
    BY <1>1, <1>6, <2>1 DEF RefreshFailed, ConsoleKnown, ConsoleTypes, Known
<1>7. ASSUME DetailAnswered(i)
      PROVE  ConsoleKnown'
  <2>1. Known(calls') /\ detail' \in details
    BY <1>1, <1>7 DEF DetailAnswered, rest, Call
  <2> QED
    BY <1>7, <2>1 DEF DetailAnswered, ConsoleKnown, ConsoleTypes, Known
<1>8. ASSUME PingAnswered(i)
      PROVE  ConsoleKnown'
  <2>1. Known(calls')
    BY <1>1, <1>2, <1>8 DEF PingAnswered, rest
  <2> QED
    BY <1>8, <2>1 DEF PingAnswered, ConsoleKnown, ConsoleTypes, Known
<1>9. ASSUME PresenceAnswered(i)
      PROVE  ConsoleKnown'
  <2>1. Known(calls') /\ online' \in BOOLEAN
    BY <1>1, <1>3, <1>9 DEF PresenceAnswered, rest, Call
  <2> QED
    BY <1>9, <2>1 DEF PresenceAnswered, ConsoleKnown, ConsoleTypes, Known
<1>10. ASSUME ClaimAnswered(i)
       PROVE  ConsoleKnown'
  <2>1. PICK j \in OnTab("active", lists.mine, calls[i].job) :
           Select(j, Append(rest, RefreshCall("idle")))
    BY <1>10 DEF ClaimAnswered, rest
  <2>2. j \in Jobs \union {NoJob} /\ Known(Append(rest, RefreshCall("idle")))
    BY <1>1, <1>3, <1>10, Choice DEF ClaimAnswered, Named
  <2>3. /\ selected' \in Jobs \union {NoJob}
        /\ detail' \in details
        /\ Known(calls')
    BY <2>1, <2>2, Selected
  <2> QED
    BY <1>10, <2>3 DEF ClaimAnswered, ConsoleKnown, ConsoleTypes, Known
<1>11. ASSUME ReleaseAnswered(i)
       PROVE  ConsoleKnown'
  <2>1. Known(calls')
    BY <1>1, <1>3, <1>11 DEF ReleaseAnswered, rest
  <2> QED
    BY <1>11, <2>1 DEF ReleaseAnswered, ConsoleKnown, ConsoleTypes, Known
<1>12. ASSUME StatusAnswered(i)
       PROVE  ConsoleKnown'
  <2>1. Known(calls')
    BY <1>1, <1>3, <1>12 DEF StatusAnswered, rest, Named
  <2> QED
    BY <1>12, <2>1 DEF StatusAnswered, ConsoleKnown, ConsoleTypes, Known
<1>13. ASSUME CallFailed(i)
       PROVE  ConsoleKnown'
  <2>1. Known(calls')
    BY <1>1, <1>13 DEF CallFailed, rest
  <2> QED
    BY <1>1, <1>13, <2>1 DEF CallFailed, ConsoleKnown, ConsoleTypes, Known
<1> QED
  BY <1>5, <1>6, <1>7, <1>8, <1>9, <1>10, <1>11, <1>12, <1>13 DEF Answered

\* All steps of the console.
LEMMA ConsoleTyping ==
    ASSUME ConsoleKnown, [ConsoleNext]_consoleVars
    PROVE  ConsoleKnown'
<1>1. ASSUME NEW j \in Jobs, Interfere(j)
      PROVE  ConsoleKnown'
  BY <1>1 DEF Interfere, ConsoleKnown, ConsoleTypes, Known, Holder, Stage
<1>2. CASE UNCHANGED consoleVars
  BY <1>2 DEF consoleVars, ConsoleKnown, ConsoleTypes, Known
<1>3. CASE ConsoleNext
  <2>1. \A j \in consoleMode.pool : j \in Jobs
    BY ConsoleAssumption DEF ConsoleKnown, ConsoleTypes, ConsoleMode
  <2> QED
    BY <1>1, <1>3, <2>1, RiderTyping, ServedTyping, AnsweredTyping DEF ConsoleNext
<1> QED
  BY <1>2, <1>3

\* The console as it is mounted.
LEMMA ConsoleStarts ==
    ASSUME ConsoleInit
    PROVE  ConsoleKnown
<1>1. Known(calls)
  <2>1. calls = <<RefreshCall("nothing")>>
    BY DEF ConsoleInit
  <2> QED
    BY <2>1, CallShapes DEF Known
<1>2. job \in [Jobs -> [holder: Holder, stage: Stage]]
  BY DEF ConsoleInit, Holder, Stage
<1>3. \A i \in DOMAIN calls : calls[i] \in Call
  BY <1>1 DEF Known
<1>4. /\ detail \in [job: Jobs \union {NoJob}, stage: Stage, assignedToMe: BOOLEAN]
      /\ lists \in [available: SUBSET Jobs, mine: SUBSET Jobs, history: SUBSET Jobs]
  BY DEF ConsoleInit, NoDetail, Stage
<1>5. /\ {duty, online} \subseteq BOOLEAN /\ tab = "active"
      /\ selected = NoJob /\ busy = NoJob /\ consoleMode \in ConsoleModes
  BY DEF ConsoleInit
<1> QED
  BY <1>1, <1>2, <1>3, <1>4, <1>5 DEF ConsoleKnown, ConsoleTypes

\* The page's state is what its code takes it for: a job selected or none, a
\* detail, three lists, and requests each about a job where it needs one.
THEOREM ConsoleIsTyped == ConsoleSpec => []ConsoleTypes
<1>1. ConsoleInit => ConsoleKnown
  BY ConsoleStarts
<1>2. ConsoleKnown /\ [ConsoleNext]_consoleVars => ConsoleKnown'
  BY ConsoleTyping
<1>3. ConsoleKnown => ConsoleTypes
  BY DEF ConsoleKnown
<1> QED
  BY <1>1, <1>2, <1>3, PTL DEF ConsoleSpec

-----------------------------------------------------------------------------
(* The rider's console: a rider who waits for the answers.                 *)

\* A request that only reads and has not been served at all.
Reads == {"refresh", "detail", "ping"}
SentRead(c) == c.kind \in Reads /\ c.pc = "sent" /\ (c.kind = "refresh" => c.left = Parts)
AllSent(q) == \A i \in DOMAIN q : SentRead(q[i])

\* Only the request in front is served, and at most that one is a button's.
InOrder(q) ==
    /\ \A i \in DOMAIN q :
          /\ q[i].kind = "refresh" => (q[i].pc = "done" <=> q[i].left = {})
          /\ q[i].kind \in Reads \union {"presence"} => q[i].pc # "refused"
          /\ i > 1 => /\ SentRead(q[i])
                      /\ q[1].kind \notin Reads => q[i].then = "nothing"

\* A refresh has read what the server still has, and a presence shown that is
\* not the server's is followed by a refresh.
DutyTold ==
    /\ \A i \in DOMAIN calls :
          calls[i].kind = "refresh" /\ "stats" \notin calls[i].left => calls[i].read.duty = duty
    /\ \/ online = duty
       \/ \E i \in DOMAIN calls : calls[i].kind = "refresh"
       \/ /\ calls # <<>>
          /\ calls[1].pc = "done" /\ calls[1].kind \in {"presence", "claim"}

\* The inductive invariant of the console of a calm rider.
ConsoleInv == consoleMode.calm => InOrder(calls) /\ DutyTold

\* A read more behind the others, or any request as the only one.
LEMMA InOrderAppend ==
    ASSUME NEW q, Known(q), NEW c \in Call, Named(c)
    PROVE  /\ AllSent(q) /\ SentRead(c) => AllSent(Append(q, c))
           /\ InOrder(q) /\ SentRead(c) /\ c.then = "nothing" => InOrder(Append(q, c))
           /\ q = <<>> /\ c.pc = "sent" /\ (c.kind = "refresh" => c.left = Parts)
                 => InOrder(Append(q, c))
<1>1. /\ DOMAIN q = 1..Len(q) /\ DOMAIN Append(q, c) = 1..(Len(q) + 1)
      /\ Len(q) \in Nat
      /\ \A i \in 1..Len(q) : Append(q, c)[i] = q[i]
      /\ Append(q, c)[Len(q) + 1] = c
  BY KnownAppend DEF Known
<1>2. AllSent(q) /\ SentRead(c) => AllSent(Append(q, c))
  BY <1>1 DEF AllSent
<1>3. SentRead(c) /\ c.kind = "refresh" => c.pc # "done" /\ c.left # {}
  BY DEF SentRead, Parts
<1>4. ASSUME InOrder(q), SentRead(c), c.then = "nothing"
      PROVE  InOrder(Append(q, c))
  <2>1. ASSUME NEW i \in DOMAIN Append(q, c), i <= Len(q)
        PROVE  Append(q, c)[i] = q[i] /\ i \in DOMAIN q /\ Append(q, c)[1] = q[1]
    BY <1>1, <2>1
  <2>2. ASSUME NEW i \in DOMAIN Append(q, c), ~(i <= Len(q))
        PROVE  Append(q, c)[i] = c
    BY <1>1, <2>2
  <2> QED
    BY <1>3, <1>4, <2>1, <2>2 DEF InOrder, SentRead
<1>5. ASSUME q = <<>>, c.pc = "sent", c.kind = "refresh" => c.left = Parts
      PROVE  InOrder(Append(q, c))
  <2>1. \A i \in DOMAIN Append(q, c) : i = 1 /\ Append(q, c)[i] = c
    BY <1>1, <1>5
  <2> QED
    BY <1>5, <2>1 DEF InOrder, Parts
<1> QED
  BY <1>2, <1>4, <1>5

\* Reads that are all unserved are in order.
LEMMA SentInOrder ==
    ASSUME NEW q, AllSent(q)
    PROVE  /\ 1 \in DOMAIN q => InOrder(q)
           /\ q = <<>> => InOrder(q)
  BY DEF AllSent, InOrder, SentRead, Parts, Reads

\* Without the one in front, only unserved reads are left.
LEMMA InOrderRemove ==
    ASSUME NEW q, Known(q), InOrder(q), 1 \in DOMAIN q
    PROVE  /\ AllSent(RemoveAt(q, 1))
           /\ \A k \in DOMAIN q : k > 1 => /\ k - 1 \in DOMAIN RemoveAt(q, 1)
                                          /\ RemoveAt(q, 1)[k - 1] = q[k]
<1>1. /\ DOMAIN q = 1..Len(q) /\ Len(q) \in Nat
      /\ DOMAIN RemoveAt(q, 1) = 1..(Len(q) - 1)
      /\ \A k \in 1..(Len(q) - 1) : RemoveAt(q, 1)[k] = q[k + 1]
  <2>1. /\ Known(RemoveAt(q, 1))
        /\ Len(RemoveAt(q, 1)) = Len(q) - 1
        /\ \A k \in 1..(Len(q) - 1) : RemoveAt(q, 1)[k] = IF k < 1 THEN q[k] ELSE q[k + 1]
    BY KnownRemove
  <2> QED
    BY <2>1 DEF Known
<1>2. ASSUME NEW k \in DOMAIN RemoveAt(q, 1)
      PROVE  SentRead(RemoveAt(q, 1)[k])
  <2>1. k + 1 \in DOMAIN q /\ k + 1 > 1 /\ RemoveAt(q, 1)[k] = q[k + 1]
    BY <1>1
  <2> QED
    BY <2>1 DEF InOrder
<1> QED
  BY <1>1, <1>2 DEF AllSent

\* More requests behind those of a list.
Grown(q, more) ==
    /\ Known(more) /\ AllSent(more)
    /\ \A k \in DOMAIN q : k \in DOMAIN more /\ more[k] = q[k]

\* One unserved read more.
LEMMA GrownBy ==
    ASSUME NEW q, Known(q), AllSent(q), NEW c \in Call, Named(c), SentRead(c)
    PROVE  Grown(q, Append(q, c)) /\ \E m \in DOMAIN Append(q, c) : Append(q, c)[m] = c
<1>1. /\ Known(Append(q, c)) /\ DOMAIN q = 1..Len(q)
      /\ Len(q) \in Nat /\ DOMAIN Append(q, c) = 1..(Len(q) + 1)
      /\ \A i \in 1..Len(q) : Append(q, c)[i] = q[i]
      /\ Append(q, c)[Len(q) + 1] = c
  BY KnownAppend DEF Known
<1>2. AllSent(Append(q, c))
  BY InOrderAppend
<1>3. Len(q) + 1 \in DOMAIN Append(q, c)
  BY <1>1
<1> QED
  BY <1>1, <1>2, <1>3 DEF Grown

\* The requests that answers trigger are unserved reads.
LEMMA SentShapes ==
    /\ \A then \in Jobs \union {"nothing", "idle", "clear"} : SentRead(RefreshCall(then))
    /\ \A j \in Jobs : SentRead(GetDetail(j))
  BY CallShapes DEF SentRead, Reads

\* An answer takes the request in front away, and asks behind the others; one
\* that told of the rider's duty is followed by a refresh.
LEMMA AnsweredSent ==
    ASSUME ConsoleKnown, consoleMode.calm, InOrder(calls), NEW i \in DOMAIN calls, Answered(i)
    PROVE  /\ i = 1 /\ Grown(RemoveAt(calls, 1), calls')
           /\ UNCHANGED <<job, duty, consoleMode>>
           /\ calls[1].pc # "sent"
           /\ calls[1].kind \in {"presence", "claim"} /\ calls[1].pc = "done"
                 => \E m \in DOMAIN calls' : calls'[m].kind = "refresh"
<1> DEFINE rest == RemoveAt(calls, 1)
<1>1. i = 1 /\ calls[1].pc # "sent" /\ UNCHANGED <<job, duty, consoleMode>>
  BY DEF Answered, Due, Refreshed, RefreshFailed, DetailAnswered, PingAnswered,
         PresenceAnswered, ClaimAnswered, ReleaseAnswered, StatusAnswered, CallFailed
<1>2. /\ Known(calls) /\ calls[1] \in Call /\ Named(calls[1]) /\ selected \in Jobs \union {NoJob}
      /\ lists.mine \in SUBSET Jobs
  BY <1>1 DEF ConsoleKnown, ConsoleTypes, Known
<1>3. Known(rest) /\ AllSent(rest)
  BY <1>1, <1>2, KnownRemove, InOrderRemove
<1> HIDE DEF rest
<1>4. Grown(rest, rest)
  BY <1>3 DEF Grown
<1>5. \A then \in Jobs \union {"nothing", "idle", "clear"} :
         /\ Grown(rest, Append(rest, RefreshCall(then)))
         /\ \E m \in DOMAIN Append(rest, RefreshCall(then)) :
               Append(rest, RefreshCall(then))[m] = RefreshCall(then)
  BY <1>3, CallShapes, SentShapes, GrownBy
<1>6. ASSUME NEW q, Grown(rest, q), NEW j \in Jobs
      PROVE  /\ Grown(rest, Append(q, GetDetail(j)))
             /\ \A m \in DOMAIN q : m \in DOMAIN Append(q, GetDetail(j))
                                    /\ Append(q, GetDetail(j))[m] = q[m]
  <2>1. Grown(q, Append(q, GetDetail(j)))
    BY <1>6, CallShapes, SentShapes, GrownBy DEF Grown
  <2> QED
    BY <1>6, <2>1 DEF Grown
<1>7. ASSUME Refreshed(1)
      PROVE  Grown(rest, calls')
  <2> DEFINE after == IF calls[1].then \in Jobs THEN Append(rest, GetDetail(calls[1].then)) ELSE rest
  <2>1. Grown(rest, after)
    BY <1>4, <1>6
  <2>2. calls' = after \/ (selected' \notin {NoJob} /\ calls' = Append(after, GetDetail(selected')))
    BY <1>7 DEF Refreshed, rest
  <2> HIDE DEF after
  <2>3. selected' \in Jobs \union {NoJob}
    BY <1>1, <1>7, AnsweredTyping DEF Answered, ConsoleKnown, ConsoleTypes
  <2>4. CASE calls' = after
    BY <2>1, <2>4
  <2>5. CASE selected' \in Jobs /\ calls' = Append(after, GetDetail(selected'))
    BY <1>6, <2>1, <2>5
  <2> QED
    BY <2>2, <2>3, <2>4, <2>5
<1>8. ASSUME RefreshFailed(1)
      PROVE  Grown(rest, calls')
  BY <1>4, <1>6, <1>8 DEF RefreshFailed, rest
<1>9. ASSUME DetailAnswered(1) \/ CallFailed(1)
      PROVE  Grown(rest, calls')
  BY <1>4, <1>9 DEF DetailAnswered, CallFailed, rest
<1>10. ASSUME PingAnswered(1)
       PROVE  Grown(rest, calls')
  BY <1>2, <1>4, <1>6, <1>10 DEF PingAnswered, rest
<1>11. ASSUME PresenceAnswered(1) \/ ReleaseAnswered(1) \/ StatusAnswered(1)
       PROVE  Grown(rest, calls') /\ \E m \in DOMAIN calls' : calls'[m].kind = "refresh"
  <2>1. PICK then \in Jobs \union {"nothing", "idle", "clear"} : calls' = Append(rest, RefreshCall(then))
    BY <1>2, <1>11 DEF PresenceAnswered, ReleaseAnswered, StatusAnswered, rest, Named
  <2> QED
    BY <1>5, <2>1, CallShapes
<1>12. ASSUME ClaimAnswered(1)
       PROVE  Grown(rest, calls') /\ \E m \in DOMAIN calls' : calls'[m].kind = "refresh"
  <2> DEFINE q == Append(rest, RefreshCall("idle"))
  <2>1. calls' = q \/ (selected' # NoJob /\ calls' = Append(q, GetDetail(selected')))
    BY <1>12 DEF ClaimAnswered, Select, rest
  <2>2. Grown(rest, q) /\ \E m \in DOMAIN q : q[m].kind = "refresh"
    <3>1. /\ Grown(rest, q)
          /\ \E m \in DOMAIN q : q[m] = RefreshCall("idle")
      BY <1>5
    <3>2. RefreshCall("idle").kind = "refresh"
      BY CallShapes
    <3> QED
      BY <3>1, <3>2
  <2> HIDE DEF q
  <2>3. selected' \in Jobs \union {NoJob}
    BY <1>1, <1>12, AnsweredTyping DEF Answered, ConsoleKnown, ConsoleTypes
  <2>4. CASE calls' = q
    BY <2>2, <2>4
  <2>5. CASE selected' \in Jobs /\ calls' = Append(q, GetDetail(selected'))
    <3>1. /\ Grown(rest, calls')
          /\ \A m \in DOMAIN q : m \in DOMAIN calls' /\ calls'[m] = q[m]
      BY <1>6, <2>2, <2>5
    <3> QED
      BY <2>2, <3>1
  <2> QED
    BY <2>1, <2>3, <2>4, <2>5
<1>13. Grown(rest, calls')
  BY <1>1, <1>7, <1>8, <1>9, <1>10, <1>11, <1>12 DEF Answered
<1>14. ASSUME calls[1].kind \in {"presence", "claim"}, calls[1].pc = "done"
       PROVE  PresenceAnswered(1) \/ ClaimAnswered(1)
  BY <1>1, <1>14
     DEF Answered, Refreshed, RefreshFailed, DetailAnswered, PingAnswered,
         ReleaseAnswered, StatusAnswered, CallFailed
<1> QED
  BY <1>1, <1>11, <1>12, <1>13, <1>14 DEF rest

\* Serving a request leaves what it asks for, and the other requests.
LEMMA ServedFront ==
    ASSUME ConsoleKnown, NEW i \in DOMAIN calls, ReadServed(i) \/ WriteServed(i)
    PROVE  /\ DOMAIN calls' = DOMAIN calls
           /\ \A k \in DOMAIN calls : k # i => calls'[k] = calls[k]
           /\ calls[i].pc = "sent"
           /\ calls'[i].kind = calls[i].kind /\ calls'[i].job = calls[i].job
           /\ calls'[i].stage = calls[i].stage /\ calls'[i].then = calls[i].then
           /\ calls[i].kind # "refresh" => calls'[i].pc \in {"done", "refused"}
           /\ calls'[i].pc = "refused" => calls[i].kind \in {"claim", "release", "status"}
           /\ calls[i].kind = "refresh" => \E part \in calls[i].left :
                 /\ calls'[i].left = calls[i].left \ {part}
                 /\ calls'[i].read = Read(calls[i].read, part)
                 /\ calls'[i].pc = IF calls[i].left = {part} THEN "done" ELSE "sent"
           /\ calls[i].kind = "detail" => calls'[i].shown.job = calls[i].job
<1>1. calls \in Seq(Call) /\ calls[i] \in Call /\ DOMAIN calls = 1..Len(calls)
  BY DEF ConsoleKnown, Known
<1>2. CASE ReadServed(i) /\ calls[i].kind = "refresh"
  <2>1. PICK part \in calls[i].left :
           calls' = [calls EXCEPT ![i].left = @ \ {part}, ![i].read = Read(@, part),
                                  ![i].pc = IF calls[i].left = {part} THEN "done" ELSE "sent"]
    BY <1>2 DEF ReadServed
  <2> DEFINE c == [calls[i] EXCEPT !.left = @ \ {part}, !.read = Read(@, part),
                                   !.pc = IF calls[i].left = {part} THEN "done" ELSE "sent"]
  <2>2. calls' = [calls EXCEPT ![i] = c]
    BY <1>1, <2>1
  <2>3. /\ c.kind = calls[i].kind /\ c.job = calls[i].job
        /\ c.stage = calls[i].stage /\ c.then = calls[i].then
        /\ c.left = calls[i].left \ {part} /\ c.read = Read(calls[i].read, part)
        /\ c.pc = IF calls[i].left = {part} THEN "done" ELSE "sent"
    BY <1>1 DEF Call
  <2> HIDE DEF c
  <2>4. DOMAIN calls' = DOMAIN calls /\ calls'[i] = c /\ \A k \in DOMAIN calls : k # i => calls'[k] = calls[k]
    BY <1>1, <2>2
  <2>5. calls[i].pc = "sent"
    BY <1>2 DEF ReadServed
  <2> QED
    BY <1>2, <2>3, <2>4, <2>5
<1>3. CASE ReadServed(i) /\ calls[i].kind # "refresh"
  <2>1. calls[i].pc = "sent"
    BY <1>3 DEF ReadServed
  <2>2. CASE /\ calls[i].kind = "detail"
             /\ calls' = [calls EXCEPT ![i].pc = "done", ![i].shown =
                    [job |-> calls[i].job, stage |-> job[calls[i].job].stage,
                     assignedToMe |-> calls[i].job \in Mine]]
    BY <1>1, <2>1, <2>2 DEF Call
  <2>3. CASE calls[i].kind = "ping" /\ calls' = [calls EXCEPT ![i].pc = "done"]
    BY <1>1, <2>1, <2>3 DEF Call
  <2> QED
    BY <1>3, <2>2, <2>3 DEF ReadServed
<1>4. CASE WriteServed(i)
  BY <1>1, <1>4 DEF WriteServed, Call
<1> QED
  BY <1>2, <1>3, <1>4

\* The server serves the one in front.
LEMMA ServedInOrder ==
    ASSUME ConsoleKnown, consoleMode.calm, InOrder(calls), NEW i \in DOMAIN calls,
           Due(i), ReadServed(i) \/ WriteServed(i)
    PROVE  i = 1 /\ InOrder(calls')
<1>1. i = 1
  BY DEF Due
<1>2. calls'[1].kind = "refresh" => (calls'[1].pc = "done" <=> calls'[1].left = {})
  BY <1>1, ServedFront
<1>3. ASSUME NEW k \in DOMAIN calls, k > 1
      PROVE  calls'[k] = calls[k]
  BY <1>1, <1>3, ServedFront, k # 1
<1> QED
  BY <1>1, <1>2, <1>3, ServedFront DEF InOrder, Reads

\* What the rider does leaves the front, and asks behind it.
LEMMA RiderInOrder ==
    ASSUME ConsoleKnown, consoleMode.calm, InOrder(calls),
           \/ \E t \in {"active", "available", "history"} : ShowTab(t)
           \/ \E j \in Jobs : PickCard(j) \/ Claim(j)
           \/ \E s \in Stage : Advance(s)
           \/ TogglePresence \/ Release \/ ReloadLists \/ PollRefresh \/ GpsFix
    PROVE  /\ InOrder(calls')
           /\ UNCHANGED <<job, duty, lists, online, consoleMode>>
           /\ \A k \in DOMAIN calls : k \in DOMAIN calls' /\ calls'[k] = calls[k]
           /\ \A k \in DOMAIN calls' : k \in DOMAIN calls \/ calls'[k].pc = "sent"
           /\ \A k \in DOMAIN calls' : calls'[k].kind = "refresh" =>
                                          k \in DOMAIN calls \/ calls'[k].left = Parts
<1> USE DEF MayAct
<1>1. /\ Known(calls) /\ selected \in Jobs \union {NoJob} /\ DOMAIN calls = 1..Len(calls)
      /\ lists.mine \in SUBSET Jobs /\ Len(calls) \in Nat
  BY DEF ConsoleKnown, ConsoleTypes, Known
<1> DEFINE Behind(q, more) ==
      /\ Known(more) /\ InOrder(more)
      /\ \A k \in DOMAIN q : k \in DOMAIN more /\ more[k] = q[k]
      /\ \A k \in DOMAIN more : k \in DOMAIN q \/ more[k].pc = "sent"
      /\ \A k \in DOMAIN more : more[k].kind = "refresh" => k \in DOMAIN q \/ more[k].left = Parts
<1>2. ASSUME NEW q, Known(q), InOrder(q), NEW c \in Call, Named(c), c.pc = "sent",
             c.kind = "refresh" => c.left = Parts,
             q = <<>> \/ (c.kind \in Reads /\ c.then = "nothing")
      PROVE  Behind(q, Append(q, c))
  <2>1. /\ Known(Append(q, c)) /\ DOMAIN q = 1..Len(q)
        /\ Len(q) \in Nat /\ DOMAIN Append(q, c) = 1..(Len(q) + 1)
        /\ \A i \in 1..Len(q) : Append(q, c)[i] = q[i]
        /\ Append(q, c)[Len(q) + 1] = c
    BY <1>2, KnownAppend DEF Known
  <2>2. InOrder(Append(q, c))
    BY <1>2, InOrderAppend DEF SentRead
  <2>3. \A k \in DOMAIN Append(q, c) : k \in DOMAIN q \/ Append(q, c)[k] = c
    BY <2>1
  <2> QED
    BY <1>2, <2>1, <2>2, <2>3
<1>3. Behind(calls, calls)
  BY <1>1
<1>4. ASSUME NEW q, Behind(calls, q), NEW j \in Jobs \union {NoJob}, Select(j, q)
      PROVE  Behind(calls, calls')
  <2>1. CASE calls' = q
    BY <1>4, <2>1
  <2>2. CASE j \in Jobs /\ calls' = Append(q, GetDetail(j))
    <3>1. Behind(q, Append(q, GetDetail(j)))
      BY <1>2, <1>4, <2>2, CallShapes DEF Reads
    <3> QED
      BY <1>4, <2>2, <3>1
  <2> QED
    BY <1>4, <2>1, <2>2 DEF Select
<1>5. ASSUME NEW c \in Call, Named(c), NEW what, Press(c, what), c.pc = "sent",
             c.kind = "refresh" => c.left = Parts
      PROVE  Behind(calls, calls') /\ UNCHANGED <<job, duty, lists, online, consoleMode>>
  BY <1>1, <1>2, <1>5 DEF Press
<1> HIDE DEF Behind
<1>6. ASSUME NEW t \in {"active", "available", "history"}, ShowTab(t)
      PROVE  Behind(calls, calls')
  BY <1>1, <1>3, <1>4, <1>6, Choice DEF ShowTab
<1>7. ASSUME NEW j \in Jobs, PickCard(j)
      PROVE  Behind(calls, calls')
  BY <1>3, <1>4, <1>7 DEF PickCard
<1>8. ASSUME NEW j \in Jobs, Claim(j)
      PROVE  Behind(calls, calls') /\ UNCHANGED <<job, duty, lists, online, consoleMode>>
  <2> DEFINE c == [NewCall EXCEPT !.kind = "claim", !.job = j]
  <2>1. c \in Call /\ Named(c) /\ c.pc = "sent" /\ c.kind = "claim"
    BY CallShapes DEF Call, Named
  <2> HIDE DEF c
  <2>2. Press(c, j)
    BY <1>8 DEF Claim, c
  <2> QED
    BY <1>5, <2>1, <2>2
<1>9. ASSUME NEW s \in Stage, Advance(s)
      PROVE  Behind(calls, calls') /\ UNCHANGED <<job, duty, lists, online, consoleMode>>
  <2> DEFINE c == [NewCall EXCEPT !.kind = "status", !.job = selected, !.stage = s]
  <2>1. c \in Call /\ Named(c) /\ c.pc = "sent" /\ c.kind = "status"
    BY <1>1, <1>9, CallShapes DEF Call, Named, Advance, Controls
  <2> HIDE DEF c
  <2>2. Press(c, selected)
    BY <1>9 DEF Advance, c
  <2> QED
    BY <1>5, <2>1, <2>2
<1>10. ASSUME TogglePresence
      PROVE  Behind(calls, calls') /\ UNCHANGED <<job, duty, lists, online, consoleMode>>
  <2> DEFINE c == [NewCall EXCEPT !.kind = "presence", !.on = ~online]
  <2>1. c \in Call /\ Named(c) /\ c.pc = "sent" /\ c.kind = "presence"
    BY PresenceShape DEF ConsoleKnown, ConsoleTypes
  <2> HIDE DEF c
  <2>2. Press(c, "presence")
    BY <1>10 DEF TogglePresence, c
  <2> QED
    BY <1>5, <2>1, <2>2
<1>11. ASSUME Release
      PROVE  Behind(calls, calls') /\ UNCHANGED <<job, duty, lists, online, consoleMode>>
  <2> DEFINE c == [NewCall EXCEPT !.kind = "release", !.job = selected]
  <2>1. c \in Call /\ Named(c) /\ c.pc = "sent" /\ c.kind = "release"
    BY <1>1, <1>11, CallShapes DEF Call, Named, Release, Controls
  <2> HIDE DEF c
  <2>2. Press(c, selected)
    BY <1>11 DEF Release, c
  <2> QED
    BY <1>5, <2>1, <2>2
<1>12. ASSUME ReloadLists
      PROVE  Behind(calls, calls') /\ UNCHANGED <<job, duty, lists, online, consoleMode>>
  BY <1>5, <1>12, CallShapes DEF ReloadLists
<1>13. ASSUME PollRefresh
      PROVE  Behind(calls, calls')
  BY <1>1, <1>2, <1>13, CallShapes DEF PollRefresh, Reads
<1>14. ASSUME GpsFix
      PROVE  Behind(calls, calls')
  <2> DEFINE c == [NewCall EXCEPT !.kind = "ping"]
  <2>1. PICK j \in Nearer(lists.mine, selected) : Select(j, calls) \/ Select(j, Append(calls, c))
    BY <1>14 DEF GpsFix
  <2>2. j \in Jobs \union {NoJob}
    BY <1>1, <2>1, Choice
  <2>3. c \in Call /\ Named(c) /\ c.pc = "sent" /\ c.kind = "ping" /\ c.then = "nothing"
    BY CallShapes DEF Call, Named
  <2> HIDE DEF c
  <2>4. Behind(calls, Append(calls, c))
    BY <1>1, <1>2, <2>3 DEF Reads
  <2> QED
    BY <1>3, <1>4, <2>1, <2>2, <2>4
<1>15. /\ Behind(calls, calls')
       /\ UNCHANGED <<job, duty, lists, online, consoleMode>>
  BY <1>6, <1>7, <1>8, <1>9, <1>10, <1>11, <1>12, <1>13, <1>14
     DEF ShowTab, PickCard, PollRefresh, GpsFix
<1> QED
  BY <1>15 DEF Behind

\* What the server does to duty, or says of it.
LEMMA ServedDuty ==
    ASSUME ConsoleKnown, consoleMode.calm, InOrder(calls), DutyTold, NEW i \in DOMAIN calls,
           Due(i), ReadServed(i) \/ WriteServed(i)
    PROVE  DutyTold'
<1>1. i = 1 /\ 1 \in DOMAIN calls /\ InOrder(calls')
  BY ServedInOrder
<1>2. \A k \in DOMAIN calls : k > 1 => k # 1
  BY DEF ConsoleKnown, Known
<1>3. online' = online
  BY DEF ReadServed, WriteServed
<1>4. ASSUME NEW k \in DOMAIN calls', calls'[k].kind = "refresh", "stats" \notin calls'[k].left
      PROVE  calls'[k].read.duty = duty'
  <2>1. CASE k # 1
    <3>1. k \in DOMAIN calls /\ calls'[k] = calls[k] /\ k > 1
      BY <1>1, <2>1, ServedFront DEF ConsoleKnown, Known
    <3> QED
      BY <1>4, <3>1 DEF InOrder, SentRead, Parts
  <2>2. CASE k = 1
    <3>1. calls[1].kind = "refresh" /\ ReadServed(1)
      BY <1>1, <1>4, <2>2, ServedFront DEF WriteServed
    <3>2. PICK part \in calls[1].left : /\ calls'[1].left = calls[1].left \ {part}
                                        /\ calls'[1].read = Read(calls[1].read, part)
      BY <1>1, <3>1, ServedFront
    <3>3. duty' = duty /\ calls[1] \in Call
      <4>1. duty' = duty
        BY <3>1 DEF ReadServed
      <4>2. calls[1] \in Call
        BY <1>1 DEF ConsoleKnown, Known
      <4> QED
        BY <4>1, <4>2
    <3>4. CASE part = "stats"
      BY <2>2, <3>2, <3>3, <3>4 DEF Read, Call
    <3>5. CASE part # "stats"
      <4>1. calls[1].read.duty = duty
        BY <1>1, <1>4, <2>2, <3>1, <3>2, <3>5 DEF DutyTold
      <4> QED
        BY <2>2, <3>2, <3>3, <3>5, <4>1 DEF Read, Call
    <3> QED
      BY <3>4, <3>5
  <2> QED
    BY <2>1, <2>2
<1>5. \/ online' = duty'
      \/ \E k \in DOMAIN calls' : calls'[k].kind = "refresh"
      \/ calls' # <<>> /\ calls'[1].pc = "done" /\ calls'[1].kind \in {"presence", "claim"}
  <2>1. CASE \E k \in DOMAIN calls : calls[k].kind = "refresh"
    BY <1>1, <2>1, ServedFront
  <2>2. CASE duty' # duty
    <3>1. calls[1].kind \in {"presence", "claim"} /\ calls'[1].pc = "done"
      <4>1. /\ calls[1].kind \in {"presence", "claim"}
            /\ calls' = [calls EXCEPT ![1].pc = "done"]
        BY <1>1, <2>2 DEF ReadServed, WriteServed
      <4>2. calls \in Seq(Call) /\ calls[1] \in Call
        BY <1>1 DEF ConsoleKnown, Known
      <4>3. calls'[1] = [calls[1] EXCEPT !.pc = "done"]
        BY <1>1, <4>1, <4>2
      <4>4. [calls[1] EXCEPT !.pc = "done"].pc = "done"
        BY <4>2 DEF Call
      <4> QED
        BY <4>1, <4>3, <4>4
    <3>2. calls' # <<>>
      BY <1>1, ServedFront
    <3> QED
      BY <1>1, <3>1, <3>2, ServedFront
  <2>3. CASE duty' = duty /\ online = duty
    BY <1>3, <2>3
  <2>4. calls[1].pc # "done"
    BY <1>1, ServedFront
  <2> QED
    BY <2>1, <2>2, <2>3, <2>4 DEF DutyTold
<1> QED
  BY <1>4, <1>5 DEF DutyTold

\* What the page takes over of it.
LEMMA AnsweredDuty ==
    ASSUME ConsoleKnown, consoleMode.calm, InOrder(calls), DutyTold,
           NEW i \in DOMAIN calls, Answered(i)
    PROVE  InOrder(calls') /\ DutyTold'
<1> DEFINE rest == RemoveAt(calls, 1)
<1>1. /\ i = 1 /\ 1 \in DOMAIN calls /\ duty' = duty
      /\ Known(calls') /\ AllSent(calls')
      /\ \A k \in DOMAIN rest : k \in DOMAIN calls' /\ calls'[k] = rest[k]
      /\ calls[1].kind \in {"presence", "claim"} /\ calls[1].pc = "done"
            => \E m \in DOMAIN calls' : calls'[m].kind = "refresh"
  BY AnsweredSent DEF Grown
<1>2. \A k \in DOMAIN calls : k > 1 => k - 1 \in DOMAIN rest /\ rest[k - 1] = calls[k]
  BY <1>1, InOrderRemove DEF ConsoleKnown
<1> HIDE DEF rest
<1>3. InOrder(calls')
  <2>1. 1 \in DOMAIN calls' \/ calls' = <<>>
    BY <1>1 DEF Known
  <2> QED
    BY <1>1, <2>1, SentInOrder
<1>4. \A k \in DOMAIN calls' :
         calls'[k].kind = "refresh" /\ "stats" \notin calls'[k].left => calls'[k].read.duty = duty'
  BY <1>1 DEF AllSent, SentRead, Parts
<1>5. \/ online' = duty'
      \/ \E k \in DOMAIN calls' : calls'[k].kind = "refresh"
  <2>1. CASE calls[1].kind = "refresh"
    <3>1. Refreshed(1)
      BY <1>1, <2>1 DEF InOrder, Reads, Answered, RefreshFailed, DetailAnswered, PingAnswered,
            PresenceAnswered, ClaimAnswered, ReleaseAnswered, StatusAnswered, CallFailed
    <3>2. "stats" \notin calls[1].left
      BY <1>1, <2>1, <3>1 DEF Refreshed, InOrder
    <3> QED
      BY <1>1, <2>1, <3>1, <3>2 DEF Refreshed, DutyTold
  <2>2. CASE calls[1].kind # "refresh" /\ \E k \in DOMAIN calls : calls[k].kind = "refresh"
    <3>1. PICK k \in DOMAIN calls : k # 1 /\ calls[k].kind = "refresh"
      BY <2>2
    <3>2. k > 1
      BY <3>1 DEF ConsoleKnown, Known
    <3> QED
      BY <1>1, <1>2, <3>1, <3>2
  <2>3. CASE calls[1].pc = "done" /\ calls[1].kind \in {"presence", "claim"}
    BY <1>1, <2>3
  <2>4. CASE online = duty /\ calls[1].kind # "refresh" /\ calls[1].kind # "presence"
    <3>1. online' = online
      BY <1>1, <2>4 DEF Answered, Refreshed, RefreshFailed, DetailAnswered, PingAnswered,
            PresenceAnswered, ClaimAnswered, ReleaseAnswered, StatusAnswered, CallFailed
    <3> QED
      BY <1>1, <2>4, <3>1
  <2>5. calls[1].kind = "presence" => calls[1].pc = "done"
    <3>1. calls[1].pc \in {"sent", "done", "refused"}
      <4>1. calls[1] \in Call
        BY <1>1 DEF ConsoleKnown, Known
      <4> QED
        BY <4>1 DEF Call
    <3> QED
      BY <1>1, <3>1, AnsweredSent DEF InOrder
  <2> QED
    BY <2>1, <2>2, <2>3, <2>4, <2>5 DEF DutyTold
<1> QED
  BY <1>3, <1>4, <1>5 DEF DutyTold

\* Every step keeps the invariant.
LEMMA ConsoleStep ==
    ASSUME ConsoleKnown, ConsoleInv, [ConsoleNext]_consoleVars
    PROVE  ConsoleInv'
<1>1. CASE UNCHANGED consoleVars
  BY <1>1 DEF consoleVars, ConsoleInv, DutyTold
<1>2. CASE ConsoleNext
  <2>1. consoleMode' = consoleMode
    BY <1>2 DEF ConsoleNext, ShowTab, PickCard, Claim, Advance, TogglePresence, Release,
       ReloadLists, Press, PollRefresh, GpsFix, ReadServed, WriteServed, Unreached, Answered,
       Refreshed, RefreshFailed, DetailAnswered, PingAnswered, PresenceAnswered, ClaimAnswered,
       ReleaseAnswered, StatusAnswered, CallFailed, Interfere
  <2> SUFFICES ASSUME consoleMode.calm
               PROVE  InOrder(calls') /\ DutyTold'
    BY <2>1 DEF ConsoleInv
  <2>2. InOrder(calls) /\ DutyTold
    BY DEF ConsoleInv
  <2>3. CASE \/ \E t \in {"active", "available", "history"} : ShowTab(t)
             \/ \E j \in Jobs : PickCard(j) \/ Claim(j)
             \/ \E s \in Stage : Advance(s)
             \/ TogglePresence \/ Release \/ ReloadLists \/ PollRefresh \/ GpsFix
    <3>1. /\ InOrder(calls')
          /\ UNCHANGED <<job, duty, lists, online, consoleMode>>
          /\ \A k \in DOMAIN calls : k \in DOMAIN calls' /\ calls'[k] = calls[k]
          /\ \A k \in DOMAIN calls' : calls'[k].kind = "refresh" =>
                                          k \in DOMAIN calls \/ calls'[k].left = Parts
      BY <2>2, <2>3, RiderInOrder
    <3>2. calls # <<>> => calls' # <<>> /\ calls'[1] = calls[1]
      BY <3>1 DEF ConsoleKnown, Known
    <3> QED
      BY <2>2, <3>1, <3>2 DEF DutyTold, Parts
  <2>4. ASSUME NEW i \in DOMAIN calls, Due(i), ReadServed(i) \/ WriteServed(i)
        PROVE  InOrder(calls') /\ DutyTold'
    BY <2>2, <2>4, ServedInOrder, ServedDuty
  <2>5. ASSUME NEW i \in DOMAIN calls, Answered(i)
        PROVE  InOrder(calls') /\ DutyTold'
    BY <2>2, <2>5, AnsweredDuty
  <2>6. ASSUME NEW j, Interfere(j)
        PROVE  InOrder(calls') /\ DutyTold'
    BY <2>2, <2>6 DEF Interfere, DutyTold
  <2> QED
    BY <1>2, <2>3, <2>4, <2>5, <2>6 DEF ConsoleNext, Unreached
<1> QED
  BY <1>1, <1>2

\* It holds as the console is mounted.
LEMMA ConsoleStart ==
    ASSUME ConsoleInit
    PROVE  ConsoleKnown /\ ConsoleInv
<1>1. calls = <<RefreshCall("nothing")>> /\ 1 \in DOMAIN calls
  BY DEF ConsoleInit
<1>2. \A i \in DOMAIN calls : i = 1 /\ calls[i] = RefreshCall("nothing")
  BY <1>1
<1>3. AllSent(calls)
  BY <1>2, SentShapes DEF AllSent
<1>4. InOrder(calls)
  BY <1>1, <1>3, SentInOrder
<1>5. DutyTold
  BY <1>1, <1>2, <1>3, CallShapes DEF DutyTold, AllSent, SentRead, Parts
<1> QED
  BY <1>4, <1>5, ConsoleStarts DEF ConsoleInv

\* A rider who waits for the answers, and has them, shares his position exactly
\* while the server has him on duty, whatever else is done to his jobs.
THEOREM SharesWhileOnDuty == ConsoleSpec => []SharesOnDuty
<1>1. ConsoleInit => ConsoleKnown /\ ConsoleInv
  BY ConsoleStart
<1>2. ConsoleKnown /\ ConsoleInv /\ [ConsoleNext]_consoleVars => (ConsoleKnown /\ ConsoleInv)'
  BY ConsoleTyping, ConsoleStep
<1>3. ConsoleInv => SharesOnDuty
  BY DEF ConsoleInv, DutyTold, SharesOnDuty
<1> QED
  BY <1>1, <1>2, <1>3, PTL DEF ConsoleSpec

-----------------------------------------------------------------------------
(* The rider's console: the detail next to the selected job.               *)

\* Of several details under way the last is that of the selected job; once there
\* is none, the one shown is.
Showing(q, sel, shown) ==
    sel # NoJob =>
        /\ (\A i \in DOMAIN q : q[i].kind # "detail") => shown = NoDetail \/ shown.job = sel
        /\ \A i \in DOMAIN q :
              q[i].kind = "detail" /\ (\A k \in DOMAIN q : k > i => q[k].kind # "detail")
                 => q[i].job = sel

\* Another request; a detail is asked for the selected job.
LEMMA ShowingAppend ==
    ASSUME NEW q, Known(q), NEW c \in Call, Named(c), NEW sel, NEW shown
    PROVE  /\ c.kind # "detail" /\ Showing(q, sel, shown) => Showing(Append(q, c), sel, shown)
           /\ c.kind = "detail" /\ c.job = sel => Showing(Append(q, c), sel, shown)
<1>1. /\ DOMAIN q = 1..Len(q) /\ Len(q) \in Nat
      /\ DOMAIN Append(q, c) = 1..(Len(q) + 1)
      /\ \A i \in 1..Len(q) : Append(q, c)[i] = q[i]
      /\ Append(q, c)[Len(q) + 1] = c
  BY KnownAppend DEF Known
<1>2. ASSUME c.kind # "detail", Showing(q, sel, shown)
      PROVE  Showing(Append(q, c), sel, shown)
  <2> SUFFICES ASSUME sel # NoJob
               PROVE  /\ (\A i \in DOMAIN Append(q, c) : Append(q, c)[i].kind # "detail")
                            => shown = NoDetail \/ shown.job = sel
                      /\ \A i \in DOMAIN Append(q, c) :
                            /\ Append(q, c)[i].kind = "detail"
                            /\ \A k \in DOMAIN Append(q, c) : k > i => Append(q, c)[k].kind # "detail"
                            => Append(q, c)[i].job = sel
    BY DEF Showing
  <2>1. (\A i \in DOMAIN Append(q, c) : Append(q, c)[i].kind # "detail")
           => shown = NoDetail \/ shown.job = sel
    BY <1>1, <1>2 DEF Showing
  <2>2. ASSUME NEW i \in DOMAIN Append(q, c), Append(q, c)[i].kind = "detail",
               \A k \in DOMAIN Append(q, c) : k > i => Append(q, c)[k].kind # "detail"
        PROVE  Append(q, c)[i].job = sel
    <3>1. i \in DOMAIN q /\ Append(q, c)[i] = q[i]
      BY <1>1, <1>2, <2>2
    <3>2. \A k \in DOMAIN q : k > i => q[k].kind # "detail"
      BY <1>1, <2>2
    <3> QED
      BY <1>2, <2>2, <3>1, <3>2 DEF Showing
  <2> QED
    BY <2>1, <2>2
<1>3. ASSUME c.kind = "detail", c.job = sel
      PROVE  Showing(Append(q, c), sel, shown)
  <2>1. Len(q) + 1 \in DOMAIN Append(q, c) /\ Append(q, c)[Len(q) + 1].kind = "detail"
    BY <1>1, <1>3
  <2>2. \A i \in DOMAIN Append(q, c) : i = Len(q) + 1 \/ Len(q) + 1 > i
    BY <1>1
  <2> QED
    BY <1>1, <1>3, <2>1, <2>2 DEF Showing
<1> QED
  BY <1>2, <1>3

\* The one in front is answered; if it is a detail it is shown.
LEMMA ShowingRemove ==
    ASSUME NEW q, Known(q), 1 \in DOMAIN q, NEW sel, NEW shown, Showing(q, sel, shown)
    PROVE  /\ q[1].kind # "detail" => Showing(RemoveAt(q, 1), sel, shown)
           /\ q[1].kind = "detail" =>
                 \A next : next.job = q[1].job => Showing(RemoveAt(q, 1), sel, next)
<1> DEFINE rest == RemoveAt(q, 1)
<1>1. /\ DOMAIN q = 1..Len(q) /\ Len(q) \in Nat
      /\ DOMAIN rest = 1..(Len(q) - 1)
      /\ \A k \in 1..(Len(q) - 1) : rest[k] = q[k + 1]
  <2>1. /\ Known(rest)
        /\ Len(rest) = Len(q) - 1
        /\ \A k \in 1..(Len(q) - 1) : rest[k] = IF k < 1 THEN q[k] ELSE q[k + 1]
    BY KnownRemove
  <2> QED
    BY <2>1 DEF Known
<1> HIDE DEF rest
<1>2. \A i \in DOMAIN q : i = 1 \/ (i - 1 \in DOMAIN rest /\ rest[i - 1] = q[i])
  BY <1>1
<1>3. ASSUME NEW next, q[1].kind # "detail" => next = shown,
             q[1].kind = "detail" => next.job = q[1].job
      PROVE  Showing(rest, sel, next)
  <2> SUFFICES ASSUME sel # NoJob
               PROVE  /\ (\A i \in DOMAIN rest : rest[i].kind # "detail")
                            => next = NoDetail \/ next.job = sel
                      /\ \A i \in DOMAIN rest :
                            /\ rest[i].kind = "detail"
                            /\ \A k \in DOMAIN rest : k > i => rest[k].kind # "detail"
                            => rest[i].job = sel
    BY DEF Showing
  <2>1. ASSUME \A i \in DOMAIN rest : rest[i].kind # "detail"
        PROVE  next = NoDetail \/ next.job = sel
    <3>1. \A i \in DOMAIN q : i # 1 => q[i].kind # "detail"
      BY <1>2, <2>1
    <3>2. \A i \in DOMAIN q : i > 1 => i # 1
      BY <1>1
    <3> QED
      BY <1>3, <3>1, <3>2 DEF Showing
  <2>2. ASSUME NEW i \in DOMAIN rest, rest[i].kind = "detail",
               \A k \in DOMAIN rest : k > i => rest[k].kind # "detail"
        PROVE  rest[i].job = sel
    <3>1. i + 1 \in DOMAIN q /\ rest[i] = q[i + 1]
      BY <1>1
    <3>2. ASSUME NEW k \in DOMAIN q, k > i + 1
          PROVE  q[k].kind # "detail"
      <4>1. k - 1 \in DOMAIN rest /\ rest[k - 1] = q[k] /\ k - 1 > i
        BY <1>1, <3>2
      <4> QED
        BY <2>2, <4>1
    <3> QED
      BY <2>2, <3>1, <3>2 DEF Showing
  <2> QED
    BY <2>1, <2>2
<1> QED
  BY <1>3 DEF rest

\* Selecting a job asks for its detail, and none needs none.
LEMMA SelectShowing ==
    ASSUME ConsoleKnown, NEW j \in Jobs \union {NoJob}, NEW q, Known(q), Select(j, q),
           Showing(q, selected, detail)
    PROVE  Showing(calls', selected', detail')
<1>1. CASE j = NoJob
  BY <1>1 DEF Select, Showing
<1>2. CASE j = selected /\ j # NoJob
  BY <1>2 DEF Select
<1>3. CASE j # selected /\ j # NoJob
  <2>1. calls' = Append(q, GetDetail(j)) /\ selected' = j
    BY <1>3 DEF Select
  <2> QED
    BY <1>3, <2>1, CallShapes, ShowingAppend
<1> QED
  BY <1>1, <1>2, <1>3

\* The job whose detail will be asked for after a status.
Follow(c) == IF c.kind = "status" /\ c.stage # "over" THEN c.job ELSE c.then

\* A job that a request will select again is selected now, on the active tab,
\* and still to be delivered by this rider once the request was served.
Followed(c) ==
    Follow(c) \in Jobs =>
        /\ tab = "active" /\ selected = Follow(c)
        /\ c.kind = "refresh" \/ c.pc = "done" => selected \in Mine \ Over

\* Lists that were read hold what the server has.
MineRead(c) == c.kind = "refresh" /\ "lists" \notin c.left => c.read.mine = Mine \ Over

\* A calm rider whose jobs nobody else touches, all of them near.
Alone == consoleMode.calm /\ ~consoleMode.others /\ consoleMode.pool \subseteq consoleMode.near

\* The rider's own jobs are near, and a job whose detail will be asked for stays
\* selected until then.
SelectedStays ==
    /\ lists.mine \subseteq consoleMode.near
    /\ tab = "active" => selected \in lists.mine \union {NoJob}
    /\ \A i \in DOMAIN calls : MineRead(calls[i]) /\ Followed(calls[i])

\* The inductive invariant of what the buttons describe.
ShownInv ==
    /\ Jobs \ Over \subseteq consoleMode.pool
    /\ Alone => SelectedStays /\ Showing(calls, selected, detail)

\* No request will select a job.
NoneFollowed(q) == \A k \in DOMAIN q : Follow(q[k]) \notin Jobs

\* Which requests select a job by their answers.
LEMMA Unfollowed ==
    /\ \A c : Named(c) /\ c.kind \notin {"refresh", "status"} => Follow(c) \notin Jobs
    /\ \A then \in Jobs \union {"nothing", "idle", "clear"} : Follow(RefreshCall(then)) = then
    /\ {"nothing", "idle", "clear"} \intersect Jobs = {}
  BY ConsoleAssumption, CallShapes DEF Follow, Named

\* One such request more.
LEMMA NoneAppend ==
    ASSUME NEW q, Known(q), NoneFollowed(q), NEW c \in Call, Named(c), Follow(c) \notin Jobs
    PROVE  NoneFollowed(Append(q, c))
<1>1. /\ DOMAIN q = 1..Len(q) /\ Len(q) \in Nat
      /\ DOMAIN Append(q, c) = 1..(Len(q) + 1)
      /\ \A i \in 1..Len(q) : Append(q, c)[i] = q[i]
      /\ Append(q, c)[Len(q) + 1] = c
  BY KnownAppend DEF Known
<1> QED
  BY <1>1 DEF NoneFollowed

\* What the rider does.
LEMMA RiderShown ==
    ASSUME ConsoleKnown, InOrder(calls), Alone, SelectedStays, Showing(calls, selected, detail),
           \/ \E t \in {"active", "available", "history"} : ShowTab(t)
           \/ \E j \in Jobs : PickCard(j) \/ Claim(j)
           \/ \E s \in Stage : Advance(s)
           \/ TogglePresence \/ Release \/ ReloadLists \/ PollRefresh \/ GpsFix
    PROVE  SelectedStays' /\ Showing(calls', selected', detail')
<1> USE DEF MayAct
<1> DEFINE Near == tab' = "active" => selected' \in lists.mine \union {NoJob}
<1>1. /\ Known(calls) /\ selected \in Jobs \union {NoJob} /\ consoleMode.calm
      /\ lists.mine \in SUBSET Jobs /\ DOMAIN calls = 1..Len(calls)
      /\ lists.mine \subseteq consoleMode.near
      /\ tab = "active" => selected \in lists.mine \union {NoJob}
      /\ NoJob \notin Jobs
  BY ConsoleAssumption DEF ConsoleKnown, ConsoleTypes, Known, Alone, SelectedStays
<1>2. /\ UNCHANGED <<job, duty, lists, online, consoleMode>>
      /\ \A k \in DOMAIN calls : k \in DOMAIN calls' /\ calls'[k] = calls[k]
      /\ \A k \in DOMAIN calls' : calls'[k].kind = "refresh" =>
                                      k \in DOMAIN calls \/ calls'[k].left = Parts
  BY <1>1, RiderInOrder
<1>3. \A k \in DOMAIN calls' : MineRead(calls[k])'
  <2>1. ASSUME NEW k \in DOMAIN calls
        PROVE  MineRead(calls[k])'
    BY <1>2 DEF SelectedStays, MineRead, Mine, Over
  <2>2. ASSUME NEW k \in DOMAIN calls', k \notin DOMAIN calls
        PROVE  MineRead(calls[k])'
    BY <1>2, <2>2 DEF MineRead, Parts
  <2> QED
    BY <2>1, <2>2
<1>4. ASSUME Near, NoneFollowed(calls')
      PROVE  SelectedStays'
  BY <1>1, <1>2, <1>3, <1>4 DEF SelectedStays, NoneFollowed, Followed
<1>5. NoneFollowed(<<>>) /\ Known(<<>>)
  BY DEF NoneFollowed, Known
<1>6. \A j \in Jobs : /\ GetDetail(j) \in Call /\ Named(GetDetail(j))
                       /\ GetDetail(j).kind = "detail" /\ Follow(GetDetail(j)) \notin Jobs
  BY CallShapes, Unfollowed
<1>7. ASSUME NEW q, Known(q), NoneFollowed(q), NEW j \in Jobs \union {NoJob}, Select(j, q)
      PROVE  NoneFollowed(calls')
  <2>1. CASE calls' = q
    BY <1>7, <2>1
  <2>2. CASE j \in Jobs /\ calls' = Append(q, GetDetail(j))
    BY <1>6, <1>7, <2>2, NoneAppend
  <2> QED
    BY <1>7, <2>1, <2>2 DEF Select
<1>8. ASSUME NEW c \in Call, Named(c), c.kind # "detail", NEW what, Press(c, what),
             Follow(c) \in Jobs =>
                c.kind # "refresh" /\ c.pc = "sent" /\ tab = "active" /\ selected = Follow(c)
      PROVE  SelectedStays' /\ Showing(calls', selected', detail')
  <2>1. calls = <<>> /\ calls' = Append(calls, c) /\ UNCHANGED <<tab, selected, detail>>
    BY <1>1, <1>8 DEF Press
  <2>2. \A k \in DOMAIN calls' : calls'[k] = c
    <3>1. /\ DOMAIN calls' = 1..(Len(calls) + 1) /\ Len(calls) = 0
          /\ calls'[Len(calls) + 1] = c
      BY <1>1, <1>8, <2>1, KnownAppend DEF Known
    <3> QED
      BY <3>1
  <2>3. \A k \in DOMAIN calls' : Followed(calls[k])'
    BY <1>8, <2>1, <2>2 DEF Followed
  <2>4. Near
    BY <1>1, <2>1
  <2>5. SelectedStays'
    BY <1>1, <1>2, <1>3, <2>3, <2>4 DEF SelectedStays
  <2> QED
    BY <1>1, <1>8, <2>1, <2>5, ShowingAppend
<1>9. ASSUME NEW t \in {"active", "available", "history"}, ShowTab(t)
      PROVE  SelectedStays' /\ Showing(calls', selected', detail')
  <2>1. PICK j \in OnTab(t, lists.mine, selected) : Select(j, calls)
    BY <1>9 DEF ShowTab
  <2>2. j \in Jobs \union {NoJob} /\ calls = <<>>
    BY <1>1, <1>9, <2>1, Choice DEF ShowTab
  <2>3. Near
    <3>1. tab' = t /\ selected' = j
      BY <1>9, <2>1 DEF ShowTab, Select
    <3>2. t = "active" => j \in lists.mine \union {NoJob}
      BY <2>1 DEF OnTab, Preferred
    <3> QED
      BY <3>1, <3>2
  <2>4. NoneFollowed(calls')
    BY <1>1, <1>5, <1>7, <2>1, <2>2
  <2> QED
    BY <1>1, <1>4, <2>1, <2>2, <2>3, <2>4, SelectShowing
<1>10. ASSUME NEW j \in Jobs, PickCard(j)
       PROVE  SelectedStays' /\ Showing(calls', selected', detail')
  <2>1. Select(j, calls) /\ calls = <<>> /\ tab' = tab /\ j \in Cards
    BY <1>1, <1>10 DEF PickCard
  <2>2. Near
    BY <2>1 DEF Select, Cards
  <2>3. NoneFollowed(calls')
    BY <1>1, <1>5, <1>7, <2>1
  <2> QED
    BY <1>1, <1>4, <2>1, <2>2, <2>3, SelectShowing
<1>11. ASSUME NEW j \in Jobs, Claim(j)
       PROVE  SelectedStays' /\ Showing(calls', selected', detail')
  <2> DEFINE c == [NewCall EXCEPT !.kind = "claim", !.job = j]
  <2>1. c \in Call /\ Named(c) /\ c.kind = "claim"
    BY CallShapes DEF Call, Named
  <2> HIDE DEF c
  <2>2. Press(c, j)
    BY <1>11 DEF Claim, c
  <2> QED
    BY <1>8, <2>1, <2>2, Unfollowed
<1>12. ASSUME NEW s \in Stage, Advance(s)
       PROVE  SelectedStays' /\ Showing(calls', selected', detail')
  <2> DEFINE c == [NewCall EXCEPT !.kind = "status", !.job = selected, !.stage = s]
  <2>1. /\ c \in Call /\ Named(c) /\ c.kind = "status" /\ c.pc = "sent"
        /\ c.job = selected /\ c.then = "nothing"
    BY <1>1, <1>12, CallShapes DEF Call, Named, Advance, Controls
  <2> HIDE DEF c
  <2>2. Press(c, selected) /\ tab = "active"
    BY <1>12 DEF Advance, Controls, c
  <2>3. Follow(c) \in Jobs => selected = Follow(c)
    BY <2>1, Unfollowed DEF Follow
  <2> QED
    BY <1>8, <2>1, <2>2, <2>3
<1>13. ASSUME TogglePresence
       PROVE  SelectedStays' /\ Showing(calls', selected', detail')
  <2> DEFINE c == [NewCall EXCEPT !.kind = "presence", !.on = ~online]
  <2>1. c \in Call /\ Named(c) /\ c.kind = "presence"
    BY PresenceShape DEF ConsoleKnown, ConsoleTypes
  <2>2. Named(c) /\ c.kind = "presence"
    BY <2>1
  <2> HIDE DEF c
  <2>3. Press(c, "presence")
    BY <1>13 DEF TogglePresence, c
  <2> QED
    BY <1>8, <2>1, <2>2, <2>3, Unfollowed
<1>14. ASSUME Release
       PROVE  SelectedStays' /\ Showing(calls', selected', detail')
  <2> DEFINE c == [NewCall EXCEPT !.kind = "release", !.job = selected]
  <2>1. c \in Call /\ Named(c) /\ c.kind = "release"
    BY <1>1, <1>14, CallShapes DEF Call, Named, Release, Controls
  <2> HIDE DEF c
  <2>2. Press(c, selected)
    BY <1>14 DEF Release, c
  <2> QED
    BY <1>8, <2>1, <2>2, Unfollowed
<1>15. ASSUME ReloadLists
       PROVE  SelectedStays' /\ Showing(calls', selected', detail')
  BY <1>8, <1>15, CallShapes, Unfollowed DEF ReloadLists
<1>16. ASSUME NEW q, Known(q), q = calls \/ (\E c \in Call : Named(c) /\ q = Append(calls, c)
                                               /\ c.kind # "detail" /\ Follow(c) \notin Jobs),
              calls' = q, UNCHANGED <<tab, selected, detail>>
       PROVE  SelectedStays' /\ Showing(calls', selected', detail')
  <2>1. \A k \in DOMAIN calls' : k \in DOMAIN calls \/ Follow(calls'[k]) \notin Jobs
    <3>1. CASE q = calls
      BY <1>16, <3>1
    <3>2. CASE q # calls
      <4>1. PICK c \in Call : /\ Named(c) /\ q = Append(calls, c) /\ Follow(c) \notin Jobs
        BY <1>16, <3>2
      <4>2. /\ DOMAIN calls' = 1..(Len(calls) + 1) /\ Len(calls) \in Nat
            /\ calls'[Len(calls) + 1] = c
        <5>1. /\ Known(Append(calls, c)) /\ Len(Append(calls, c)) = Len(calls) + 1
              /\ Append(calls, c)[Len(calls) + 1] = c
          BY <1>1, <4>1, KnownAppend
        <5>2. calls' = Append(calls, c)
          BY <1>16, <4>1
        <5>3. DOMAIN Append(calls, c) = 1..Len(Append(calls, c))
          BY <5>1 DEF Known
        <5> QED
          BY <1>1, <5>1, <5>2, <5>3 DEF Known
      <4>3. \A k \in DOMAIN calls' : k \in DOMAIN calls \/ k = Len(calls) + 1
        BY <1>1, <4>2
      <4> QED
        BY <4>1, <4>2, <4>3
    <3> QED
      BY <3>1, <3>2
  <2>2. \A k \in DOMAIN calls' : Followed(calls[k])'
    BY <1>2, <1>16, <2>1 DEF SelectedStays, Followed, Mine, Over
  <2>3. SelectedStays'
    BY <1>1, <1>2, <1>3, <1>16, <2>2 DEF SelectedStays
  <2> QED
    BY <1>1, <1>16, <2>3, ShowingAppend
<1>17. ASSUME PollRefresh
       PROVE  SelectedStays' /\ Showing(calls', selected', detail')
  <2>1. Known(Append(calls, RefreshCall("nothing")))
    BY <1>1, CallShapes, KnownAppend
  <2> QED
    BY <1>16, <1>17, <2>1, CallShapes, Unfollowed DEF PollRefresh
<1>18. ASSUME GpsFix
       PROVE  SelectedStays' /\ Showing(calls', selected', detail')
  <2> DEFINE c == [NewCall EXCEPT !.kind = "ping"]
  <2>1. PICK j \in Nearer(lists.mine, selected) : Select(j, calls) \/ Select(j, Append(calls, c))
    BY <1>18 DEF GpsFix
  <2>2. j \in Jobs \union {NoJob} /\ tab' = tab
    BY <1>1, <1>18, <2>1, Choice DEF GpsFix
  <2>3. c \in Call /\ Named(c) /\ c.kind = "ping"
    BY CallShapes DEF Call, Named
  <2>4. Follow(c) \notin Jobs
    BY <2>3, Unfollowed
  <2> HIDE DEF c
  <2>5. Known(Append(calls, c)) /\ Showing(Append(calls, c), selected, detail)
    BY <1>1, <2>3, KnownAppend, ShowingAppend
  <2>6. Showing(calls', selected', detail')
    BY <1>1, <2>1, <2>2, <2>5, SelectShowing
  <2>7. Near
    BY <1>1, <2>1, <2>2 DEF Select, Nearer, Nearest
  <2>8. CASE NoneFollowed(calls)
    <3>1. NoneFollowed(Append(calls, c))
      BY <1>1, <2>3, <2>4, <2>8, NoneAppend
    <3>2. NoneFollowed(calls')
      BY <1>1, <1>7, <2>1, <2>2, <2>5, <2>8, <3>1
    <3> QED
      BY <1>4, <2>6, <2>7, <3>2
  <2>9. CASE ~NoneFollowed(calls)
    <3>1. selected \in Jobs /\ selected \in lists.mine
      BY <1>1, <2>9 DEF NoneFollowed, SelectedStays, Followed
    <3>2. j = selected
      BY <1>1, <2>1, <3>1 DEF Nearer
    <3>3. UNCHANGED <<selected, detail>> /\ calls' \in {calls, Append(calls, c)}
      BY <1>1, <2>1, <3>1, <3>2 DEF Select
    <3>4. SelectedStays'
      <4>1. CASE calls' = calls
        BY <1>1, <1>16, <2>2, <3>3, <4>1
      <4>2. CASE calls' = Append(calls, c)
        BY <1>1, <1>16, <2>2, <2>3, <2>4, <2>5, <3>3, <4>2
      <4> QED
        BY <3>3, <4>1, <4>2
    <3> QED
      BY <2>6, <3>4
  <2> QED
    BY <2>8, <2>9
<1> QED
  BY <1>9, <1>10, <1>11, <1>12, <1>13, <1>14, <1>15, <1>17, <1>18

\* What the server does.
LEMMA ServedShown ==
    ASSUME ConsoleKnown, InOrder(calls), Alone, SelectedStays, Showing(calls, selected, detail),
           NEW i \in DOMAIN calls, Due(i), ReadServed(i) \/ WriteServed(i)
    PROVE  SelectedStays' /\ Showing(calls', selected', detail')
<1>1. i = 1 /\ 1 \in DOMAIN calls
  BY ServedInOrder DEF Alone
<1>2. /\ UNCHANGED <<tab, lists, selected, detail, consoleMode>>
      /\ calls \in Seq(Call) /\ calls[1] \in Call /\ Named(calls[1])
      /\ \A k \in DOMAIN calls : k \in Nat /\ Named(calls[k])
      /\ \A k \in DOMAIN calls : k = 1 \/ k > 1
  <2>1. UNCHANGED <<tab, lists, selected, detail, consoleMode>>
    BY DEF ReadServed, WriteServed
  <2>2. calls \in Seq(Call) /\ \A k \in DOMAIN calls : k \in Nat /\ Named(calls[k])
    BY DEF ConsoleKnown, Known
  <2> QED
    BY <1>1, <2>1, <2>2
<1>3. /\ DOMAIN calls' = DOMAIN calls
      /\ \A k \in DOMAIN calls : k # 1 => calls'[k] = calls[k]
      /\ calls[1].pc = "sent"
      /\ calls'[1].kind = calls[1].kind /\ calls'[1].job = calls[1].job
      /\ calls'[1].stage = calls[1].stage /\ calls'[1].then = calls[1].then
      /\ calls[1].kind # "refresh" => calls'[1].pc \in {"done", "refused"}
      /\ calls[1].kind = "refresh" => \E part \in calls[1].left :
            /\ calls'[1].left = calls[1].left \ {part}
            /\ calls'[1].read = Read(calls[1].read, part)
  BY <1>1, ServedFront
<1>4. \A k \in DOMAIN calls : calls'[k].kind = calls[k].kind /\ calls'[k].job = calls[k].job
                               /\ Follow(calls'[k]) = Follow(calls[k])
  BY <1>3 DEF Follow
<1>5. Showing(calls', selected', detail')
  <2>1. DOMAIN calls' = DOMAIN calls
    BY <1>3
  <2> QED  BY <1>2, <2>1, <1>4 DEF Showing
<1>6. ASSUME NEW k \in DOMAIN calls, k > 1
      PROVE  MineRead(calls[k])' /\ Followed(calls[k])'
  <2>1. calls'[k] = calls[k] /\ SentRead(calls[k])
    BY <1>3, <1>6 DEF InOrder
  <2>2. MineRead(calls[k])'
    BY <2>1 DEF MineRead, SentRead, Parts
  <2>3. CASE ReadServed(1)
    <3>1. job' = job
      BY <2>3 DEF ReadServed
    <3> QED
      BY <1>2, <2>1, <2>2, <3>1 DEF SelectedStays, Followed, Mine, Over
  <2>4. CASE WriteServed(1)
    <3>1. calls[k].then = "nothing" /\ calls[k].kind # "status"
      BY <1>6, <2>1, <2>4 DEF InOrder, WriteServed, SentRead, Reads
    <3>2. Follow(calls'[k]) \notin Jobs
      BY <2>1, <3>1, Unfollowed DEF Follow
    <3> QED
      BY <2>2, <3>2 DEF Followed
  <2> QED
    BY <1>1, <2>3, <2>4
<1>7. MineRead(calls[1])' /\ Followed(calls[1])'
  <2>1. CASE ReadServed(1)
    <3>1. job' = job
      BY <2>1 DEF ReadServed
    <3>2. MineRead(calls[1])'
      <4> SUFFICES ASSUME calls[1].kind = "refresh", "lists" \notin calls'[1].left
                   PROVE  calls'[1].read.mine = Mine \ Over
        BY <1>3, <3>1 DEF MineRead, Mine, Over
      <4>1. PICK part \in calls[1].left : /\ calls'[1].left = calls[1].left \ {part}
                                          /\ calls'[1].read = Read(calls[1].read, part)
        BY <1>3
      <4>2. CASE part = "lists"
        BY <4>1, <4>2, <1>2 DEF Read, Call
      <4>3. CASE part # "lists"
        <5>1. part = "stats"
          BY <4>3, <1>2 DEF Call, Parts
        <5>2. calls[1].read.mine = Mine \ Over
          BY <1>1, <4>1, <4>3 DEF SelectedStays, MineRead
        <5> QED
          BY <4>1, <5>1, <5>2, <1>2 DEF Read, Call
      <4> QED
        BY <4>2, <4>3
    <3>3. Followed(calls[1])'
      <4>1. CASE calls[1].kind = "refresh"
        BY <1>1, <1>2, <1>3, <1>4, <3>1, <4>1 DEF SelectedStays, Followed, Mine, Over
      <4>2. CASE calls[1].kind # "refresh"
        <5>1. calls[1].kind \notin {"refresh", "status"}
          BY <2>1, <4>2 DEF ReadServed
        <5> QED
          BY <1>1, <1>2, <1>4, <5>1, Unfollowed DEF Followed
      <4> QED
        BY <4>1, <4>2
    <3> QED
      BY <3>2, <3>3
  <2>2. CASE WriteServed(1)
    <3>1. calls[1].kind # "refresh"
      BY <2>2 DEF WriteServed
    <3>2. MineRead(calls[1])'
      BY <1>3, <3>1 DEF MineRead
    <3>3. CASE calls[1].kind # "status"
      BY <1>1, <1>2, <1>4, <3>1, <3>2, <3>3, Unfollowed DEF Followed
    <3>4. CASE calls[1].kind = "status"
      <4> SUFFICES ASSUME Follow(calls[1]) \in Jobs
                   PROVE  /\ tab = "active" /\ selected = Follow(calls[1])
                          /\ calls'[1].pc = "done" => selected \in (Mine \ Over)'
        BY <1>1, <1>2, <1>3, <1>4, <3>1, <3>2 DEF Followed
      <4>1. tab = "active" /\ selected = Follow(calls[1])
        BY <1>1 DEF SelectedStays, Followed
      <4>2. calls[1].stage # "over" /\ Follow(calls[1]) = calls[1].job
        BY <1>2, <3>4, Unfollowed DEF Follow, Named
      <4>3. ASSUME calls'[1].pc = "done"
            PROVE  selected \in (Mine \ Over)'
        <5>1. calls' # [calls EXCEPT ![1].pc = "refused"]
          <6>1. [calls EXCEPT ![1].pc = "refused"][1] = [calls[1] EXCEPT !.pc = "refused"]
            BY <1>1, <1>2
          <6>2. [calls[1] EXCEPT !.pc = "refused"].pc = "refused"
            BY <1>2 DEF Call
          <6> QED
            BY <4>3, <6>1, <6>2
        <5>2. /\ calls[1].job \in Mine
              /\ job' = [job EXCEPT ![calls[1].job].stage = calls[1].stage]
          BY <2>2, <3>4, <5>1 DEF WriteServed
        <5>3. job \in [Jobs -> [holder: Holder, stage: Stage]]
          BY DEF ConsoleKnown, ConsoleTypes
        <5>4. job'[calls[1].job].holder = "me" /\ job'[calls[1].job].stage # "over"
          BY <4>2, <5>2, <5>3 DEF Mine
        <5> QED
          BY <4>1, <4>2, <5>2, <5>4 DEF Mine, Over
      <4> QED
        BY <4>1, <4>3
    <3> QED
      BY <3>3, <3>4
  <2> QED
    BY <1>1, <2>1, <2>2
<1>8. SelectedStays'
  BY <1>2, <1>3, <1>6, <1>7 DEF SelectedStays
<1> QED
  BY <1>5, <1>8

\* Answers: the lists keep or move the selection, a detail is of the job
\* that was selected when it was asked for.
LEMMA AnsweredShown ==
    ASSUME ConsoleKnown, InOrder(calls), Alone, Jobs \ Over \subseteq consoleMode.pool,
           SelectedStays, Showing(calls, selected, detail), NEW i \in DOMAIN calls, Answered(i)
    PROVE  SelectedStays' /\ Showing(calls', selected', detail')
<1> DEFINE rest == RemoveAt(calls, 1)
<1>1. /\ i = 1 /\ 1 \in DOMAIN calls /\ Known(calls') /\ AllSent(calls')
      /\ UNCHANGED <<job, duty, consoleMode>> /\ calls[1].pc # "sent"
  BY AnsweredSent DEF Grown, Alone
<1>2. /\ Known(calls) /\ calls[1] \in Call /\ Named(calls[1])
      /\ selected \in Jobs \union {NoJob} /\ NoJob \notin Jobs
      /\ lists \in [available: SUBSET Jobs, mine: SUBSET Jobs, history: SUBSET Jobs]
      /\ lists.mine \subseteq consoleMode.near /\ consoleMode.pool \subseteq consoleMode.near
      /\ tab = "active" => selected \in lists.mine \union {NoJob}
      /\ DOMAIN calls = 1..Len(calls) /\ Len(calls) \in Nat
  <2>1. Known(calls) /\ selected \in Jobs \union {NoJob}
        /\ lists \in [available: SUBSET Jobs, mine: SUBSET Jobs, history: SUBSET Jobs]
    BY DEF ConsoleKnown, ConsoleTypes
  <2> QED
    BY <1>1, <2>1, ConsoleAssumption DEF Known, SelectedStays, Alone
<1>3. /\ Known(rest) /\ AllSent(rest) /\ DOMAIN rest = 1..(Len(calls) - 1)
      /\ \A m \in DOMAIN rest : m + 1 \in DOMAIN calls /\ rest[m] = calls[m + 1]
  <2>1. /\ Known(rest) /\ Len(rest) = Len(calls) - 1
        /\ \A k \in 1..(Len(calls) - 1) : rest[k] = IF k < 1 THEN calls[k] ELSE calls[k + 1]
    BY <1>1, <1>2, KnownRemove
  <2>2. AllSent(rest)
    BY <1>1, <1>2, InOrderRemove
  <2>3. DOMAIN rest = 1..(Len(calls) - 1)
    BY <2>1 DEF Known
  <2> HIDE DEF rest
  <2> QED
    BY <1>2, <2>1, <2>2, <2>3
<1>4. \A m \in DOMAIN rest : Followed(rest[m])
  BY <1>3 DEF SelectedStays
<1>5. calls[1].kind \notin Reads => NoneFollowed(rest)
  <2> SUFFICES ASSUME calls[1].kind \notin Reads, NEW m \in DOMAIN rest
               PROVE  Follow(rest[m]) \notin Jobs
    BY DEF NoneFollowed
  <2>1. m + 1 \in DOMAIN calls /\ m + 1 > 1 /\ rest[m] = calls[m + 1]
    BY <1>3
  <2>2. calls[m + 1].then = "nothing" /\ calls[m + 1].kind # "status"
    BY <2>1 DEF InOrder, SentRead, Reads
  <2> QED
    BY <2>1, <2>2, Unfollowed DEF Follow
<1>6. /\ calls[1].kind # "detail" => Showing(rest, selected, detail)
      /\ calls[1].kind = "detail" =>
            \A next : next.job = calls[1].job => Showing(rest, selected, next)
  BY <1>1, <1>2, ShowingRemove
<1> HIDE DEF rest
<1>7. \A k \in DOMAIN calls' : MineRead(calls[k])'
  BY <1>1 DEF AllSent, SentRead, MineRead, Parts
<1>8. ASSUME UNCHANGED <<tab, selected>>,
             \/ calls' = rest
             \/ \E c \in Call : /\ Named(c) /\ calls' = Append(rest, c)
                                /\ Follow(c) \in Jobs => /\ tab = "active" /\ selected = Follow(c)
                                                        /\ selected \in Mine \ Over
      PROVE  \A k \in DOMAIN calls' : Followed(calls[k])'
  <2>1. \A m \in DOMAIN rest : calls'[m] = rest[m] => Followed(calls[m])'
    BY <1>1, <1>4, <1>8 DEF Followed, Mine, Over
  <2>2. CASE calls' = rest
    BY <2>1, <2>2
  <2>3. ASSUME NEW c \in Call, Named(c), calls' = Append(rest, c),
               Follow(c) \in Jobs => /\ tab = "active" /\ selected = Follow(c)
                                     /\ selected \in Mine \ Over
        PROVE  \A k \in DOMAIN calls' : Followed(calls[k])'
    <3>1. /\ Known(Append(rest, c)) /\ Len(Append(rest, c)) = Len(rest) + 1
          /\ \A k \in 1..Len(rest) : Append(rest, c)[k] = rest[k]
          /\ Append(rest, c)[Len(rest) + 1] = c
      BY <1>3, <2>3, KnownAppend
    <3>2. /\ DOMAIN Append(rest, c) = 1..(Len(rest) + 1)
          /\ DOMAIN rest = 1..Len(rest) /\ Len(rest) \in Nat
      BY <1>3, <3>1 DEF Known
    <3>3. \A k \in DOMAIN calls' : (k \in DOMAIN rest /\ calls'[k] = rest[k]) \/ calls'[k] = c
      BY <2>3, <3>1, <3>2
    <3>4. \A k \in DOMAIN calls' : calls'[k] = c => Followed(calls[k])'
      BY <1>1, <1>8, <2>3 DEF Followed, Mine, Over
    <3> QED
      BY <2>1, <3>3, <3>4
  <2> QED
    BY <1>8, <2>2, <2>3
<1>9. ASSUME UNCHANGED <<tab, lists, selected>>, \A k \in DOMAIN calls' : Followed(calls[k])'
      PROVE  SelectedStays'
  BY <1>1, <1>2, <1>7, <1>9 DEF SelectedStays
<1>10. \A j \in Jobs : /\ GetDetail(j) \in Call /\ Named(GetDetail(j)) /\ GetDetail(j).job = j
                        /\ GetDetail(j).kind = "detail" /\ Follow(GetDetail(j)) \notin Jobs
  BY CallShapes, Unfollowed
<1>11. \A then \in Jobs \union {"nothing", "idle", "clear"} :
          /\ RefreshCall(then) \in Call /\ Named(RefreshCall(then))
          /\ RefreshCall(then).kind = "refresh" /\ Follow(RefreshCall(then)) = then
  BY CallShapes, Unfollowed
<1>12. ASSUME Refreshed(1)
       PROVE  SelectedStays' /\ Showing(calls', selected', detail')
  <2> DEFINE mine == calls[1].read.mine
             after == IF calls[1].then \in Jobs THEN Append(rest, GetDetail(calls[1].then)) ELSE rest
  <2>1. calls[1].kind = "refresh" /\ calls[1].pc = "done" /\ tab' = tab
    BY <1>12 DEF Refreshed
  <2>2. mine = Mine \ Over /\ lists'.mine = mine
    <3>1. "lists" \notin calls[1].left
      BY <1>1, <2>1 DEF InOrder
    <3> QED
      BY <1>1, <1>12, <2>1, <3>1 DEF SelectedStays, MineRead, Refreshed
  <2>3. mine \subseteq consoleMode.near /\ mine \in SUBSET Jobs
    BY <1>2, <2>2 DEF Mine, Over
  <2>20. PICK best \in Preferred(mine, selected) : \E near \in {best} \union Nearer(mine, best) :
           \E j \in OnTab(tab, mine, near) :
              /\ selected' = j
              /\ detail' = IF j = NoJob \/ calls[1].then = "clear" THEN NoDetail ELSE detail
              /\ calls' = IF j \in {selected, NoJob} THEN after ELSE Append(after, GetDetail(j))
    BY <1>12 DEF Refreshed, rest
  <2>4. PICK near \in {best} \union Nearer(mine, best) :
           \E j \in OnTab(tab, mine, near) :
              /\ selected' = j
              /\ detail' = IF j = NoJob \/ calls[1].then = "clear" THEN NoDetail ELSE detail
              /\ calls' = IF j \in {selected, NoJob} THEN after ELSE Append(after, GetDetail(j))
    BY <2>20
  <2>5. /\ selected' \in OnTab(tab, mine, near)
        /\ detail' = IF selected' = NoJob \/ calls[1].then = "clear" THEN NoDetail ELSE detail
        /\ calls' = IF selected' \in {selected, NoJob} THEN after ELSE Append(after, GetDetail(selected'))
    BY <2>4
  <2>6. selected' \in Jobs \union {NoJob}
    BY <1>1, AnsweredTyping DEF ConsoleKnown, ConsoleTypes
  <2>7. Known(after)
    BY <1>3, <1>10, KnownAppend
  <2>8. Follow(calls[1]) = calls[1].then
    BY <2>1 DEF Follow
  <2>9. calls[1].then \in Jobs => calls[1].then = selected
    BY <1>1, <2>8 DEF SelectedStays, Followed
  <2>10. Showing(after, selected, detail)
    <3>1. CASE calls[1].then \in Jobs
      BY <1>3, <1>10, <2>9, <3>1, ShowingAppend
    <3>2. CASE calls[1].then \notin Jobs
      BY <1>6, <2>1, <3>2
    <3> QED
      BY <3>1, <3>2
  <2>11. calls[1].then \notin Jobs => after = rest
    OBVIOUS
  <2>12. calls[1].then \in Jobs => after = Append(rest, GetDetail(calls[1].then))
    OBVIOUS
  <2> HIDE DEF mine, after
  <2>13. Showing(calls', selected', detail')
    <3>1. CASE selected' = NoJob
      BY <3>1 DEF Showing
    <3>2. CASE selected' = selected /\ selected' # NoJob
      BY <2>5, <2>10, <3>2 DEF Showing
    <3>3. CASE selected' \notin {selected, NoJob}
      BY <1>10, <2>5, <2>6, <2>7, <3>3, ShowingAppend
    <3> QED
      BY <3>1, <3>2, <3>3
  <2>14. tab' = "active" => selected' \in mine \union {NoJob}
    BY <1>2, <2>1, <2>5 DEF OnTab, Preferred
  <2>15. CASE NoneFollowed(rest) /\ calls[1].then \notin Jobs
    <3>1. NoneFollowed(calls')
      <4>1. CASE calls' = rest
        BY <2>15, <4>1
      <4>2. CASE selected' \in Jobs /\ calls' = Append(rest, GetDetail(selected'))
        BY <1>3, <1>10, <2>15, <4>2, NoneAppend
      <4> QED
        BY <2>5, <2>6, <2>11, <2>15, <4>1, <4>2
    <3> QED
      BY <1>1, <1>7, <2>2, <2>3, <2>13, <2>14, <3>1 DEF SelectedStays, NoneFollowed, Followed
  <2>16. CASE ~NoneFollowed(rest) \/ calls[1].then \in Jobs
    <3>1. tab = "active" /\ selected \in Jobs /\ selected \in Mine \ Over
      <4>1. CASE calls[1].then \in Jobs
        BY <1>1, <2>1, <2>8, <4>1 DEF SelectedStays, Followed
      <4>2. CASE ~NoneFollowed(rest)
        <5>1. PICK m \in DOMAIN rest : Follow(rest[m]) \in Jobs
          BY <4>2 DEF NoneFollowed
        <5>2. rest[m].kind = "refresh"
          <6>1. Named(rest[m]) /\ rest[m].kind # "status"
            BY <1>3 DEF Known, AllSent, SentRead, Reads
          <6> QED
            BY <5>1, <6>1, Unfollowed
        <5> QED
          BY <1>4, <5>1, <5>2 DEF Followed
      <4> QED
        BY <2>16, <4>1, <4>2
    <3>2. best = selected
      BY <2>2, <2>20, <3>1 DEF Preferred
    <3>3. near = selected
      BY <2>2, <2>3, <2>4, <3>1, <3>2 DEF Nearer
    <3>4. selected' = selected
      BY <2>2, <2>5, <3>1, <3>3 DEF OnTab
    <3>5. calls' = rest \/ \E j \in Jobs : calls' = Append(rest, GetDetail(j))
      BY <2>5, <2>11, <2>12, <3>4
    <3>6. \A k \in DOMAIN calls' : Followed(calls[k])'
      BY <1>8, <1>10, <2>1, <3>4, <3>5
    <3> QED
      BY <1>1, <1>7, <2>2, <2>3, <2>13, <2>14, <3>6 DEF SelectedStays
  <2> QED
    BY <2>15, <2>16
<1>13. ~RefreshFailed(1)
  BY <1>1 DEF InOrder, RefreshFailed, Reads
<1>14. ASSUME DetailAnswered(1)
       PROVE  SelectedStays' /\ Showing(calls', selected', detail')
  <2>1. /\ calls' = rest /\ UNCHANGED <<tab, lists, selected>>
        /\ calls[1].kind = "detail" /\ detail' = calls[1].shown
    BY <1>14 DEF DetailAnswered, rest
  <2>2. calls[1].shown.job = calls[1].job
    BY <1>2, <1>14 DEF DetailAnswered, Named
  <2> QED
    BY <1>6, <1>8, <1>9, <2>1, <2>2
<1>15. ASSUME PingAnswered(1)
       PROVE  SelectedStays' /\ Showing(calls', selected', detail')
  <2>1. /\ calls[1].kind = "ping" /\ UNCHANGED <<tab, lists, selected, detail>>
        /\ \/ selected = NoJob /\ calls' = rest
           \/ selected \in Jobs /\ calls' = Append(rest, GetDetail(selected))
    BY <1>2, <1>15 DEF PingAnswered, rest
  <2>2. SelectedStays'
    BY <1>8, <1>9, <1>10, <2>1
  <2>3. Showing(calls', selected', detail')
    <3>1. CASE selected = NoJob
      BY <2>1, <3>1 DEF Showing
    <3>2. CASE selected \in Jobs /\ calls' = Append(rest, GetDetail(selected))
      <4>1. Showing(Append(rest, GetDetail(selected)), selected, detail)
        BY <1>3, <1>10, <3>2, ShowingAppend
      <4> QED
        BY <2>1, <3>2, <4>1
    <3> QED
      BY <2>1, <3>1, <3>2
  <2> QED
    BY <2>2, <2>3
<1>16. ASSUME NEW then \in Jobs \union {"nothing", "idle", "clear"},
              calls' = Append(rest, RefreshCall(then)), calls[1].kind # "detail",
              UNCHANGED <<tab, lists, selected, detail>>,
              then \in Jobs => then = Follow(calls[1]) /\ calls[1].pc = "done"
       PROVE  SelectedStays' /\ Showing(calls', selected', detail')
  <2>1. then \in Jobs => /\ tab = "active" /\ selected = then /\ selected \in Mine \ Over
    BY <1>1, <1>16 DEF SelectedStays, Followed
  <2>2. SelectedStays'
    BY <1>8, <1>9, <1>11, <1>16, <2>1
  <2>3. Showing(calls', selected', detail')
    BY <1>3, <1>6, <1>11, <1>16, ShowingAppend
  <2> QED
    BY <2>2, <2>3
<1>17. ASSUME PresenceAnswered(1) \/ ReleaseAnswered(1)
       PROVE  SelectedStays' /\ Showing(calls', selected', detail')
  BY <1>16, <1>17, Unfollowed DEF PresenceAnswered, ReleaseAnswered, rest
<1>18. ASSUME StatusAnswered(1)
       PROVE  SelectedStays' /\ Showing(calls', selected', detail')
  <2> DEFINE then == IF calls[1].stage = "over" THEN "clear" ELSE calls[1].job
  <2>1. /\ calls' = Append(rest, RefreshCall(then)) /\ calls[1].kind = "status"
        /\ calls[1].pc = "done" /\ UNCHANGED <<tab, lists, selected, detail>>
    BY <1>18 DEF StatusAnswered, rest
  <2>2. then \in Jobs \union {"nothing", "idle", "clear"}
    BY <1>2, <2>1 DEF Named
  <2>3. then \in Jobs => then = Follow(calls[1])
    BY <2>1, Unfollowed DEF Follow
  <2> HIDE DEF then
  <2> QED
    BY <1>16, <2>1, <2>2, <2>3
<1>19. ASSUME ClaimAnswered(1)
       PROVE  SelectedStays' /\ Showing(calls', selected', detail')
  <2> DEFINE q == Append(rest, RefreshCall("idle"))
  <2>1. PICK j \in OnTab("active", lists.mine, calls[1].job) : Select(j, q)
    BY <1>19 DEF ClaimAnswered, rest
  <2>2. /\ calls[1].kind = "claim" /\ calls[1].job \in Jobs
        /\ UNCHANGED <<job, lists>> /\ tab' = "active"
    BY <1>2, <1>19 DEF ClaimAnswered, Named
  <2>3. j \in lists.mine \union {NoJob} /\ j \in Jobs \union {NoJob}
    BY <1>2, <2>1, <2>2 DEF OnTab, Preferred
  <2>4. Known(q) /\ Showing(q, selected, detail)
    BY <1>3, <1>6, <1>11, <2>2, KnownAppend, ShowingAppend
  <2>5. Showing(calls', selected', detail')
    BY <2>1, <2>3, <2>4, SelectShowing
  <2>6. NoneFollowed(q)
    <3>1. NoneFollowed(rest)
      BY <1>5, <2>2 DEF Reads
    <3>2. Follow(RefreshCall("idle")) \notin Jobs
      BY Unfollowed
    <3> QED
      BY <1>3, <1>11, <3>1, <3>2, NoneAppend
  <2> HIDE DEF q
  <2>7. NoneFollowed(calls')
    <3>1. CASE calls' = q
      BY <2>6, <3>1
    <3>2. CASE j \in Jobs /\ calls' = Append(q, GetDetail(j))
      BY <1>10, <2>4, <2>6, <3>2, NoneAppend
    <3> QED
      BY <2>1, <2>3, <3>1, <3>2 DEF Select
  <2>8. selected' = j
    BY <2>1 DEF Select
  <2>9. SelectedStays'
    BY <1>1, <1>2, <1>7, <2>2, <2>3, <2>7, <2>8 DEF SelectedStays, NoneFollowed, Followed
  <2> QED
    BY <2>5, <2>9
<1>20. ASSUME CallFailed(1)
       PROVE  SelectedStays' /\ Showing(calls', selected', detail')
  <2>1. /\ calls' = rest /\ calls[1].pc = "refused" /\ UNCHANGED <<tab, lists, selected, detail>>
    BY <1>20 DEF CallFailed, rest
  <2>2. calls[1].kind # "detail"
    BY <1>1, <2>1 DEF InOrder, Reads
  <2> QED
    BY <1>6, <1>8, <1>9, <2>1, <2>2
<1> QED
  BY <1>1, <1>12, <1>13, <1>14, <1>15, <1>17, <1>18, <1>19, <1>20 DEF Answered

\* No job comes back from being over.
LEMMA PoolStep ==
    ASSUME ConsoleKnown, [ConsoleNext]_consoleVars, Jobs \ Over \subseteq consoleMode.pool
    PROVE  (Jobs \ Over \subseteq consoleMode.pool)'
<1>1. consoleMode' = consoleMode
  BY DEF ConsoleNext, consoleVars, ShowTab, PickCard, Claim, Advance, TogglePresence, Release,
     ReloadLists, Press, PollRefresh, GpsFix, ReadServed, WriteServed, Unreached, Answered,
     Refreshed, RefreshFailed, DetailAnswered, PingAnswered, PresenceAnswered, ClaimAnswered,
     ReleaseAnswered, StatusAnswered, CallFailed, Interfere
<1>2. job \in [Jobs -> [holder: Holder, stage: Stage]]
  BY DEF ConsoleKnown, ConsoleTypes
<1>3. \/ job' = job
      \/ \E i \in DOMAIN calls : WriteServed(i)
      \/ \E j \in consoleMode.pool : Interfere(j)
  BY DEF ConsoleNext, consoleVars, ShowTab, PickCard, Claim, Advance, TogglePresence, Release,
     ReloadLists, Press, PollRefresh, GpsFix, ReadServed, Unreached, Answered,
     Refreshed, RefreshFailed, DetailAnswered, PingAnswered, PresenceAnswered, ClaimAnswered,
     ReleaseAnswered, StatusAnswered, CallFailed
<1>4. \A j \in Jobs : job[j].stage = "over" => job'[j].stage = "over"
  <2>1. CASE job' = job
    BY <2>1
  <2>2. ASSUME NEW i \in DOMAIN calls, WriteServed(i)
        PROVE  \A j \in Jobs : job[j].stage = "over" => job'[j].stage = "over"
    <3>2. CASE /\ job[calls[i].job].stage # "over"
               /\ job' = [job EXCEPT ![calls[i].job].stage = calls[i].stage]
      BY <1>2, <3>2
    <3>3. CASE job' = job
      BY <3>3
    <3>4. CASE job' = [job EXCEPT ![calls[i].job].holder = "me"]
      BY <1>2, <3>4
    <3>5. CASE job' = [job EXCEPT ![calls[i].job].holder = "nobody"]
      BY <1>2, <3>5
    <3> QED
      BY <2>2, <3>2, <3>3, <3>4, <3>5 DEF WriteServed
  <2>3. ASSUME NEW k \in consoleMode.pool, Interfere(k)
        PROVE  \A j \in Jobs : job[j].stage = "over" => job'[j].stage = "over"
    BY <1>2, <2>3 DEF Interfere
  <2> QED
    BY <1>3, <2>1, <2>2, <2>3
<1> QED
  BY <1>1, <1>4 DEF Over

\* Every step keeps the invariant.
LEMMA ShownStep ==
    ASSUME ConsoleKnown, ConsoleInv, ShownInv, [ConsoleNext]_consoleVars
    PROVE  ShownInv'
<1>1. (Jobs \ Over \subseteq consoleMode.pool)'
  BY PoolStep DEF ShownInv
<1>2. CASE UNCHANGED consoleVars
  BY <1>2 DEF consoleVars, ShownInv, Alone, SelectedStays, MineRead, Followed, Mine, Over
<1>3. CASE ConsoleNext
  <2>1. consoleMode' = consoleMode
    BY <1>3 DEF ConsoleNext, ShowTab, PickCard, Claim, Advance, TogglePresence, Release,
       ReloadLists, Press, PollRefresh, GpsFix, ReadServed, WriteServed, Unreached, Answered,
       Refreshed, RefreshFailed, DetailAnswered, PingAnswered, PresenceAnswered, ClaimAnswered,
       ReleaseAnswered, StatusAnswered, CallFailed, Interfere
  <2> SUFFICES ASSUME Alone
               PROVE  SelectedStays' /\ Showing(calls', selected', detail')
    BY <1>1, <2>1 DEF ShownInv, Alone
  <2>2. /\ InOrder(calls) /\ SelectedStays /\ Showing(calls, selected, detail)
        /\ Jobs \ Over \subseteq consoleMode.pool
    BY DEF ConsoleInv, ShownInv, Alone
  <2>3. CASE \/ \E t \in {"active", "available", "history"} : ShowTab(t)
             \/ \E j \in Jobs : PickCard(j) \/ Claim(j)
             \/ \E s \in Stage : Advance(s)
             \/ TogglePresence \/ Release \/ ReloadLists \/ PollRefresh \/ GpsFix
    BY <2>2, <2>3, RiderShown
  <2>4. ASSUME NEW i \in DOMAIN calls, Due(i), ReadServed(i) \/ WriteServed(i)
        PROVE  SelectedStays' /\ Showing(calls', selected', detail')
    BY <2>2, <2>4, ServedShown
  <2>5. ASSUME NEW i \in DOMAIN calls, Answered(i)
        PROVE  SelectedStays' /\ Showing(calls', selected', detail')
    BY <2>2, <2>5, AnsweredShown
  <2> QED
    BY <1>3, <2>3, <2>4, <2>5 DEF ConsoleNext, Unreached, Interfere, Alone
<1> QED
  BY <1>2, <1>3

\* A rider alone with his jobs, who waits for the answers, presses buttons that
\* act on the job whose detail stands next to them: of the details asked for the
\* last is that of the selected job.
THEOREM ControlsAreOfSelected == ConsoleSpec => []ControlsActOnShown
<1>1. ConsoleInit => ConsoleKnown /\ ConsoleInv /\ ShownInv
  <2> SUFFICES ASSUME ConsoleInit
               PROVE  ShownInv
    BY ConsoleStart
  <2>1. Jobs \ Over \subseteq consoleMode.pool
    BY DEF ConsoleInit, Over
  <2>2. \A i \in DOMAIN calls : calls[i] = RefreshCall("nothing")
    BY DEF ConsoleInit
  <2>3. SelectedStays
    BY <2>2, CallShapes, Unfollowed
       DEF ConsoleInit, SelectedStays, MineRead, Followed, Parts
  <2> QED
    BY <2>1, <2>3 DEF ShownInv, Showing, ConsoleInit
<1>2. ConsoleKnown /\ ConsoleInv /\ ShownInv /\ [ConsoleNext]_consoleVars
         => (ConsoleKnown /\ ConsoleInv /\ ShownInv)'
  BY ConsoleTyping, ConsoleStep, ShownStep
<1>3. ShownInv => ControlsActOnShown
  BY DEF ShownInv, Alone, Showing, ControlsActOnShown
<1> QED
  BY <1>1, <1>2, <1>3, PTL DEF ConsoleSpec

----------------------------------------------------------------------------
\* The checkout.
Cart == [kitchen: Kitchens \union {NoKitchen}, items: Contents]
CheckoutState ==
    [server: {"food", "instamart"}, stop: Nat, payment: Payments, coupon: BOOLEAN,
     preview: Body, canPlace: BOOLEAN, loading: BOOLEAN, confirmed: BOOLEAN,
     placing: BOOLEAN, plan: Contents]

\* What a browser may be like does not change.
LEMMA ModeKept == [CheckoutNext]_checkoutVars => checkoutMode' = checkoutMode
  BY DEF CheckoutNext, checkoutVars, OpenMenu, OpenOrder, SelectRestaurant, AddShown,
         EditLine, ChangePayment, ChooseCoupon, ConfirmAddress, MenuAnswered, PreviewAnswered,
         PlanAnswered, SearchDishes, BackToKitchens, Place, OrderServed, OrderPlaced,
         OrderFailed, OpenOrders, OrdersFetched, ReloadPage

\* The pieces of some lines are finitely many; there are none of an empty cart,
\* and where there is one, a line has it.
LEMMA PiecesAreNat ==
    ASSUME NEW lines \in SUBSET Lines, NEW items \in [Lines -> Nat]
    PROVE  /\ IsFiniteSet(PiecesIn(lines, items))
           /\ Cardinality(PiecesIn(lines, items)) \in Nat
           /\ Cardinality(PiecesIn(lines, items)) > 0 => \E l \in lines : items[l] > 0
<1> DEFINE of(l) == {l} \X (1..items[l])
<1> DEFINE all == {of(l) : l \in lines}
<1>1. IsFiniteSet(lines)
  BY FS_Subset, CheckoutAssumption
<1>2. IsFiniteSet(all)
  <2> DEFINE f == [l \in lines |-> of(l)]
  <2>1. f \in Surjection(lines, all)
    BY DEF Surjection
  <2> QED  BY <1>1, <2>1, FS_Surjection
<1>3. \A l \in lines : IsFiniteSet(of(l))
  <2> SUFFICES ASSUME NEW l \in lines PROVE IsFiniteSet(of(l))
    OBVIOUS
  <2> DEFINE n == items[l]  col == 1..n
  <2>0. n \in Int
    OBVIOUS
  <2> HIDE DEF n
  <2>1. IsFiniteSet(col)
    BY <2>0, FS_Interval
  <2> HIDE DEF col
  <2>2. IsFiniteSet({l} \X col)
    BY <2>1, FS_Singleton, FS_Product, Zenon
  <2> QED  BY <2>2 DEF col, n
<1>4. IsFiniteSet(UNION all)
  BY <1>2, <1>3, FS_UNION
<1>5. PiecesIn(lines, items) = UNION all
  BY DEF PiecesIn
<1>6. Cardinality(UNION all) \in Nat
  BY <1>4, FS_CardinalityType
<1>7. ASSUME Cardinality(UNION all) > 0 PROVE \E l \in lines : items[l] > 0
  <2>1. UNION all # {}
    BY <1>6, <1>7, FS_EmptySet
  <2>2. PICK p : p \in UNION all
    BY <2>1
  <2>3. PICK l \in lines : p \in of(l)
    BY <2>2
  <2>4. PICK n \in 1..items[l] : p = <<l, n>>
    BY <2>3
  <2> QED  BY <2>4
<1> QED  BY <1>4, <1>5, <1>6, <1>7

\* Of a cart whose lines without a variant have all the pieces of their items,
\* an item has as many pieces.
LEMMA PiecesPlanned ==
    ASSUME NEW items \in Contents, NEW item \in Lines, ItemOf[item] = item,
           NEW planned \in [Lines -> Nat],
           \A l \in Lines : planned[l] = IF l = ItemOf[l] THEN PiecesOf(l, items) ELSE 0
    PROVE  PiecesOf(item, planned) = PiecesOf(item, items)
<1> DEFINE n == planned[item]
<1>1. PiecesIn(Variants(item), planned) = {item} \X (1..n)
  <2>1. \A l \in Variants(item) : l # item => {l} \X (1..planned[l]) = {}
    <3> SUFFICES ASSUME NEW l \in Variants(item), l # item PROVE {l} \X (1..planned[l]) = {}
      OBVIOUS
    <3>1. planned[l] = 0
      BY DEF Variants
    <3>2. 1..0 = {}
      OBVIOUS
    <3> QED  BY <3>1, <3>2
  <2>2. item \in Variants(item)
    BY DEF Variants
  <2> QED  BY <2>1, <2>2 DEF PiecesIn
<1>2. Cardinality({item}) = 1 /\ IsFiniteSet({item})
  BY FS_Singleton
<1>3. Cardinality(1..n) = n /\ IsFiniteSet(1..n)
  BY FS_Interval
<1>4. Cardinality({item} \X (1..n)) = 1 * n
  <2> DEFINE col == 1..n  row == {item}
  <2> HIDE DEF col, row
  <2>1. IsFiniteSet(row) /\ IsFiniteSet(col) /\ Cardinality(row) = 1 /\ Cardinality(col) = n
    BY <1>2, <1>3 DEF col, row
  <2>2. Cardinality(row \X col) = Cardinality(row) * Cardinality(col)
    BY <2>1, FS_Product, Zenon
  <2> QED  BY <2>1, <2>2 DEF col, row
<1>5. n = PiecesOf(item, items)
  OBVIOUS
<1> QED  BY <1>1, <1>4, <1>5 DEF PiecesOf

\* The body of a preview or of an order has its type, is paid as asked, and
\* depends on nothing else the page holds.
LEMMA BodyTyped ==
    ASSUME NEW co \in CheckoutState, NEW c \in Cart
    PROVE  /\ BodyOf(co, c) \in Body /\ BodyOf(co, c).payment = co.payment
           /\ \A d \in CheckoutState :
                 /\ d.server = co.server /\ d.payment = co.payment
                 /\ d.coupon = co.coupon /\ d.stop = co.stop
                 => BodyOf(d, c) = BodyOf(co, c)
<1>1. Empty \in [Lines -> Nat] /\ c.items \in [Lines -> Nat]
  BY CheckoutAssumption DEF Empty, Cart, Contents
<1>2. BodyOf(co, c) \in Body
  <2>1. /\ co.server \in {"food", "instamart"} /\ co.payment \in Payments
        /\ co.coupon \in BOOLEAN /\ {co.stop} \in SUBSET Nat
        /\ c.kitchen \in Kitchens \union {NoKitchen}
    BY DEF CheckoutState, Cart
  <2> QED  BY <1>1, <2>1 DEF BodyOf, Body
<1> QED  BY <1>2 DEF BodyOf

\* An order page just opened.
LEMMA FreshTyped ==
    /\ Empty \in Contents /\ NoBody \in Body
    /\ \A server \in {"food", "instamart"}, stop \in Nat :
          FreshCheckout(server, stop) \in CheckoutState
<1>1. Empty \in Contents /\ Empty \in [Lines -> Nat]
  BY CheckoutAssumption DEF Empty, Contents
<1>2. NoBody \in Body
  BY <1>1 DEF NoBody, Body, Payments
<1> QED  BY <1>1, <1>2 DEF FreshCheckout, CheckoutState, Payments

\* A refresh changes nothing of the page but that it loads.
LEMMA RefreshKeeps ==
    ASSUME NEW co \in CheckoutState, NEW c, Refresh(co, c)
    PROVE  /\ checkout' \in {co, [co EXCEPT !.loading = TRUE]}
           /\ checkout' \in CheckoutState
           /\ checkout'.server = co.server /\ checkout'.stop = co.stop
           /\ checkout'.payment = co.payment /\ checkout'.coupon = co.coupon
           /\ checkout'.plan = co.plan /\ checkout'.placing = co.placing
<1>1. checkout' \in {co, [co EXCEPT !.loading = TRUE]}
  BY DEF Refresh
<1> QED  BY <1>1 DEF CheckoutState

\* The cart and what is asked for it (useCart.ts, Order.tsx).
LEMMA RefreshTyped ==
    CheckoutTypes => \A co \in CheckoutState, c \in Cart :
        Refresh(co, c) => /\ checkout' \in CheckoutState
                          /\ previewAsked' \in Seq(Body) /\ planAsked' \in Seq(Contents)
<1> SUFFICES ASSUME CheckoutTypes, NEW co \in CheckoutState, NEW c \in Cart, Refresh(co, c)
             PROVE  /\ checkout' \in CheckoutState
                    /\ previewAsked' \in Seq(Body) /\ planAsked' \in Seq(Contents)
  OBVIOUS
<1>1. BodyOf(co, c) \in Body
  BY BodyTyped
<1>2. c.items \in Contents
  BY DEF Cart
<1>3. [co EXCEPT !.loading = TRUE] \in CheckoutState
  BY DEF CheckoutState
<1>4. previewAsked \in Seq(Body) /\ planAsked \in Seq(Contents)
  BY DEF CheckoutTypes
<1> DEFINE b == BodyOf(co, c)
<1>5. Append(previewAsked, b) \in Seq(Body) /\ Append(planAsked, c.items) \in Seq(Contents)
  BY <1>1, <1>2, <1>4
<1>6. CASE c.items = Empty
  BY <1>4, <1>6 DEF Refresh
<1>7. CASE c.items # Empty
  <2>1. /\ checkout' = [co EXCEPT !.loading = TRUE]
        /\ previewAsked' = Append(previewAsked, b)
        /\ planAsked' \in {planAsked, Append(planAsked, c.items)}
    BY <1>7 DEF Refresh
  <2> HIDE DEF b
  <2> QED  BY <1>3, <1>4, <1>5, <2>1
<1> QED  BY <1>6, <1>7

\* Nothing has been chosen or asked.
LEMMA CheckoutTypesInit == CheckoutInit => CheckoutTypes
<1> SUFFICES ASSUME CheckoutInit PROVE CheckoutTypes
  OBVIOUS
<1>1. 0 <= Waiting
  BY CheckoutAssumption
<1>2. checkout \in CheckoutState
  BY FreshTyped DEF CheckoutInit
<1>3. /\ <<>> \in Seq(Kitchens) /\ <<>> \in Seq(Body) /\ <<>> \in Seq(Contents)
      /\ <<>> \in Seq(Post) /\ Len(<<>>) = 0
  OBVIOUS
<1>4. cart \in [kitchen: Kitchens \union {NoKitchen}, items: Contents]
  BY FreshTyped DEF CheckoutInit
<1>5. menu \in [server: {"food", "instamart"}, selected: Kitchens \union {NoKitchen},
                 shown: Kitchens \union {NoKitchen}]
  BY DEF CheckoutInit, FreshMenu
<1> QED  BY <1>1, <1>2, <1>3, <1>4, <1>5 DEF CheckoutInit, CheckoutTypes, CheckoutState

\* The menu page.
MenuState == [server: {"food", "instamart"}, selected: Kitchens \union {NoKitchen},
              shown: Kitchens \union {NoKitchen}]

\* A POST whose page is left, or that is served, is one.
LEMMA PostKept ==
    ASSUME NEW post \in Post
    PROVE  /\ [post EXCEPT !.here = FALSE] \in Post
           /\ \A pc \in {"executed", "refused"} : [post EXCEPT !.pc = pc] \in Post
  BY DEF Post

\* A page that is left stays in the types.
LEMMA LeftTyped ==
    ASSUME CheckoutTypes
    PROVE  /\ PageLeft \in Seq(Post) /\ Len(PageLeft) = Len(posts)
           /\ DOMAIN PageLeft = DOMAIN posts
           /\ \A i \in DOMAIN posts : PageLeft[i] = [posts[i] EXCEPT !.here = FALSE]
<1>1. posts \in Seq(Post) /\ Len(posts) \in Nat /\ DOMAIN posts = 1..Len(posts)
  BY DEF CheckoutTypes
<1>2. \A i \in 1..Len(posts) : [posts[i] EXCEPT !.here = FALSE] \in Post
  <2> SUFFICES ASSUME NEW i \in 1..Len(posts) PROVE [posts[i] EXCEPT !.here = FALSE] \in Post
    OBVIOUS
  <2>1. PICK post \in Post : post = posts[i]
    BY <1>1
  <2> QED  BY <2>1, PostKept
<1>3. PageLeft = [i \in 1..Len(posts) |-> [posts[i] EXCEPT !.here = FALSE]]
  BY <1>1 DEF PageLeft
<1> QED  BY <1>1, <1>2, <1>3

\* The steps of the Menu page.
LEMMA MenuTyped ==
    ASSUME CheckoutTypes,
           \/ \E server \in {"food", "instamart"} : OpenMenu(server)
           \/ \E k \in Kitchens : SelectRestaurant(k)
           \/ \E l \in checkoutMode.offered : AddShown(l)
           \/ \E i \in DOMAIN menuAsked : MenuAnswered(i)
           \/ SearchDishes \/ BackToKitchens
    PROVE  CheckoutTypes'
<1>1. menuAsked \in Seq(Kitchens) /\ Len(menuAsked) \in Nat /\ Len(menuAsked) <= Waiting
      /\ Waiting \in Nat
  BY CheckoutAssumption DEF CheckoutTypes
<1>2. menu \in MenuState /\ cart \in Cart /\ checkoutMode \in CheckoutMode
  BY CheckoutAssumption DEF CheckoutTypes, MenuState, Cart
<1>3. CASE \E server \in {"food", "instamart"} : OpenMenu(server)
  <2>1. posts' \in Seq(Post)
    BY <1>3, LeftTyped DEF OpenMenu
  <2>2. menu' \in MenuState
    BY <1>3 DEF OpenMenu, FreshMenu, MenuState
  <2> QED  BY <1>1, <1>3, <2>1, <2>2 DEF OpenMenu, DropAsked, CheckoutTypes, MenuState
<1>4. CASE \E k \in Kitchens : SelectRestaurant(k)
  <2>1. PICK k \in Kitchens : SelectRestaurant(k)
    BY <1>4
  <2>2. menu' \in MenuState
    BY <1>2, <2>1 DEF SelectRestaurant, MenuState
  <2>3. menuAsked' \in Seq(Kitchens) /\ Len(menuAsked') <= Waiting
    BY <1>1, <2>1 DEF SelectRestaurant
  <2>4. cart' \in Cart
    BY <2>1, FreshTyped DEF SelectRestaurant, SetRestaurant, Cart
  <2> QED
    BY <2>1, <2>2, <2>3, <2>4 DEF SelectRestaurant, ordersVars, CheckoutTypes, MenuState, Cart
<1>5. CASE \E l \in checkoutMode.offered : AddShown(l)
  <2>1. PICK l \in Lines : AddShown(l)
    BY <1>2, <1>5 DEF CheckoutMode
  <2>2. cart.items \in [Lines -> 0..MaxQuantity] /\ MaxQuantity \in Nat
    BY <1>2, CheckoutAssumption DEF Cart, Contents
  <2>3. cart.items[l] + 1 \in 0..MaxQuantity
    BY <2>1, <2>2 DEF AddShown, AddItem
  <2>4. cart' = [cart EXCEPT !.items = [cart.items EXCEPT ![l] = cart.items[l] + 1]]
    BY <2>1, <1>2 DEF AddShown, AddItem, Cart
  <2>5. [cart.items EXCEPT ![l] = cart.items[l] + 1] \in Contents
    BY <2>2, <2>3 DEF Contents
  <2>6. cart' \in Cart
    BY <2>4, <2>5, <1>2 DEF Cart
  <2> QED  BY <2>1, <2>6 DEF AddShown, ordersVars, CheckoutTypes, Cart
<1>6. CASE \E i \in DOMAIN menuAsked : MenuAnswered(i)
  <2>1. PICK i \in DOMAIN menuAsked : MenuAnswered(i)
    BY <1>6
  <2>2. menuAsked[i] \in Kitchens /\ i \in 1..Len(menuAsked)
    BY <1>1
  <2>3. menu' \in MenuState
    BY <1>2, <2>1, <2>2 DEF MenuAnswered, MenuState
  <2>4. menuAsked' \in Seq(Kitchens) /\ Len(menuAsked') = Len(menuAsked) - 1
    BY <1>1, <2>1, <2>2, RemovedAt DEF MenuAnswered
  <2> QED  BY <1>1, <2>1, <2>3, <2>4 DEF MenuAnswered, ordersVars, CheckoutTypes, MenuState
<1>7. CASE SearchDishes
  <2>1. menu.selected \in Kitchens
    BY <1>2, <1>7 DEF SearchDishes, MenuState
  <2>2. menuAsked' \in Seq(Kitchens) /\ Len(menuAsked') <= Waiting
    BY <1>1, <1>7, <2>1 DEF SearchDishes
  <2> QED  BY <1>7, <2>2 DEF SearchDishes, ordersVars, CheckoutTypes
<1>8. CASE BackToKitchens
  <2>1. menu' \in MenuState
    BY <1>2, <1>8 DEF BackToKitchens, MenuState
  <2> QED  BY <1>8, <2>1 DEF BackToKitchens, ordersVars, CheckoutTypes, MenuState
<1> QED  BY <1>3, <1>4, <1>5, <1>6, <1>7, <1>8

\* What an answered preview does (Order.tsx: refreshPreview).
LEMMA PreviewShape ==
    ASSUME CheckoutTypes, NEW i \in DOMAIN previewAsked, PreviewAnswered(i)
    PROVE  \E then \in CheckoutState :
             /\ checkout' = then
             /\ then.server = checkout.server /\ then.stop = checkout.stop
             /\ then.coupon = checkout.coupon
             /\ then.plan = checkout.plan /\ then.placing = checkout.placing
             /\ \/ /\ then.payment # checkout.payment /\ cart.items # Empty
                   /\ then.loading
                   /\ previewAsked' = Append(RemoveAt(previewAsked, i), BodyOf(then, cart))
                \/ /\ then.payment = checkout.payment \/ cart.items = Empty
                   /\ then.canPlace => then.preview = previewAsked[i]
                   /\ previewAsked' = RemoveAt(previewAsked, i)
<1> DEFINE rest == RemoveAt(previewAsked, i)
<1>1. /\ checkout \in CheckoutState /\ previewAsked[i] \in Body
      /\ previewAsked[i].payment \in Payments /\ NoBody \in Body
  <2>1. checkout \in CheckoutState
    BY DEF CheckoutTypes, CheckoutState
  <2>2. PICK b \in Body : b = previewAsked[i]
    BY DEF CheckoutTypes
  <2>3. b.payment \in Payments
    BY DEF Body
  <2> QED  BY <2>1, <2>2, <2>3, FreshTyped
<1>2. ASSUME NEW ok \in BOOLEAN, NEW p \in {previewAsked[i].payment, "COD"},
             LET again == p # checkout.payment /\ cart.items # Empty
                 then == [checkout EXCEPT !.preview = previewAsked[i], !.canPlace = ok,
                                          !.payment = p, !.loading = again]
             IN  /\ checkout' = then
                 /\ previewAsked' = IF again THEN Append(rest, BodyOf(then, cart)) ELSE rest
      PROVE  \E then \in CheckoutState :
             /\ checkout' = then
             /\ then.server = checkout.server /\ then.stop = checkout.stop
             /\ then.coupon = checkout.coupon
             /\ then.plan = checkout.plan /\ then.placing = checkout.placing
             /\ \/ /\ then.payment # checkout.payment /\ cart.items # Empty
                   /\ then.loading
                   /\ previewAsked' = Append(rest, BodyOf(then, cart))
                \/ /\ then.payment = checkout.payment \/ cart.items = Empty
                   /\ then.canPlace => then.preview = previewAsked[i]
                   /\ previewAsked' = rest
  <2> DEFINE again == p # checkout.payment /\ cart.items # Empty
             then == [checkout EXCEPT !.preview = previewAsked[i], !.canPlace = ok,
                                      !.payment = p, !.loading = again]
  <2>1. p \in Payments /\ again \in BOOLEAN
    BY <1>1 DEF Payments
  <2> HIDE DEF again
  <2>2. /\ then \in CheckoutState /\ then.server = checkout.server
        /\ then.stop = checkout.stop /\ then.coupon = checkout.coupon
        /\ then.plan = checkout.plan /\ then.placing = checkout.placing
        /\ then.payment = p /\ then.loading = again /\ then.preview = previewAsked[i]
    BY <1>1, <2>1 DEF CheckoutState
  <2>3. /\ checkout' = then
        /\ previewAsked' = IF again THEN Append(rest, BodyOf(then, cart)) ELSE rest
    BY <1>2 DEF again
  <2> HIDE DEF rest, then
  <2>4. PICK t \in CheckoutState : t = then
    BY <2>2
  <2> QED  BY <2>2, <2>3, <2>4 DEF again
<1>3. CASE /\ checkout' = [checkout EXCEPT !.preview = NoBody, !.canPlace = FALSE,
                                           !.loading = FALSE]
           /\ previewAsked' = rest
  <2> DEFINE then == [checkout EXCEPT !.preview = NoBody, !.canPlace = FALSE, !.loading = FALSE]
  <2>1. /\ then \in CheckoutState /\ then.server = checkout.server
        /\ then.stop = checkout.stop /\ then.coupon = checkout.coupon
        /\ then.plan = checkout.plan /\ then.placing = checkout.placing
        /\ then.payment = checkout.payment /\ ~then.canPlace
    BY <1>1 DEF CheckoutState
  <2>2. PICK t \in CheckoutState : t = then
    BY <2>1
  <2> HIDE DEF then
  <2>3. checkout' = t
    BY <1>3, <2>2 DEF then
  <2> QED  BY <1>3, <2>1, <2>2, <2>3
<1> HIDE DEF rest
<1> QED  BY <1>2, <1>3 DEF PreviewAnswered, rest

\* The steps of the Order page up to the place button.
LEMMA OrderPageTyped ==
    ASSUME CheckoutTypes,
           \/ \E server \in {"food", "instamart"}, stop \in 1..checkoutMode.stops :
                 OpenOrder(server, stop)
           \/ \E l \in Lines, q \in 0..MaxQuantity : EditLine(l, q)
           \/ \E p \in Payments : ChangePayment(p)
           \/ \E on \in BOOLEAN : ConfirmAddress(on) \/ ChooseCoupon(on)
           \/ \E i \in DOMAIN previewAsked : PreviewAnswered(i)
           \/ \E i \in DOMAIN planAsked : PlanAnswered(i)
    PROVE  CheckoutTypes'
<1>1. checkout \in CheckoutState /\ cart \in Cart
  BY DEF CheckoutTypes, CheckoutState, Cart
<1>2. CASE \E server \in {"food", "instamart"}, stop \in 1..checkoutMode.stops :
              OpenOrder(server, stop)
  <2>1. PICK server \in {"food", "instamart"}, stop \in 1..checkoutMode.stops :
             OpenOrder(server, stop)
    BY <1>2
  <2>2. stop \in Nat
    BY CheckoutAssumption DEF CheckoutTypes, CheckoutMode
  <2>3. Refresh(FreshCheckout(server, stop), cart) /\ FreshCheckout(server, stop) \in CheckoutState
    BY <2>1, <2>2, FreshTyped DEF OpenOrder
  <2>4. /\ checkout' \in CheckoutState
        /\ previewAsked' \in Seq(Body) /\ planAsked' \in Seq(Contents)
    BY <1>1, <2>3, RefreshTyped
  <2>5. 0 <= Waiting
    BY CheckoutAssumption
  <2> QED  BY <2>1, <2>4, <2>5 DEF OpenOrder, ordersVars, CheckoutTypes, CheckoutState
<1>3. CASE \E l \in Lines, q \in 0..MaxQuantity : EditLine(l, q)
  <2>1. PICK l \in Lines, q \in 0..MaxQuantity : EditLine(l, q)
    BY <1>3
  <2>2. cart' \in Cart
    BY <1>1, <2>1 DEF EditLine, UpdateQuantity, Cart, Contents
  <2>3. Refresh(checkout, cart')
    BY <2>1 DEF EditLine
  <2>4. /\ checkout' \in CheckoutState
        /\ previewAsked' \in Seq(Body) /\ planAsked' \in Seq(Contents)
    BY <1>1, <2>2, <2>3, RefreshTyped
  <2> QED  BY <2>1, <2>2, <2>4 DEF EditLine, ordersVars, CheckoutTypes, CheckoutState, Cart
<1>4. ASSUME NEW co \in CheckoutState, Refresh(co, cart),
             UNCHANGED <<cart, menu, menuAsked, ordersVars, screen, bought, checkoutMode>>
      PROVE  CheckoutTypes'
  <2>1. /\ checkout' \in CheckoutState
        /\ previewAsked' \in Seq(Body) /\ planAsked' \in Seq(Contents)
    BY <1>1, <1>4, RefreshTyped
  <2> QED  BY <1>4, <2>1 DEF ordersVars, CheckoutTypes, CheckoutState
<1>5. CASE \E p \in Payments : ChangePayment(p)
  <2>1. PICK p \in Payments : ChangePayment(p)
    BY <1>5
  <2>2. [checkout EXCEPT !.payment = p] \in CheckoutState
    BY <1>1 DEF CheckoutState
  <2> QED  BY <1>4, <2>1, <2>2 DEF ChangePayment
<1>6. CASE \E on \in BOOLEAN : ChooseCoupon(on)
  <2>1. PICK on \in BOOLEAN : ChooseCoupon(on)
    BY <1>6
  <2>2. [checkout EXCEPT !.coupon = on] \in CheckoutState
    BY <1>1 DEF CheckoutState
  <2> QED  BY <1>4, <2>1, <2>2 DEF ChooseCoupon
<1>7. CASE \E on \in BOOLEAN : ConfirmAddress(on)
  <2>1. checkout' \in CheckoutState
    BY <1>1, <1>7 DEF ConfirmAddress, CheckoutState
  <2> QED  BY <1>7, <2>1 DEF ConfirmAddress, ordersVars, CheckoutTypes, CheckoutState
<1>8. CASE \E i \in DOMAIN previewAsked : PreviewAnswered(i)
  <2>1. PICK i \in DOMAIN previewAsked : PreviewAnswered(i)
    BY <1>8
  <2>2. RemoveAt(previewAsked, i) \in Seq(Body)
    BY RemovedAt DEF CheckoutTypes
  <2>3. checkout' \in CheckoutState /\ previewAsked' \in Seq(Body)
    <3>1. PICK then \in CheckoutState :
             /\ checkout' = then
             /\ \/ previewAsked' = Append(RemoveAt(previewAsked, i), BodyOf(then, cart))
                \/ previewAsked' = RemoveAt(previewAsked, i)
      BY <2>1, PreviewShape
    <3>2. BodyOf(then, cart) \in Body
      BY <1>1, BodyTyped
    <3> QED  BY <2>2, <3>1, <3>2
  <2> QED  BY <2>1, <2>3 DEF PreviewAnswered, ordersVars, CheckoutTypes, CheckoutState
<1>9. CASE \E i \in DOMAIN planAsked : PlanAnswered(i)
  <2>1. PICK i \in DOMAIN planAsked : PlanAnswered(i)
    BY <1>9
  <2>2. planAsked[i] \in Contents /\ RemoveAt(planAsked, i) \in Seq(Contents)
    BY RemovedAt DEF CheckoutTypes
  <2>3. checkout' \in CheckoutState
    BY <1>1, <2>1, <2>2, FreshTyped DEF PlanAnswered, CheckoutState
  <2> QED  BY <2>1, <2>2, <2>3 DEF PlanAnswered, ordersVars, CheckoutTypes, CheckoutState
<1> QED  BY <1>2, <1>3, <1>5, <1>6, <1>7, <1>8, <1>9

\* The items of an order hop by hop are numbers of pieces, and it goes to stops.
LEMMA PlannedTyped ==
    ASSUME CheckoutTypes
    PROVE  /\ PlannedItems \in [Lines -> Nat] /\ MultiHop \in BOOLEAN
           /\ BestStops \in SUBSET Nat
<1>1. checkout.plan \in [Lines -> Nat]
  BY CheckoutAssumption DEF CheckoutTypes, Contents
<1>2. \A l \in Lines : PiecesOf(l, checkout.plan) \in Nat
  <2> SUFFICES ASSUME NEW l \in Lines PROVE PiecesOf(l, checkout.plan) \in Nat
    OBVIOUS
  <2>1. Variants(l) \in SUBSET Lines
    BY DEF Variants
  <2> QED  BY <1>1, <2>1, PiecesAreNat DEF PiecesOf
<1>3. BestStops \in SUBSET Nat
  BY DEF BestStops
<1> QED  BY <1>2, <1>3 DEF PlannedItems, MultiHop

\* What Place posts (Order.tsx: handlePlaceOrder).
LEMMA PlaceShape ==
    ASSUME CheckoutTypes, Place
    PROVE  /\ OrderBody \in Body /\ Len(posts') = Len(posts) + 1
           /\ posts' \in Seq(Post)
           /\ \A i \in DOMAIN posts : posts'[i] = posts[i]
           /\ posts'[Len(posts) + 1] = [pc |-> "sent", sent |-> OrderBody,
                   shown |-> checkout.preview, hops |-> MultiHop, here |-> TRUE, again |-> bought]
<1> DEFINE b == BodyOf(checkout, cart)
           post == [pc |-> "sent", sent |-> OrderBody, shown |-> checkout.preview,
                    hops |-> MultiHop, here |-> TRUE, again |-> bought]
<1>1. checkout \in CheckoutState /\ cart \in Cart /\ posts \in Seq(Post) /\ bought \in BOOLEAN
      /\ checkout.preview \in Body
  BY DEF CheckoutTypes, CheckoutState, Cart
<1>2. b \in Body
  BY <1>1, BodyTyped
<1>3. OrderBody \in {b, [b EXCEPT !.items = PlannedItems, !.to = BestStops]}
  BY DEF OrderBody
<1> HIDE DEF b
<1>4. OrderBody \in Body
  BY <1>2, <1>3, PlannedTyped DEF Body
<1>5. MultiHop \in BOOLEAN
  BY PlannedTyped
<1>6. post \in Post
  BY <1>1, <1>4, <1>5 DEF Post
<1>7. posts' = Append(posts, post)
  BY DEF Place
<1> HIDE DEF post
<1>8. /\ posts' \in Seq(Post) /\ Len(posts') = Len(posts) + 1
      /\ \A i \in 1..Len(posts) : posts'[i] = posts[i]
      /\ posts'[Len(posts) + 1] = post
  BY <1>1, <1>6, <1>7
<1>9. DOMAIN posts = 1..Len(posts)
  BY <1>1
<1> QED  BY <1>4, <1>8, <1>9 DEF post

\* The steps of an order, of the orders page and of a reload.
LEMMA OrderTyped ==
    ASSUME CheckoutTypes,
           \/ \E i \in DOMAIN posts : OrderServed(i) \/ OrderPlaced(i) \/ OrderFailed(i)
           \/ Place \/ OpenOrders \/ OrdersFetched \/ ReloadPage
    PROVE  CheckoutTypes'
<1>1. /\ checkout \in CheckoutState /\ cart \in Cart /\ posts \in Seq(Post)
      /\ bought \in BOOLEAN /\ orderLoading \in BOOLEAN /\ fetching \in Nat
      /\ DOMAIN posts = 1..Len(posts)
  BY DEF CheckoutTypes, CheckoutState, Cart
<1>2. /\ <<>> \in Seq(Kitchens) /\ Len(<<>>) <= Waiting
      /\ <<>> \in Seq(Body) /\ <<>> \in Seq(Contents) /\ <<>> \in Seq(Post)
  BY CheckoutAssumption
<1>3. CASE Place
  <2>1. posts' \in Seq(Post) /\ MultiHop \in BOOLEAN
    BY <1>3, PlaceShape, PlannedTyped
  <2>2. checkout' \in CheckoutState
    BY <1>1, <1>3 DEF Place, CheckoutState
  <2>3. orderLoading' \in BOOLEAN
    BY <1>1, <1>3, <2>1 DEF Place
  <2> QED  BY <1>3, <2>1, <2>2, <2>3 DEF Place, CheckoutTypes, CheckoutState
<1>4. CASE \E i \in DOMAIN posts : OrderServed(i)
  <2>1. PICK i \in 1..Len(posts) : OrderServed(i)
    BY <1>1, <1>4
  <2>2. PICK pc \in {"executed", "refused"} : posts' = [posts EXCEPT ![i].pc = pc]
    BY <2>1 DEF OrderServed
  <2>3. [posts[i] EXCEPT !.pc = pc] \in Post
    <3>1. PICK post \in Post : post = posts[i]
      BY <1>1
    <3> QED  BY <3>1, PostKept
  <2>4. posts' \in Seq(Post)
    BY <1>1, <2>2, <2>3
  <2>5. bought' \in BOOLEAN
    BY <1>1, <2>1 DEF OrderServed
  <2> QED  BY <2>1, <2>4, <2>5 DEF OrderServed, CheckoutTypes
<1>5. CASE \E i \in DOMAIN posts : OrderPlaced(i)
  <2>1. PICK i \in 1..Len(posts) : OrderPlaced(i)
    BY <1>1, <1>5
  <2>2. posts' \in Seq(Post)
    BY <1>1, <2>1, LeftTyped, RemovedAt DEF OrderPlaced
  <2>3. cart' \in Cart
    BY <2>1, FreshTyped DEF OrderPlaced, ClearCart, Cart
  <2>4. bought' \in BOOLEAN /\ orderLoading' \in BOOLEAN /\ fetching' \in Nat
    <3>1. bought' \in BOOLEAN
      BY <2>1 DEF OrderPlaced
    <3>2. \/ orderLoading' = LoadingEnds(i) /\ fetching' = fetching
          \/ orderLoading' = TRUE /\ fetching' = fetching + 1
      <4>1. IF screen = "orders"
            THEN orderLoading' = LoadingEnds(i) /\ fetching' = fetching
            ELSE orderLoading' = TRUE /\ fetching' = fetching + 1
        BY <2>1, Zenon DEF OrderPlaced
      <4> QED  BY <4>1, Zenon
    <3>3. LoadingEnds(i) \in BOOLEAN
      BY <1>1 DEF LoadingEnds
    <3>4. orderLoading' \in BOOLEAN
      BY <3>2, <3>3, Zenon
    <3>5. fetching' \in Nat
      BY <1>1, <3>2
    <3> QED  BY <3>1, <3>4, <3>5
  <2>5. /\ menuAsked' \in Seq(Kitchens) /\ Len(menuAsked') <= Waiting
        /\ previewAsked' \in Seq(Body) /\ planAsked' \in Seq(Contents)
    BY <1>2, <2>1 DEF OrderPlaced, DropAsked
  <2>6. screen' = "orders" /\ UNCHANGED <<menu, checkout, checkoutMode>>
    BY <2>1 DEF OrderPlaced
  <2> QED  BY <2>2, <2>3, <2>4, <2>5, <2>6 DEF CheckoutTypes, Cart
<1>6. CASE \E i \in DOMAIN posts : OrderFailed(i)
  <2>1. PICK i \in 1..Len(posts) : OrderFailed(i)
    BY <1>1, <1>6
  <2>2. posts' \in Seq(Post) /\ posts[i] \in Post
    BY <1>1, <2>1, RemovedAt DEF OrderFailed
  <2>3. orderLoading' \in BOOLEAN
    BY <1>1, <2>1 DEF OrderFailed, LoadingEnds
  <2>4. checkout' \in CheckoutState
    <3>1. PICK on \in BOOLEAN : on = (checkout.placing /\ ~posts[i].here)
      OBVIOUS
    <3>2. checkout' = [checkout EXCEPT !.placing = on]
      BY <2>1, <3>1 DEF OrderFailed
    <3> QED  BY <1>1, <3>2 DEF CheckoutState
  <2> QED  BY <2>1, <2>2, <2>3, <2>4 DEF OrderFailed, CheckoutTypes, CheckoutState
<1>7. CASE OpenOrders
  <2>1. posts' \in Seq(Post) /\ fetching' \in Nat
    BY <1>1, <1>7, LeftTyped DEF OpenOrders
  <2> QED  BY <1>2, <1>7, <2>1 DEF OpenOrders, DropAsked, CheckoutTypes
<1>8. CASE OrdersFetched
  <2>1. fetching' \in Nat
    BY <1>1, <1>8 DEF OrdersFetched
  <2>2. /\ orderLoading' = FALSE
        /\ UNCHANGED <<cart, menu, menuAsked, checkout, previewAsked, planAsked, posts, screen,
                       bought, checkoutMode>>
    BY <1>8 DEF OrdersFetched
  <2>3. /\ cart' \in Cart /\ menu' \in MenuState /\ checkout' \in CheckoutState
        /\ menuAsked' \in Seq(Kitchens) /\ Len(menuAsked') <= Waiting
    BY <1>1, <2>2 DEF CheckoutTypes, MenuState
  <2> QED  BY <2>1, <2>2, <2>3 DEF CheckoutTypes, Cart, MenuState, CheckoutState
<1>9. CASE ReloadPage
  <2>1. checkout' \in CheckoutState
    BY <1>1, <1>9, FreshTyped DEF ReloadPage, CheckoutState
  <2>2. bought' \in BOOLEAN
    BY <1>1, <1>9 DEF ReloadPage
  <2>3. menu' \in MenuState
    BY <1>9 DEF ReloadPage, FreshMenu, MenuState, CheckoutTypes
  <2>4. /\ menuAsked' \in Seq(Kitchens) /\ Len(menuAsked') <= Waiting
        /\ previewAsked' \in Seq(Body) /\ planAsked' \in Seq(Contents) /\ posts' \in Seq(Post)
    BY <1>2, <1>9 DEF ReloadPage, DropAsked
  <2>5. /\ orderLoading' = FALSE /\ fetching' = 0 /\ screen' = "orders"
        /\ UNCHANGED <<cart, checkoutMode>>
    BY <1>9 DEF ReloadPage
  <2> QED  BY <2>1, <2>2, <2>3, <2>4, <2>5 DEF CheckoutTypes, CheckoutState, MenuState
<1> QED  BY <1>3, <1>4, <1>5, <1>6, <1>7, <1>8, <1>9

\* Every step keeps the types.
LEMMA CheckoutTypesStep == CheckoutTypes /\ [CheckoutNext]_checkoutVars => CheckoutTypes'
<1> SUFFICES ASSUME CheckoutTypes, [CheckoutNext]_checkoutVars PROVE CheckoutTypes'
  OBVIOUS
<1>1. CASE UNCHANGED checkoutVars
  BY <1>1 DEF checkoutVars, CheckoutTypes
<1>2. CASE \/ \E server \in {"food", "instamart"}, stop \in 1..checkoutMode.stops :
                 OpenOrder(server, stop)
           \/ \E l \in Lines, q \in 0..MaxQuantity : EditLine(l, q)
           \/ \E p \in Payments : ChangePayment(p)
           \/ \E on \in BOOLEAN : ConfirmAddress(on) \/ ChooseCoupon(on)
           \/ \E i \in DOMAIN previewAsked : PreviewAnswered(i)
           \/ \E i \in DOMAIN planAsked : PlanAnswered(i)
  BY <1>2, OrderPageTyped
<1>3. CASE \/ \E server \in {"food", "instamart"} : OpenMenu(server)
           \/ \E k \in Kitchens : SelectRestaurant(k)
           \/ \E l \in checkoutMode.offered : AddShown(l)
           \/ \E i \in DOMAIN menuAsked : MenuAnswered(i)
           \/ SearchDishes \/ BackToKitchens
  BY <1>3, MenuTyped
<1>4. CASE \/ \E i \in DOMAIN posts : OrderServed(i) \/ OrderPlaced(i) \/ OrderFailed(i)
           \/ Place \/ OpenOrders \/ OrdersFetched \/ ReloadPage
  BY <1>4, OrderTyped
<1> QED  BY <1>1, <1>2, <1>3, <1>4 DEF CheckoutNext

\* The state of the Menu and Order pages, of the cart and of what they wait for
\* is what their code takes it for, for any lines, kitchens and quantities.
THEOREM CheckoutIsTyped == CheckoutSpec => []CheckoutTypes
<1> QED  BY CheckoutTypesInit, CheckoutTypesStep, PTL DEF CheckoutSpec

----------------------------------------------------------------------------
\* Where the button is off, and why: an order under way belongs to the page on
\* show, which is placing; or, once pages may be left, it keeps the orders store
\* loading, whose own requests are out of the way.  Until it is answered it is
\* the only reason why a cart counts as ordered (Order.tsx: handlePlaceOrder,
\* useCart.clearCart, useOrders.placeOrder).
OneUnderWay ==
    /\ Len(posts) = 1 /\ ~posts[1].again
    /\ bought => posts[1].pc = "executed"
    /\ IF Habit("leave") THEN screen # "orders" /\ orderLoading
                         ELSE screen = "order" /\ checkout.placing
OnceInv ==
    ButtonHolds =>
        /\ (posts = <<>> /\ ~bought) \/ OneUnderWay
        /\ ~Habit("look") /\ screen # "orders" => fetching = 0

\* Without its only element a list is empty.
LEMMA LastRemoved ==
    ASSUME NEW S, NEW q \in Seq(S), Len(q) = 1 PROVE RemoveAt(q, 1) = <<>>
<1>1. RemoveAt(q, 1) \in Seq(S) /\ Len(RemoveAt(q, 1)) = 0
  BY RemovedAt
<1> QED  BY <1>1, EmptySeq

\* The circumstances in which the button holds do not change.
LEMMA HoldsKept ==
    [CheckoutNext]_checkoutVars =>
        (ButtonHolds' <=> ButtonHolds) /\ \A h : Habit(h)' <=> Habit(h)
  BY ModeKept DEF ButtonHolds, Habit

\* A cart is posted once, and counts as ordered until it is emptied.
LEMMA OnceStep == CheckoutTypes /\ OnceInv /\ [CheckoutNext]_checkoutVars => OnceInv'
<1> SUFFICES ASSUME CheckoutTypes, OnceInv, [CheckoutNext]_checkoutVars, ButtonHolds
             PROVE  /\ (posts' = <<>> /\ ~bought') \/ OneUnderWay'
                    /\ ~Habit("look") /\ screen' # "orders" => fetching' = 0
  BY HoldsKept DEF OnceInv
<1>0. /\ checkout \in CheckoutState /\ posts \in Seq(Post) /\ bought \in BOOLEAN
      /\ fetching \in Nat /\ orderLoading \in BOOLEAN /\ screen \in {"menu", "order", "orders"}
      /\ Len(posts) \in Nat /\ DOMAIN posts = 1..Len(posts)
  BY DEF CheckoutTypes, CheckoutState
<1>1. /\ (posts = <<>> /\ ~bought) \/ OneUnderWay
      /\ ~Habit("look") /\ screen # "orders" => fetching = 0
  BY DEF OnceInv
<1>2. /\ ~Habit("reload") /\ ~Habit("lost")
      /\ Habit("leave") => ~Habit("look") /\ checkoutMode.stops < 2
      /\ checkoutMode' = checkoutMode
  BY ModeKept DEF ButtonHolds, Habit
<1>3. OneUnderWay' <=>
        /\ Len(posts') = 1 /\ ~posts'[1].again
        /\ bought' => posts'[1].pc = "executed"
        /\ IF Habit("leave") THEN screen' # "orders" /\ orderLoading'
                             ELSE screen' = "order" /\ checkout'.placing
  BY <1>2 DEF OneUnderWay, Habit
<1>4. \A i \in DOMAIN posts : i = 1 /\ OneUnderWay
  BY <1>0, <1>1 DEF OneUnderWay
<1>5. CASE Place
  <2>1. posts = <<>> /\ ~bought
    BY <1>1, <1>5 DEF OneUnderWay, Place, CanPlace
  <2>2. Len(posts') = 1 /\ ~posts'[1].again
    BY <1>5, <2>1, PlaceShape
  <2>3. screen = "order" /\ screen' = "order" /\ bought' = bought /\ fetching' = fetching
    BY <1>5 DEF Place
  <2>4. checkout'.placing
    BY <1>0, <1>5 DEF Place, CheckoutState
  <2>5. Habit("leave") => orderLoading'
    <3> SUFFICES ASSUME Habit("leave") PROVE orderLoading'
      OBVIOUS
    <3>1. ~MultiHop
      BY <1>2, CheckoutAssumption DEF MultiHop, CheckoutTypes, CheckoutMode
    <3> QED  BY <1>5, <3>1 DEF Place
  <2> QED  BY <1>1, <1>3, <2>1, <2>2, <2>3, <2>4, <2>5
<1>6. CASE \E i \in DOMAIN posts : OrderServed(i)
  <2>1. OrderServed(1) /\ OneUnderWay
    BY <1>4, <1>6
  <2>2. posts[1].pc = "sent" /\ ~bought /\ posts[1] \in Post /\ Len(posts) = 1
    BY <1>0, <2>1 DEF OneUnderWay, OrderServed
  <2>3. PICK pc \in {"executed", "refused"} :
           posts' = [posts EXCEPT ![1].pc = pc] /\ (bought' => pc = "executed")
    BY <2>1, <2>2 DEF OrderServed
  <2>4. Len(posts') = 1 /\ posts'[1] = [posts[1] EXCEPT !.pc = pc]
    BY <1>0, <2>2, <2>3
  <2>5. posts'[1].pc = pc /\ posts'[1].again = posts[1].again
    BY <2>2, <2>4 DEF Post
  <2>6. UNCHANGED <<screen, orderLoading, fetching, checkout>>
    BY <2>1 DEF OrderServed
  <2> QED  BY <1>1, <1>3, <2>1, <2>3, <2>4, <2>5, <2>6 DEF OneUnderWay
<1>7. CASE \E i \in DOMAIN posts : OrderPlaced(i)
  <2>1. OrderPlaced(1) /\ Len(posts) = 1
    BY <1>4, <1>7 DEF OneUnderWay
  <2>2. posts' = <<>>
    BY <2>1, LeftTyped, LastRemoved DEF OrderPlaced
  <2>3. ~bought' /\ screen' = "orders"
    BY <2>1 DEF OrderPlaced, ClearCart
  <2> QED  BY <2>2, <2>3
<1>8. CASE \E i \in DOMAIN posts : OrderFailed(i)
  <2>1. OrderFailed(1) /\ OneUnderWay
    BY <1>4, <1>8
  <2>2. posts' = <<>>
    BY <1>0, <2>1, LastRemoved DEF OrderFailed, OneUnderWay
  <2>3. posts[1].pc = "refused" /\ UNCHANGED <<bought, screen, fetching>>
    BY <1>2, <2>1 DEF OrderFailed
  <2> QED  BY <1>1, <2>1, <2>2, <2>3 DEF OneUnderWay
<1>9. CASE \/ \E server \in {"food", "instamart"} : OpenMenu(server)
           \/ \E server \in {"food", "instamart"}, stop \in 1..checkoutMode.stops :
                 OpenOrder(server, stop)
  <2>1. MayLeave /\ UNCHANGED <<fetching, bought, orderLoading>> /\ screen' \in {"menu", "order"}
        /\ posts' \in {posts, PageLeft}
    BY <1>9 DEF OpenMenu, OpenOrder, ordersVars
  <2>2. ~Habit("look") => fetching = 0
    BY <1>0, <1>1, <2>1 DEF MayLeave
  <2>3. CASE posts = <<>>
    <3>1. posts' = <<>>
      <4>1. PageLeft \in Seq(Post) /\ Len(PageLeft) = 0
        BY <2>3, LeftTyped
      <4> QED  BY <2>1, <2>3, <4>1, EmptySeq
    <3>2. ~bought
      BY <1>1, <2>3 DEF OneUnderWay
    <3> QED  BY <2>1, <2>2, <3>1, <3>2
  <2>4. CASE posts # <<>>
    <3>1. Habit("leave") /\ OneUnderWay
      BY <1>1, <2>1, <2>4 DEF MayLeave, UnderWay
    <3>2. posts[1] \in Post /\ 1 \in DOMAIN posts
      BY <1>0, <3>1 DEF OneUnderWay
    <3>3. Len(posts') = 1 /\ posts'[1] \in {posts[1], [posts[1] EXCEPT !.here = FALSE]}
      BY <2>1, <3>1, <3>2, LeftTyped DEF OneUnderWay
    <3>4. posts'[1].again = posts[1].again /\ posts'[1].pc = posts[1].pc
      BY <3>2, <3>3 DEF Post
    <3> QED  BY <1>3, <2>1, <2>2, <3>1, <3>3, <3>4 DEF OneUnderWay
  <2> QED  BY <2>3, <2>4
<1>10. CASE OpenOrders
  <2>1. MayLook /\ screen' = "orders" /\ posts' = PageLeft /\ bought' = bought
    BY <1>10 DEF OpenOrders
  <2>2. posts = <<>> /\ ~bought
    BY <1>1, <1>2, <2>1 DEF MayLook, MayLeave, UnderWay, OneUnderWay
  <2>3. PageLeft \in Seq(Post) /\ Len(PageLeft) = 0
    BY <2>2, LeftTyped
  <2>4. posts' = <<>>
    BY <2>1, <2>3, EmptySeq
  <2> QED  BY <2>1, <2>2, <2>4
<1>11. CASE OrdersFetched
  <2>1. fetching > 0 /\ fetching' = fetching - 1 /\ UNCHANGED <<posts, bought, screen, checkout>>
    BY <1>11 DEF OrdersFetched
  <2>2. ~Habit("look") => screen = "orders"
    BY <1>1, <2>1
  <2> QED  BY <1>1, <1>2, <1>3, <2>1, <2>2 DEF OneUnderWay
<1>12. CASE ReloadPage
  BY <1>2, <1>12 DEF ReloadPage
<1>13. ASSUME UNCHANGED <<ordersVars, screen>>, bought' \in {bought, FALSE},
              checkout'.placing = checkout.placing
       PROVE  /\ (posts' = <<>> /\ ~bought') \/ OneUnderWay'
              /\ ~Habit("look") /\ screen' # "orders" => fetching' = 0
  BY <1>1, <1>3, <1>13 DEF ordersVars, OneUnderWay
<1>14. CASE \/ \E l \in Lines, q \in 0..MaxQuantity : EditLine(l, q)
            \/ \E p \in Payments : ChangePayment(p)
            \/ \E on \in BOOLEAN : ConfirmAddress(on) \/ ChooseCoupon(on)
            \/ \E i \in DOMAIN previewAsked : PreviewAnswered(i)
            \/ \E i \in DOMAIN planAsked : PlanAnswered(i)
  <2>1. UNCHANGED <<ordersVars, screen>> /\ bought' \in {bought, FALSE}
    BY <1>14 DEF EditLine, ChangePayment, ConfirmAddress, ChooseCoupon, PreviewAnswered,
                 PlanAnswered
  <2>2. checkout'.placing = checkout.placing
    <3>1. CASE \E l \in Lines, q \in 0..MaxQuantity : EditLine(l, q)
      <4>1. Refresh(checkout, cart')
        BY <3>1 DEF EditLine
      <4> QED  BY <1>0, <4>1, RefreshKeeps
    <3>2. CASE \E p \in Payments : ChangePayment(p)
      <4>1. PICK p \in Payments : ChangePayment(p)
        BY <3>2
      <4> DEFINE co == [checkout EXCEPT !.payment = p]
      <4>2. co \in CheckoutState /\ co.placing = checkout.placing /\ Refresh(co, cart)
        BY <1>0, <4>1 DEF ChangePayment, CheckoutState
      <4> HIDE DEF co
      <4> QED  BY <4>2, RefreshKeeps
    <3>3. CASE \E on \in BOOLEAN : ChooseCoupon(on)
      <4>1. PICK on \in BOOLEAN : ChooseCoupon(on)
        BY <3>3
      <4> DEFINE co == [checkout EXCEPT !.coupon = on]
      <4>2. co \in CheckoutState /\ co.placing = checkout.placing /\ Refresh(co, cart)
        BY <1>0, <4>1 DEF ChooseCoupon, CheckoutState
      <4> HIDE DEF co
      <4> QED  BY <4>2, RefreshKeeps
    <3>4. CASE \E on \in BOOLEAN : ConfirmAddress(on)
      BY <1>0, <3>4 DEF ConfirmAddress, CheckoutState
    <3>5. CASE \E i \in DOMAIN previewAsked : PreviewAnswered(i)
      BY <3>5, PreviewShape
    <3>6. CASE \E i \in DOMAIN planAsked : PlanAnswered(i)
      BY <1>0, <3>6 DEF PlanAnswered, CheckoutState
    <3> QED  BY <1>14, <3>1, <3>2, <3>3, <3>4, <3>5, <3>6
  <2> QED  BY <1>13, <2>1, <2>2
<1>15. CASE \/ \E k \in Kitchens : SelectRestaurant(k)
            \/ \E l \in checkoutMode.offered : AddShown(l)
            \/ \E i \in DOMAIN menuAsked : MenuAnswered(i)
            \/ SearchDishes \/ BackToKitchens \/ UNCHANGED checkoutVars
  <2>1. UNCHANGED <<ordersVars, screen, checkout>> /\ bought' \in {bought, FALSE}
    BY <1>15 DEF SelectRestaurant, AddShown, MenuAnswered, SearchDishes, BackToKitchens,
                 checkoutVars, ordersVars
  <2> QED  BY <1>13, <2>1
<1> QED  BY <1>5, <1>6, <1>7, <1>8, <1>9, <1>10, <1>11, <1>12, <1>14, <1>15 DEF CheckoutNext

\* A cart is not ordered twice, for any cart, menus and order of the answers,
\* with as many previews, plans and lists of orders in flight as there may be: the
\* button of the page, and for single orders the orders store, keep a second POST
\* away until the cart is cleared.
THEOREM CartOrderedOnce == CheckoutSpec => []OrderedOnce
<1>1. CheckoutInit => CheckoutTypes /\ OnceInv
  BY CheckoutTypesInit DEF CheckoutInit, OnceInv
<1>2. CheckoutTypes /\ OnceInv /\ [CheckoutNext]_checkoutVars => CheckoutTypes' /\ OnceInv'
  BY CheckoutTypesStep, OnceStep
<1>3. CheckoutTypes /\ OnceInv => OrderedOnce
  <2> SUFFICES ASSUME CheckoutTypes, OnceInv, ButtonHolds
               PROVE  Len(posts) <= 1 /\ \A i \in DOMAIN posts : ~posts[i].again
    BY DEF OrderedOnce
  <2>1. posts \in Seq(Post) /\ DOMAIN posts = 1..Len(posts) /\ Len(posts) \in Nat
    BY DEF CheckoutTypes
  <2>2. posts = <<>> \/ OneUnderWay
    BY DEF OnceInv
  <2>3. CASE posts = <<>>
    BY <2>1, <2>3
  <2>4. CASE OneUnderWay
    BY <2>1, <2>4 DEF OneUnderWay
  <2> QED  BY <2>2, <2>3, <2>4
<1> QED  BY <1>1, <1>2, <1>3, PTL DEF CheckoutSpec

----------------------------------------------------------------------------
\* What a page asked for is only waited for on that page; a journey with one
\* stop is not planned.
AwayInv ==
    /\ screen # "order" => previewAsked = <<>> /\ planAsked = <<>>
    /\ screen # "menu" => menuAsked = <<>>
    /\ checkoutMode.stops < 2 => planAsked = <<>> /\ checkout.plan = Empty

\* While edits wait for the answers, the dishes on show are of the kitchen the
\* cart is for.
MenuInv ==
    ~Habit("edit") /\ screen = "menu" =>
        \/ menu.selected = NoKitchen /\ menu.shown = NoKitchen /\ menuAsked = <<>>
        \/ /\ menu.selected = cart.kitchen /\ menu.shown \in {NoKitchen, cart.kitchen}
           /\ \A i \in DOMAIN menuAsked : menuAsked[i] = cart.kitchen

\* The preview that the cart and what was chosen ask for.
Wanted == BodyOf(checkout, cart)

\* While edits wait for the answers, the preview on show is of the cart and the
\* payment method, or the one that is waited for is.
PreviewInv ==
    ~Habit("edit") /\ screen = "order" /\ cart.items # Empty =>
        \/ previewAsked = <<Wanted>> /\ checkout.loading
        \/ previewAsked = <<>> /\ (checkout.canPlace => checkout.preview = Wanted)

\* So is the hop plan.
PlanInv ==
    ~Habit("edit") /\ screen = "order" /\ cart.items # Empty =>
        \/ planAsked = <<cart.items>>
        \/ planAsked = <<>> /\ checkout.plan \in {Empty, cart.items}

\* Without groceries the cart holds what its kitchen sells.
FoodInv ==
    ~Habit("edit") /\ checkoutMode.servers = {"food"} =>
        /\ menu.server = "food" /\ checkout.server = "food"
        /\ \A l \in Lines : cart.items[l] > 0 => SoldBy[ItemOf[l]] = cart.kitchen

\* The stops of a journey are numbered.
LEMMA StopsAreNat == CheckoutTypes => 1..checkoutMode.stops \subseteq Nat
  BY CheckoutAssumption DEF CheckoutTypes, CheckoutMode

\* A list of one request without it.
LEMMA OneRemoved == ASSUME NEW x PROVE RemoveAt(<<x>>, 1) = <<>>
<1> DEFINE q == <<x>>
<1>1. q \in Seq({x}) /\ Len(q) = 1 /\ 1 \in 1..Len(q)
  OBVIOUS
<1> HIDE DEF q
<1>2. RemoveAt(q, 1) = <<>>
  BY <1>1, LastRemoved
<1> QED  BY <1>2 DEF q

\* Every step keeps it: pages left have no requests that they would use.
LEMMA AwayStep == CheckoutTypes /\ AwayInv /\ [CheckoutNext]_checkoutVars => AwayInv'
<1> SUFFICES ASSUME CheckoutTypes, AwayInv, [CheckoutNext]_checkoutVars PROVE AwayInv'
  OBVIOUS
<1>0. checkout \in CheckoutState
  BY DEF CheckoutTypes, CheckoutState
<1>1. ASSUME NEW co \in CheckoutState, NEW c, Refresh(co, c), co.plan \in {checkout.plan, Empty}
      PROVE  checkoutMode.stops < 2 => planAsked' = <<>> /\ checkout'.plan = Empty
  <2> SUFFICES ASSUME checkoutMode.stops < 2 PROVE planAsked' = <<>> /\ checkout'.plan = Empty
    OBVIOUS
  <2>1. planAsked = <<>> /\ co.plan = Empty
    BY <1>1 DEF AwayInv
  <2>2. planAsked' = planAsked
    BY <1>1 DEF Refresh
  <2> QED  BY <1>1, <2>1, <2>2, RefreshKeeps
<1>2. CASE \E server \in {"food", "instamart"} : OpenMenu(server)
  BY <1>2 DEF OpenMenu, DropAsked, AwayInv
<1>3. CASE \E server \in {"food", "instamart"}, stop \in 1..checkoutMode.stops :
              OpenOrder(server, stop)
  <2>1. PICK server \in {"food", "instamart"}, stop \in Nat : OpenOrder(server, stop)
    BY <1>3, StopsAreNat
  <2>2. FreshCheckout(server, stop) \in CheckoutState /\ FreshCheckout(server, stop).plan = Empty
    BY FreshTyped DEF FreshCheckout
  <2>3. checkoutMode.stops < 2 => planAsked' = <<>> /\ checkout'.plan = Empty
    BY <1>1, <2>1, <2>2 DEF OpenOrder
  <2> QED  BY <2>1, <2>3 DEF OpenOrder, AwayInv
<1>4. CASE \E l \in Lines, q \in 0..MaxQuantity : EditLine(l, q)
  <2>1. PICK l \in Lines, q \in 0..MaxQuantity : EditLine(l, q)
    BY <1>4
  <2>2. checkoutMode.stops < 2 => planAsked' = <<>> /\ checkout'.plan = Empty
    <3>1. Refresh(checkout, cart')
      BY <2>1 DEF EditLine
    <3> SUFFICES ASSUME checkoutMode.stops < 2 PROVE planAsked' = <<>> /\ checkout'.plan = Empty
      OBVIOUS
    <3>2. planAsked' = planAsked
      BY <3>1 DEF Refresh
    <3> QED  BY <1>0, <3>1, <3>2, RefreshKeeps DEF AwayInv
  <2> QED  BY <2>1, <2>2 DEF EditLine, AwayInv
<1>5. CASE \E p \in Payments : ChangePayment(p)
  <2>1. PICK p \in Payments : ChangePayment(p)
    BY <1>5
  <2> DEFINE co == [checkout EXCEPT !.payment = p]
  <2>2. co \in CheckoutState /\ co.plan = checkout.plan /\ Refresh(co, cart)
    BY <1>0, <2>1 DEF CheckoutState, ChangePayment
  <2> HIDE DEF co
  <2>3. checkoutMode.stops < 2 => planAsked' = <<>> /\ checkout'.plan = Empty
    BY <1>1, <2>2
  <2> QED  BY <2>1, <2>3 DEF ChangePayment, AwayInv
<1>c. CASE \E on \in BOOLEAN : ChooseCoupon(on)
  <2>1. PICK on \in BOOLEAN : ChooseCoupon(on)
    BY <1>c
  <2> DEFINE co == [checkout EXCEPT !.coupon = on]
  <2>2. co \in CheckoutState /\ co.plan = checkout.plan /\ Refresh(co, cart)
    BY <1>0, <2>1 DEF CheckoutState, ChooseCoupon
  <2> HIDE DEF co
  <2>3. checkoutMode.stops < 2 => planAsked' = <<>> /\ checkout'.plan = Empty
    BY <1>1, <2>2
  <2> QED  BY <2>1, <2>3 DEF ChooseCoupon, AwayInv
<1>6. CASE \E on \in BOOLEAN : ConfirmAddress(on)
  <2>1. checkout'.plan = checkout.plan
    BY <1>0, <1>6 DEF ConfirmAddress, CheckoutState
  <2> QED  BY <1>6, <2>1 DEF ConfirmAddress, AwayInv
<1>7. CASE \E i \in DOMAIN previewAsked : PreviewAnswered(i)
  <2>1. PICK i \in DOMAIN previewAsked : PreviewAnswered(i)
    BY <1>7
  <2>2. checkout'.plan = checkout.plan
    BY <2>1, PreviewShape
  <2>3. screen = "order" /\ UNCHANGED <<menuAsked, planAsked, screen, checkoutMode>>
    BY <2>1 DEF PreviewAnswered
  <2> QED  BY <2>2, <2>3 DEF AwayInv
<1>8. CASE \E i \in DOMAIN planAsked : PlanAnswered(i)
  <2>1. PICK i \in DOMAIN planAsked : PlanAnswered(i)
    BY <1>8
  <2>2. ~(checkoutMode.stops < 2)
    BY <2>1 DEF AwayInv
  <2> QED  BY <2>1, <2>2 DEF PlanAnswered, AwayInv
<1>9. CASE Place
  <2>1. checkout'.plan = checkout.plan
    BY <1>0, <1>9 DEF Place, CheckoutState
  <2> QED  BY <1>9, <2>1 DEF Place, AwayInv
<1>10. CASE \E i \in DOMAIN posts : OrderFailed(i)
  <2>1. checkout'.plan = checkout.plan
    BY <1>0, <1>10 DEF OrderFailed, CheckoutState
  <2> QED  BY <1>10, <2>1 DEF OrderFailed, AwayInv
<1>11. CASE ReloadPage
  BY <1>11 DEF ReloadPage, FreshCheckout, DropAsked, AwayInv
<1>12. CASE OpenOrders \/ \E i \in DOMAIN posts : OrderPlaced(i)
  BY <1>12 DEF OpenOrders, OrderPlaced, DropAsked, AwayInv
<1>13. CASE \/ SearchDishes \/ BackToKitchens \/ OrdersFetched
            \/ \E i \in DOMAIN posts : OrderServed(i)
            \/ \E k \in Kitchens : SelectRestaurant(k)
            \/ \E l \in checkoutMode.offered : AddShown(l)
            \/ \E i \in DOMAIN menuAsked : MenuAnswered(i)
            \/ UNCHANGED checkoutVars
  <2>1. /\ UNCHANGED <<checkout, previewAsked, planAsked, screen, checkoutMode>>
        /\ screen = "menu" \/ UNCHANGED menuAsked
    BY <1>13 DEF SearchDishes, BackToKitchens, OrderServed, OrdersFetched, SelectRestaurant,
                 AddShown, MenuAnswered, checkoutVars
  <2> QED  BY <2>1 DEF AwayInv
<1> QED  BY <1>2, <1>3, <1>4, <1>5, <1>c, <1>6, <1>7, <1>8, <1>9, <1>10, <1>11, <1>12, <1>13
         DEF CheckoutNext

\* Every step keeps the menu and its requests of one kitchen.
LEMMA MenuStep == CheckoutTypes /\ AwayInv /\ MenuInv /\ [CheckoutNext]_checkoutVars => MenuInv'
<1> SUFFICES ASSUME CheckoutTypes, AwayInv, MenuInv, [CheckoutNext]_checkoutVars,
                    ~Habit("edit")', screen' = "menu"
             PROVE  \/ menu'.selected = NoKitchen /\ menu'.shown = NoKitchen /\ menuAsked' = <<>>
                    \/ /\ menu'.selected = cart'.kitchen
                       /\ menu'.shown \in {NoKitchen, cart'.kitchen}
                       /\ \A i \in DOMAIN menuAsked' : menuAsked'[i] = cart'.kitchen
  BY DEF MenuInv
<1>0. menuAsked \in Seq(Kitchens) /\ menu \in MenuState /\ cart \in Cart
  BY DEF CheckoutTypes, MenuState, Cart
<1>1. ~Habit("edit")
  BY ModeKept DEF Habit
<1>2. CASE \E server \in {"food", "instamart"} : OpenMenu(server)
  BY <1>2 DEF OpenMenu, FreshMenu, DropAsked
<1>3. CASE \E k \in Kitchens : SelectRestaurant(k)
  <2>1. PICK k \in Kitchens : SelectRestaurant(k)
    BY <1>3
  <2>2. menuAsked = <<>>
    BY <1>1, <2>1 DEF SelectRestaurant, MayEdit, Settled
  <2>3. menu.selected = NoKitchen /\ menu.shown = NoKitchen
    <3>1. screen = "menu" /\ menu.selected = NoKitchen
      BY <2>1 DEF SelectRestaurant
    <3>2. menu.shown \in {NoKitchen, menu.selected}
      BY <1>1, <3>1 DEF MenuInv
    <3> QED  BY <3>1, <3>2
  <2>4. menu'.selected = k /\ menu'.shown = NoKitchen /\ cart'.kitchen = k
    BY <1>0, <2>1, <2>3 DEF SelectRestaurant, SetRestaurant, MenuState
  <2>5. menuAsked' = <<k>>
    BY <2>1, <2>2 DEF SelectRestaurant
  <2> QED  BY <2>4, <2>5
<1>4. CASE \E l \in checkoutMode.offered : AddShown(l)
  <2>1. UNCHANGED <<menu, menuAsked, screen>> /\ cart'.kitchen = cart.kitchen
    BY <1>0, <1>4 DEF AddShown, AddItem, Cart
  <2> QED  BY <1>1, <2>1 DEF MenuInv
<1>5. CASE \E i \in DOMAIN menuAsked : MenuAnswered(i)
  <2>1. PICK i \in DOMAIN menuAsked : MenuAnswered(i)
    BY <1>5
  <2>2. /\ menu.selected = cart.kitchen /\ menu.shown \in {NoKitchen, cart.kitchen}
        /\ \A k \in DOMAIN menuAsked : menuAsked[k] = cart.kitchen
    BY <1>1, <2>1 DEF MenuInv, MenuAnswered
  <2>3. menu' \in {menu, [menu EXCEPT !.shown = cart.kitchen]} /\ cart' = cart
        /\ menuAsked' = RemoveAt(menuAsked, i)
    BY <2>1, <2>2 DEF MenuAnswered
  <2>4. menu'.selected = cart.kitchen /\ menu'.shown \in {NoKitchen, cart.kitchen}
    BY <1>0, <2>2, <2>3 DEF MenuState
  <2>5. i \in 1..Len(menuAsked) /\ DOMAIN menuAsked = 1..Len(menuAsked) /\ Len(menuAsked) \in Nat
    BY <1>0
  <2>6. menuAsked' \in Seq(Kitchens) /\ Len(menuAsked') = Len(menuAsked) - 1
        /\ \A k \in 1..(Len(menuAsked) - 1) :
              menuAsked'[k] = IF k < i THEN menuAsked[k] ELSE menuAsked[k + 1]
    BY <1>0, <2>3, <2>5, RemovedAt
  <2>7. DOMAIN menuAsked' = 1..(Len(menuAsked) - 1)
    BY <2>6
  <2>8. \A k \in 1..(Len(menuAsked) - 1) : menuAsked'[k] = cart.kitchen
    BY <2>2, <2>5, <2>6
  <2> QED  BY <2>3, <2>4, <2>7, <2>8
<1>6. CASE SearchDishes
  <2>1. menu.selected = cart.kitchen /\ menu.shown \in {NoKitchen, cart.kitchen}
        /\ \A k \in DOMAIN menuAsked : menuAsked[k] = cart.kitchen
    BY <1>1, <1>6 DEF MenuInv, SearchDishes
  <2>2. menuAsked = <<>> /\ menu' = menu /\ cart' = cart
        /\ menuAsked' = Append(menuAsked, menu.selected)
    BY <1>1, <1>6 DEF SearchDishes, MayEdit, Settled
  <2>3. menuAsked' = <<cart.kitchen>>
    BY <2>1, <2>2
  <2> QED  BY <2>1, <2>2, <2>3
<1>7. CASE BackToKitchens
  <2>1. menuAsked' = <<>>
    BY <1>1, <1>7 DEF BackToKitchens, MayEdit, Settled
  <2>2. menu'.selected = NoKitchen /\ menu'.shown = NoKitchen
    BY <1>0, <1>7 DEF BackToKitchens, MenuState
  <2> QED  BY <2>1, <2>2
<1>8. CASE UNCHANGED <<menu, menuAsked, screen, cart>>
  BY <1>1, <1>8 DEF MenuInv
<1>9. CASE screen' # "menu"
  BY <1>9
<1> QED  BY <1>2, <1>3, <1>4, <1>5, <1>6, <1>7, <1>8, <1>9 DEF CheckoutNext, checkoutVars,
         OpenOrder, EditLine, ChangePayment, ChooseCoupon, ConfirmAddress, PreviewAnswered,
         PlanAnswered, Place, OrderServed, OrderPlaced, OrderFailed, OpenOrders, OrdersFetched,
         ReloadPage

\* With nothing asked for, a refresh asks for what is wanted now.
LEMMA RefreshAsks ==
    ASSUME previewAsked = <<>>, NEW co \in CheckoutState, NEW c \in Cart,
           Refresh(co, c), c.items # Empty
    PROVE  \E then \in CheckoutState :
              checkout' = then /\ then.loading /\ previewAsked' = <<BodyOf(then, c)>>
<1> DEFINE loading == [co EXCEPT !.loading = TRUE]
<1>1. /\ loading \in CheckoutState /\ loading.loading
      /\ loading.server = co.server /\ loading.stop = co.stop
      /\ loading.payment = co.payment /\ loading.coupon = co.coupon
  BY DEF CheckoutState
<1>2. checkout' = loading /\ previewAsked' = Append(<<>>, BodyOf(co, c))
  BY DEF Refresh
<1> HIDE DEF loading
<1>3. BodyOf(loading, c) = BodyOf(co, c)
  BY <1>1, BodyTyped
<1>4. previewAsked' = <<BodyOf(loading, c)>>
  BY <1>2, <1>3
<1> QED  BY <1>1, <1>2, <1>4

\* Every step keeps previews those of the cart.
LEMMA PreviewStep ==
    CheckoutTypes /\ AwayInv /\ PreviewInv /\ [CheckoutNext]_checkoutVars => PreviewInv'
<1> SUFFICES ASSUME CheckoutTypes, AwayInv, PreviewInv, [CheckoutNext]_checkoutVars,
                    ~Habit("edit")', screen' = "order", cart'.items # Empty
             PROVE  \/ previewAsked' = <<Wanted'>> /\ checkout'.loading
                    \/ previewAsked' = <<>> /\ (checkout'.canPlace => checkout'.preview = Wanted')
  BY DEF PreviewInv
<1>0. checkout \in CheckoutState /\ cart \in Cart /\ CheckoutTypes'
  BY CheckoutTypesStep DEF CheckoutTypes, CheckoutState, Cart
<1>1. ~Habit("edit")
  BY ModeKept DEF Habit
<1>w. Wanted' = BodyOf(checkout', cart')
  BY DEF Wanted
<1>2. CASE \E server \in {"food", "instamart"}, stop \in 1..checkoutMode.stops :
              OpenOrder(server, stop)
  <2>1. PICK server \in {"food", "instamart"}, stop \in Nat : OpenOrder(server, stop)
    BY <1>2, StopsAreNat
  <2>2. FreshCheckout(server, stop) \in CheckoutState
    BY FreshTyped
  <2>3. previewAsked = <<>> /\ cart' = cart /\ Refresh(FreshCheckout(server, stop), cart)
    BY <2>1 DEF OpenOrder, AwayInv
  <2> QED  BY <1>0, <1>w, <2>2, <2>3, RefreshAsks
<1>3. CASE \E l \in Lines, q \in 0..MaxQuantity : EditLine(l, q)
  <2>1. previewAsked = <<>> /\ Refresh(checkout, cart')
    BY <1>1, <1>3 DEF EditLine, MayEdit, Settled
  <2>2. cart' \in Cart
    BY <1>0 DEF CheckoutTypes, Cart
  <2> QED  BY <1>0, <1>w, <2>1, <2>2, RefreshAsks
<1>4. CASE \E p \in Payments : ChangePayment(p)
  <2>1. PICK p \in Payments : ChangePayment(p)
    BY <1>4
  <2> DEFINE co == [checkout EXCEPT !.payment = p]
  <2>2. co \in CheckoutState
    BY <1>0 DEF CheckoutState
  <2>3. previewAsked = <<>> /\ cart' = cart /\ Refresh(co, cart)
    BY <1>1, <2>1 DEF ChangePayment, MayEdit, Settled
  <2> HIDE DEF co
  <2> QED  BY <1>0, <1>w, <2>2, <2>3, RefreshAsks
<1>c. CASE \E on \in BOOLEAN : ChooseCoupon(on)
  <2>1. PICK on \in BOOLEAN : ChooseCoupon(on)
    BY <1>c
  <2> DEFINE co == [checkout EXCEPT !.coupon = on]
  <2>2. co \in CheckoutState
    BY <1>0 DEF CheckoutState
  <2>3. previewAsked = <<>> /\ cart' = cart /\ Refresh(co, cart)
    BY <1>1, <2>1 DEF ChooseCoupon, MayEdit, Settled
  <2> HIDE DEF co
  <2> QED  BY <1>0, <1>w, <2>2, <2>3, RefreshAsks
<1>5. CASE \E i \in DOMAIN previewAsked : PreviewAnswered(i)
  <2>1. PICK i \in DOMAIN previewAsked : PreviewAnswered(i)
    BY <1>5
  <2>2. screen = "order" /\ cart' = cart
    BY <2>1 DEF PreviewAnswered
  <2>3. previewAsked = <<Wanted>>
    BY <1>1, <2>2 DEF PreviewInv
  <2>4. i = 1 /\ previewAsked[i] = Wanted
    BY <2>3
  <2>5. RemoveAt(previewAsked, i) = <<>>
    BY <2>3, <2>4, OneRemoved
  <2>6. PICK then \in CheckoutState :
             /\ checkout' = then
             /\ then.server = checkout.server /\ then.stop = checkout.stop
             /\ then.coupon = checkout.coupon
             /\ \/ /\ then.payment # checkout.payment /\ cart.items # Empty
                   /\ then.loading
                   /\ previewAsked' = Append(RemoveAt(previewAsked, i), BodyOf(then, cart))
                \/ /\ then.payment = checkout.payment \/ cart.items = Empty
                   /\ then.canPlace => then.preview = previewAsked[i]
                   /\ previewAsked' = RemoveAt(previewAsked, i)
    BY <2>1, PreviewShape
  <2>7. Wanted' = BodyOf(then, cart)
    BY <1>w, <2>2, <2>6
  <2>8. CASE /\ then.loading
             /\ previewAsked' = Append(RemoveAt(previewAsked, i), BodyOf(then, cart))
    <3>1. previewAsked' = <<Wanted'>>
      BY <2>5, <2>7, <2>8
    <3> QED  BY <2>6, <2>8, <3>1
  <2>9. CASE /\ then.payment = checkout.payment
             /\ then.canPlace => then.preview = previewAsked[i]
             /\ previewAsked' = RemoveAt(previewAsked, i)
    <3>1. BodyOf(then, cart) = BodyOf(checkout, cart)
      BY <1>0, <2>6, <2>9, BodyTyped
    <3> QED  BY <2>4, <2>5, <2>6, <2>7, <2>9, <3>1 DEF Wanted
  <2> QED  BY <2>2, <2>6, <2>8, <2>9
<1>6. ASSUME UNCHANGED <<cart, previewAsked, screen>>,
             \/ UNCHANGED checkout
             \/ \E on \in BOOLEAN : checkout' = [checkout EXCEPT !.confirmed = on]
             \/ \E on \in BOOLEAN : checkout' = [checkout EXCEPT !.placing = on]
             \/ \E plan \in Contents : checkout' = [checkout EXCEPT !.plan = plan]
      PROVE  \/ previewAsked' = <<Wanted'>> /\ checkout'.loading
             \/ previewAsked' = <<>> /\ (checkout'.canPlace => checkout'.preview = Wanted')
  <2>0. PICK then \in CheckoutState : then = checkout'
    BY <1>0 DEF CheckoutTypes, CheckoutState
  <2>1. /\ then.server = checkout.server /\ then.payment = checkout.payment
        /\ then.stop = checkout.stop /\ then.coupon = checkout.coupon
        /\ then.preview = checkout.preview /\ then.canPlace = checkout.canPlace
        /\ then.loading = checkout.loading
    BY <1>0, <1>6, <2>0 DEF CheckoutState
  <2>2. Wanted' = Wanted
    <3>1. BodyOf(then, cart) = BodyOf(checkout, cart)
      BY <1>0, <2>1, BodyTyped
    <3> QED  BY <1>6, <1>w, <2>0, <3>1 DEF Wanted
  <2> QED  BY <1>1, <1>6, <2>0, <2>1, <2>2 DEF PreviewInv
<1>7. CASE \E on \in BOOLEAN : ConfirmAddress(on)
  BY <1>6, <1>7 DEF ConfirmAddress
<1>8. CASE \E i \in DOMAIN planAsked : PlanAnswered(i)
  <2>1. PICK i \in DOMAIN planAsked : PlanAnswered(i)
    BY <1>8
  <2>2. planAsked[i] \in Contents /\ Empty \in Contents
    BY FreshTyped DEF CheckoutTypes
  <2> QED  BY <1>6, <2>1, <2>2 DEF PlanAnswered
<1>9. CASE Place
  BY <1>6, <1>9 DEF Place
<1>10. CASE \E i \in DOMAIN posts : OrderFailed(i)
  <2>1. PICK i \in DOMAIN posts : OrderFailed(i)
    BY <1>10
  <2>2. PICK on \in BOOLEAN : on = (checkout.placing /\ ~posts[i].here)
    OBVIOUS
  <2> QED  BY <1>6, <2>1, <2>2 DEF OrderFailed
<1>11. CASE \/ \E i \in DOMAIN posts : OrderServed(i)
            \/ OrdersFetched \/ UNCHANGED checkoutVars
  BY <1>6, <1>11 DEF OrderServed, OrdersFetched, checkoutVars
<1>12. CASE screen' # "order"
  BY <1>12
<1>13. CASE screen = "menu" /\ screen' = screen
  BY <1>13
<1> QED  BY <1>2, <1>3, <1>4, <1>5, <1>c, <1>7, <1>8, <1>9, <1>10, <1>11, <1>12, <1>13
         DEF CheckoutNext, OpenMenu, SelectRestaurant, AddShown, MenuAnswered, SearchDishes,
             BackToKitchens, OrderPlaced, OpenOrders, ReloadPage

\* Every step keeps hop plans those of the cart.
LEMMA PlanStep ==
    CheckoutTypes /\ AwayInv /\ PlanInv /\ [CheckoutNext]_checkoutVars => PlanInv'
<1> SUFFICES ASSUME CheckoutTypes, AwayInv, PlanInv, [CheckoutNext]_checkoutVars,
                    ~Habit("edit")', screen' = "order", cart'.items # Empty
             PROVE  \/ planAsked' = <<cart'.items>>
                    \/ planAsked' = <<>> /\ checkout'.plan \in {Empty, cart'.items}
  BY DEF PlanInv
<1>0. checkout \in CheckoutState /\ cart \in Cart /\ cart' \in Cart
  BY CheckoutTypesStep DEF CheckoutTypes, CheckoutState, Cart
<1>1. ~Habit("edit")
  BY ModeKept DEF Habit
<1>2. CASE \E server \in {"food", "instamart"}, stop \in 1..checkoutMode.stops :
              OpenOrder(server, stop)
  <2>1. PICK server \in {"food", "instamart"}, stop \in Nat : OpenOrder(server, stop)
    BY <1>2, StopsAreNat
  <2> DEFINE co == FreshCheckout(server, stop)
  <2>2. co \in CheckoutState /\ co.plan = Empty
    BY FreshTyped DEF FreshCheckout
  <2>3. planAsked = <<>> /\ cart' = cart /\ Refresh(co, cart) /\ screen # "order"
    BY <2>1 DEF OpenOrder, AwayInv
  <2> HIDE DEF co
  <2>4. checkout' = [co EXCEPT !.loading = TRUE]
        /\ planAsked' \in {planAsked, Append(planAsked, cart.items)}
    BY <2>3 DEF Refresh
  <2>5. checkout'.plan = Empty
    BY <2>2, <2>4 DEF CheckoutState
  <2> QED  BY <2>3, <2>4, <2>5
<1>3. CASE \E l \in Lines, q \in 0..MaxQuantity : EditLine(l, q)
  <2>1. PICK l \in Lines, q \in 0..MaxQuantity : EditLine(l, q)
    BY <1>3
  <2>2. planAsked = <<>> /\ Refresh(checkout, cart') /\ screen = "order" /\ cart.items[l] > 0
    BY <1>1, <2>1 DEF EditLine, MayEdit, Settled
  <2>3. cart.items # Empty
    BY <2>2 DEF Empty
  <2>4. checkout.plan \in {Empty, cart.items}
    BY <1>1, <2>2, <2>3 DEF PlanInv
  <2>5. checkout' = [checkout EXCEPT !.loading = TRUE]
        /\ planAsked' = IF (cart'.items = cart.items /\ screen = "order") \/ checkoutMode.stops < 2
                        THEN planAsked ELSE Append(planAsked, cart'.items)
    BY <2>2 DEF Refresh
  <2>6. checkout'.plan = checkout.plan
    BY <1>0, <2>5 DEF CheckoutState
  <2>7. CASE cart'.items = cart.items
    BY <2>2, <2>4, <2>5, <2>6, <2>7
  <2>8. CASE checkoutMode.stops < 2
    BY <2>2, <2>5, <2>6, <2>8 DEF AwayInv
  <2>9. CASE planAsked' = Append(planAsked, cart'.items)
    BY <2>2, <2>9
  <2> QED  BY <2>5, <2>7, <2>8, <2>9
<1>4. CASE \/ \E p \in Payments : ChangePayment(p)
           \/ \E on \in BOOLEAN : ChooseCoupon(on)
  <2>1. PICK p \in Payments, on \in BOOLEAN : ChangePayment(p) \/ ChooseCoupon(on)
    BY <1>4 DEF Payments
  <2>2. /\ [checkout EXCEPT !.payment = p] \in CheckoutState
        /\ [checkout EXCEPT !.payment = p].plan = checkout.plan
        /\ [checkout EXCEPT !.coupon = on] \in CheckoutState
        /\ [checkout EXCEPT !.coupon = on].plan = checkout.plan
    BY <1>0 DEF CheckoutState
  <2>3. PICK co \in CheckoutState :
           cart' = cart /\ Refresh(co, cart) /\ screen = "order" /\ co.plan = checkout.plan
    BY <2>1, <2>2 DEF ChangePayment, ChooseCoupon
  <2>4. planAsked' = planAsked
    BY <2>3 DEF Refresh
  <2>5. checkout'.plan = checkout.plan
    BY <2>3, RefreshKeeps
  <2> QED  BY <1>1, <2>3, <2>4, <2>5 DEF PlanInv
<1>5. CASE \E i \in DOMAIN planAsked : PlanAnswered(i)
  <2>1. PICK i \in DOMAIN planAsked : PlanAnswered(i)
    BY <1>5
  <2>2. screen = "order" /\ cart' = cart /\ planAsked' = RemoveAt(planAsked, i)
    BY <2>1 DEF PlanAnswered
  <2>3. planAsked = <<cart.items>>
    BY <1>1, <2>2 DEF PlanInv
  <2>4. i = 1 /\ planAsked[i] = cart.items
    BY <2>3
  <2>5. planAsked' = <<>>
    BY <2>2, <2>3, <2>4, OneRemoved
  <2>6. checkout'.plan \in {Empty, cart.items}
    BY <1>0, <2>1, <2>4 DEF PlanAnswered, CheckoutState
  <2> QED  BY <2>2, <2>5, <2>6
<1>6. ASSUME UNCHANGED <<cart, planAsked, screen>>, checkout'.plan = checkout.plan
      PROVE  \/ planAsked' = <<cart'.items>>
             \/ planAsked' = <<>> /\ checkout'.plan \in {Empty, cart'.items}
  BY <1>1, <1>6 DEF PlanInv
<1>7. CASE \E i \in DOMAIN previewAsked : PreviewAnswered(i)
  <2>1. PICK i \in DOMAIN previewAsked : PreviewAnswered(i)
    BY <1>7
  <2>2. checkout'.plan = checkout.plan
    BY <2>1, PreviewShape
  <2> QED  BY <1>6, <2>1, <2>2 DEF PreviewAnswered
<1>8. CASE \E on \in BOOLEAN : ConfirmAddress(on)
  <2>1. checkout'.plan = checkout.plan
    BY <1>0, <1>8 DEF ConfirmAddress, CheckoutState
  <2> QED  BY <1>6, <1>8, <2>1 DEF ConfirmAddress
<1>9. CASE Place
  <2>1. checkout'.plan = checkout.plan
    BY <1>0, <1>9 DEF Place, CheckoutState
  <2> QED  BY <1>6, <1>9, <2>1 DEF Place
<1>10. CASE \E i \in DOMAIN posts : OrderFailed(i)
  <2>1. checkout'.plan = checkout.plan
    BY <1>0, <1>10 DEF OrderFailed, CheckoutState
  <2> QED  BY <1>6, <1>10, <2>1 DEF OrderFailed
<1>11. CASE \/ \E i \in DOMAIN posts : OrderServed(i)
            \/ OrdersFetched \/ UNCHANGED checkoutVars
  BY <1>6, <1>11 DEF OrderServed, OrdersFetched, checkoutVars
<1>12. CASE screen' # "order"
  BY <1>12
<1>13. CASE screen = "menu" /\ screen' = screen
  BY <1>13
<1> QED  BY <1>2, <1>3, <1>4, <1>5, <1>7, <1>8, <1>9, <1>10, <1>11, <1>12, <1>13
         DEF CheckoutNext, OpenMenu, SelectRestaurant, AddShown, MenuAnswered, SearchDishes,
             BackToKitchens, OrderPlaced, OpenOrders, ReloadPage

\* Every step keeps what the kitchen sells in its cart.
LEMMA FoodStep ==
    CheckoutTypes /\ MenuInv /\ FoodInv /\ [CheckoutNext]_checkoutVars => FoodInv'
<1> SUFFICES ASSUME CheckoutTypes, MenuInv, FoodInv, [CheckoutNext]_checkoutVars,
                    ~Habit("edit")', checkoutMode'.servers = {"food"}
             PROVE  /\ menu'.server = "food" /\ checkout'.server = "food"
                    /\ \A l \in Lines : cart'.items[l] > 0 => SoldBy[ItemOf[l]] = cart'.kitchen
  BY DEF FoodInv
<1>0. /\ checkout \in CheckoutState /\ cart \in Cart /\ menu \in MenuState
      /\ checkoutMode \in CheckoutMode
  BY CheckoutAssumption DEF CheckoutTypes, CheckoutState, Cart, MenuState
<1>1. ~Habit("edit") /\ checkoutMode' = checkoutMode
  BY ModeKept DEF Habit
<1>2. /\ menu.server = "food" /\ checkout.server = "food"
      /\ \A l \in Lines : cart.items[l] > 0 => SoldBy[ItemOf[l]] = cart.kitchen
  BY <1>1 DEF FoodInv
<1>3. menu'.server = "food"
  <2>1. CASE \E server \in {"food", "instamart"} : OpenMenu(server)
    BY <1>1, <2>1 DEF OpenMenu, FreshMenu
  <2>2. CASE UNCHANGED menu \/ \E k, h : menu' \in {[menu EXCEPT !.selected = k, !.shown = h],
                                                    [menu EXCEPT !.selected = k],
                                                    [menu EXCEPT !.shown = h]}
    BY <1>0, <1>2, <2>2 DEF MenuState
  <2>3. CASE ReloadPage
    BY <1>2, <2>3 DEF ReloadPage, FreshMenu
  <2> QED  BY <2>1, <2>2, <2>3
      DEF CheckoutNext, checkoutVars, OpenOrder, SelectRestaurant, AddShown,
         EditLine, ChangePayment, ChooseCoupon, ConfirmAddress, MenuAnswered, PreviewAnswered,
         PlanAnswered, SearchDishes, BackToKitchens, Place, OrderServed, OrderPlaced,
         OrderFailed, OpenOrders, OrdersFetched
<1>4. checkout'.server = "food"
  <2>1. CASE \E server \in {"food", "instamart"}, stop \in 1..checkoutMode.stops :
                OpenOrder(server, stop)
    <3>1. PICK server \in {"food", "instamart"}, stop \in Nat : OpenOrder(server, stop)
      BY <2>1, StopsAreNat
    <3>2. FreshCheckout(server, stop) \in CheckoutState
          /\ FreshCheckout(server, stop).server = server
      BY FreshTyped DEF FreshCheckout
    <3>3. Refresh(FreshCheckout(server, stop), cart) /\ server = "food"
      BY <1>1, <3>1 DEF OpenOrder
    <3> QED  BY <3>2, <3>3, RefreshKeeps
  <2>2. CASE \E l \in Lines, q \in 0..MaxQuantity : EditLine(l, q)
    <3>1. Refresh(checkout, cart')
      BY <2>2 DEF EditLine
    <3> QED  BY <1>0, <1>2, <3>1, RefreshKeeps
  <2>3. CASE \/ \E p \in Payments : ChangePayment(p)
             \/ \E on \in BOOLEAN : ChooseCoupon(on)
    <3>1. PICK p \in Payments, on \in BOOLEAN : ChangePayment(p) \/ ChooseCoupon(on)
      BY <2>3 DEF Payments
    <3>2. /\ [checkout EXCEPT !.payment = p] \in CheckoutState
          /\ [checkout EXCEPT !.payment = p].server = "food"
          /\ [checkout EXCEPT !.coupon = on] \in CheckoutState
          /\ [checkout EXCEPT !.coupon = on].server = "food"
      BY <1>0, <1>2 DEF CheckoutState
    <3>3. PICK co \in CheckoutState : Refresh(co, cart) /\ co.server = "food"
      BY <3>1, <3>2 DEF ChangePayment, ChooseCoupon
    <3> QED  BY <3>3, RefreshKeeps
  <2>4. CASE \E i \in DOMAIN previewAsked : PreviewAnswered(i)
    BY <1>2, <2>4, PreviewShape
  <2>5. CASE \/ \E on \in BOOLEAN : ConfirmAddress(on)
             \/ \E i \in DOMAIN planAsked : PlanAnswered(i)
             \/ \E i \in DOMAIN posts : OrderFailed(i)
             \/ Place
    BY <1>0, <1>2, <2>5 DEF ConfirmAddress, PlanAnswered, Place, OrderFailed, CheckoutState
  <2>6. CASE ReloadPage
    BY <1>2, <2>6 DEF ReloadPage, FreshCheckout
  <2>7. CASE UNCHANGED checkout
    BY <1>2, <2>7
  <2> QED  BY <2>1, <2>2, <2>3, <2>4, <2>5, <2>6, <2>7
      DEF CheckoutNext, checkoutVars, OpenMenu, SelectRestaurant, AddShown, MenuAnswered,
         SearchDishes, BackToKitchens, OrderServed, OrderPlaced, OpenOrders, OrdersFetched
<1>5. \A l \in Lines : cart'.items[l] > 0 => SoldBy[ItemOf[l]] = cart'.kitchen
  <2>1. CASE \E k \in Kitchens : SelectRestaurant(k)
    BY <2>1 DEF SelectRestaurant, SetRestaurant, Empty
  <2>2. CASE \E l \in checkoutMode.offered : AddShown(l)
    <3>1. PICK l \in Lines : AddShown(l)
      BY <1>0, <2>2 DEF CheckoutMode
    <3>2. cart'.kitchen = cart.kitchen /\ \A m \in Lines \ {l} : cart'.items[m] = cart.items[m]
      BY <1>0, <3>1 DEF AddShown, AddItem, Cart, Contents
    <3>3. SoldBy[ItemOf[l]] = menu.shown /\ screen = "menu"
      BY <1>2, <3>1 DEF AddShown
    <3>4. SoldBy[ItemOf[l]] # NoKitchen
      BY CheckoutAssumption
    <3>5. menu.shown = cart.kitchen
      BY <1>1, <3>3, <3>4 DEF MenuInv
    <3> QED  BY <1>2, <3>2, <3>3, <3>5
  <2>3. CASE \E l \in Lines, q \in 0..MaxQuantity : EditLine(l, q)
    <3>1. PICK l \in Lines, q \in 0..MaxQuantity : EditLine(l, q)
      BY <2>3
    <3>2. cart'.kitchen = cart.kitchen
          /\ \A m \in Lines : cart'.items[m] > 0 => cart.items[m] > 0
      BY <1>0, <3>1 DEF EditLine, UpdateQuantity, Cart, Contents
    <3> QED  BY <1>2, <3>2
  <2>4. CASE \E i \in DOMAIN posts : OrderPlaced(i)
    BY <2>4 DEF OrderPlaced, ClearCart, Empty
  <2>5. CASE UNCHANGED cart
    BY <1>2, <2>5
  <2> QED  BY <2>1, <2>2, <2>3, <2>4, <2>5
      DEF CheckoutNext, checkoutVars, OpenMenu, OpenOrder, ChangePayment, ChooseCoupon,
         ConfirmAddress, MenuAnswered, PreviewAnswered, PlanAnswered, SearchDishes,
         BackToKitchens, Place, OrderServed, OrderFailed, OpenOrders, OrdersFetched, ReloadPage
<1> QED  BY <1>3, <1>4, <1>5

\* A POST as it should be.
AsShown(post) ==
    LET sent == post.sent  shown == post.shown
    IN  /\ \/ sent = shown
           \/ post.hops /\ sent = [shown EXCEPT !.items = sent.items, !.to = sent.to]
        /\ \A l \in Lines : PiecesOf(ItemOf[l], sent.items) = PiecesOf(ItemOf[l], shown.items)
        /\ checkoutMode.servers = {"food"} =>
              \A l \in Lines : sent.items[l] > 0 => SoldBy[ItemOf[l]] = sent.kitchen

\* What is placed is what the preview shows: the wanted body, or as many pieces
\* of each item.
LEMMA PlacedAsShown ==
    ASSUME CheckoutTypes, PreviewInv, PlanInv, FoodInv, ~Habit("edit"), Place,
           NEW post, post.sent = OrderBody, post.shown = checkout.preview, post.hops = MultiHop
    PROVE  AsShown(post)
<1>0. checkout \in CheckoutState /\ cart \in Cart
  BY DEF CheckoutTypes, CheckoutState, Cart
<1>b. PICK b \in Body : b = BodyOf(checkout, cart)
  BY <1>0, BodyTyped
<1> DEFINE planned == [b EXCEPT !.items = PlannedItems, !.to = BestStops]
<1>1. /\ screen = "order" /\ cart.items # Empty
      /\ checkout.canPlace /\ previewAsked = <<>> /\ planAsked = <<>>
  BY DEF Place, CanPlace, Settled
<1>2. checkout.preview = b /\ checkout.plan \in {Empty, cart.items}
  BY <1>1, <1>b DEF PreviewInv, PlanInv, Wanted
<1>3. post.shown = b /\ post.sent = IF MultiHop THEN planned ELSE b
  BY <1>2, <1>b DEF OrderBody
<1>4. checkout.server = "food" /\ cart.kitchen = NoKitchen => b.items = Empty
  BY <1>b DEF BodyOf
<1>5. ~(checkout.server = "food" /\ cart.kitchen = NoKitchen) =>
        /\ b.items = cart.items
        /\ checkout.server = "food" => b.kitchen = cart.kitchen
  BY <1>b DEF BodyOf
<1>6. ASSUME checkoutMode.servers = {"food"}
      PROVE  /\ checkout.server = "food"
             /\ \A l \in Lines : cart.items[l] > 0 => SoldBy[ItemOf[l]] = cart.kitchen
  BY <1>6 DEF FoodInv
<1>7. CASE ~MultiHop
  <2>1. post.sent = b /\ post.shown = b
    BY <1>3, <1>7
  <2>2. ASSUME checkoutMode.servers = {"food"}, NEW l \in Lines, b.items[l] > 0
        PROVE  SoldBy[ItemOf[l]] = b.kitchen
    BY <1>4, <1>5, <1>6, <2>2 DEF Empty
  <2> QED  BY <2>1, <2>2 DEF AsShown
<1>8. CASE MultiHop
  <2>1. PlannedItems \in [Lines -> Nat] /\ checkout.plan \in [Lines -> Nat] /\ HopCap \in Nat
    BY PlannedTyped, CheckoutAssumption DEF CheckoutTypes, Contents
  <2>2. checkout.plan = cart.items
    <3>1. Pieces(checkout.plan) > HopCap /\ Pieces(checkout.plan) \in Nat
      BY <1>8, <2>1, PiecesAreNat DEF MultiHop, Pieces
    <3>2. \E l \in Lines : checkout.plan[l] > 0
      BY <2>1, <3>1, PiecesAreNat DEF Pieces
    <3> QED  BY <1>2, <3>2 DEF Empty
  <2>3. /\ b.items = cart.items
        /\ checkout.server = "food" => b.kitchen = cart.kitchen
    BY <1>0, <1>5, <1>8 DEF MultiHop, CheckoutState
  <2>4. /\ post.sent = planned /\ post.shown = b /\ post.hops
        /\ planned.items = PlannedItems /\ planned.to = BestStops /\ planned.kitchen = b.kitchen
    BY <1>3, <1>8 DEF Body
  <2>5. \A l \in Lines : PiecesOf(ItemOf[l], PlannedItems) = PiecesOf(ItemOf[l], cart.items)
    <3> SUFFICES ASSUME NEW l \in Lines
                 PROVE  PiecesOf(ItemOf[l], PlannedItems) = PiecesOf(ItemOf[l], cart.items)
      OBVIOUS
    <3>1. ItemOf[l] \in Lines /\ ItemOf[ItemOf[l]] = ItemOf[l]
      BY CheckoutAssumption
    <3>2. \A m \in Lines : PlannedItems[m] = IF m = ItemOf[m] THEN PiecesOf(m, cart.items) ELSE 0
      BY <2>2 DEF PlannedItems
    <3>3. cart.items \in Contents
      BY <1>0 DEF Cart
    <3> QED  BY <2>1, <3>1, <3>2, <3>3, PiecesPlanned
  <2>6. ASSUME checkoutMode.servers = {"food"}, NEW l \in Lines, PlannedItems[l] > 0
        PROVE  SoldBy[ItemOf[l]] = planned.kitchen
    <3>1. l = ItemOf[l] /\ PiecesOf(l, cart.items) > 0
      BY <2>2, <2>6 DEF PlannedItems
    <3>2. Variants(l) \in SUBSET Lines
      BY DEF Variants
    <3>3. PICK m \in Variants(l) : cart.items[m] > 0
      BY <2>1, <2>2, <3>1, <3>2, PiecesAreNat DEF PiecesOf
    <3>4. m \in Lines /\ ItemOf[m] = l
      BY <3>3 DEF Variants
    <3>5. SoldBy[l] = cart.kitchen
      BY <1>6, <2>6, <3>3, <3>4
    <3> QED  BY <1>6, <2>3, <2>4, <2>6, <3>1, <3>5
  <2>7. post.sent = [post.shown EXCEPT !.items = post.sent.items, !.to = post.sent.to]
    BY <2>4
  <2> HIDE DEF planned
  <2> QED  BY <2>3, <2>4, <2>5, <2>6, <2>7 DEF AsShown
<1> QED  BY <1>7, <1>8

\* Every step keeps the property: only placing sets what it speaks of.
LEMMA AsShownStep ==
    /\ CheckoutTypes /\ PreviewInv /\ PlanInv /\ FoodInv /\ OrderedAsShown
    /\ [CheckoutNext]_checkoutVars
    => OrderedAsShown'
<1> SUFFICES ASSUME CheckoutTypes, PreviewInv, PlanInv, FoodInv, OrderedAsShown,
                    [CheckoutNext]_checkoutVars, ~Habit("edit")
             PROVE  \A i \in DOMAIN posts' : AsShown(posts'[i])
  BY ModeKept DEF OrderedAsShown, AsShown, Habit
<1>1. \A i \in DOMAIN posts : AsShown(posts[i])
  BY DEF OrderedAsShown, AsShown
<1>2. posts \in Seq(Post) /\ DOMAIN posts = 1..Len(posts) /\ Len(posts) \in Nat
  BY DEF CheckoutTypes
<1>3. \A post, q : q.sent = post.sent /\ q.shown = post.shown /\ q.hops = post.hops
                     /\ AsShown(post) => AsShown(q)
  BY DEF AsShown
<1>4. CASE Place
  <2>1. /\ posts' \in Seq(Post) /\ Len(posts') = Len(posts) + 1
        /\ \A i \in DOMAIN posts : posts'[i] = posts[i]
        /\ posts'[Len(posts) + 1] = [pc |-> "sent", sent |-> OrderBody,
               shown |-> checkout.preview, hops |-> MultiHop, here |-> TRUE, again |-> bought]
    BY <1>4, PlaceShape
  <2>2. AsShown(posts'[Len(posts) + 1])
    <3>1. PICK post : post = posts'[Len(posts) + 1]
      OBVIOUS
    <3>2. post.sent = OrderBody /\ post.shown = checkout.preview /\ post.hops = MultiHop
      BY <2>1, <3>1
    <3> QED  BY <1>4, <3>1, <3>2, PlacedAsShown
  <2>3. DOMAIN posts' = 1..(Len(posts) + 1)
    BY <2>1
  <2> QED  BY <1>1, <1>2, <2>1, <2>2, <2>3
<1>5. CASE \E i \in DOMAIN posts : OrderServed(i)
  <2>1. PICK i \in DOMAIN posts, pc \in {"executed", "refused"} :
           posts' = [posts EXCEPT ![i].pc = pc]
    BY <1>5 DEF OrderServed
  <2>2. [posts[i] EXCEPT !.pc = pc].sent = posts[i].sent
        /\ [posts[i] EXCEPT !.pc = pc].shown = posts[i].shown
        /\ [posts[i] EXCEPT !.pc = pc].hops = posts[i].hops
    BY <1>2 DEF Post
  <2>3. AsShown([posts[i] EXCEPT !.pc = pc])
    BY <1>1, <1>3, <2>2
  <2>4. /\ DOMAIN posts' = DOMAIN posts
        /\ \A k \in DOMAIN posts :
              posts'[k] = IF k = i THEN [posts[i] EXCEPT !.pc = pc] ELSE posts[k]
    BY <2>1
  <2> QED  BY <1>1, <2>3, <2>4
<1>6. \A i \in DOMAIN PageLeft : AsShown(PageLeft[i])
  <2> SUFFICES ASSUME NEW i \in DOMAIN posts PROVE AsShown([posts[i] EXCEPT !.here = FALSE])
    BY LeftTyped
  <2>1. /\ [posts[i] EXCEPT !.here = FALSE].sent = posts[i].sent
        /\ [posts[i] EXCEPT !.here = FALSE].shown = posts[i].shown
        /\ [posts[i] EXCEPT !.here = FALSE].hops = posts[i].hops
    BY <1>2 DEF Post
  <2> QED  BY <1>1, <1>3, <2>1
<1>7. ASSUME NEW q \in Seq(Post), \A i \in DOMAIN q : AsShown(q[i]), NEW j \in DOMAIN q
      PROVE  \A i \in DOMAIN RemoveAt(q, j) : AsShown(RemoveAt(q, j)[i])
  <2>1. /\ RemoveAt(q, j) \in Seq(Post) /\ Len(RemoveAt(q, j)) = Len(q) - 1
        /\ \A k \in 1..(Len(q) - 1) : RemoveAt(q, j)[k] = IF k < j THEN q[k] ELSE q[k + 1]
    BY RemovedAt
  <2>2. DOMAIN RemoveAt(q, j) = 1..(Len(q) - 1) /\ DOMAIN q = 1..Len(q) /\ Len(q) \in Nat
    BY <2>1
  <2> QED  BY <1>7, <2>1, <2>2
<1>8. CASE \E i \in DOMAIN posts : OrderPlaced(i)
  BY <1>6, <1>7, <1>8, LeftTyped DEF OrderPlaced
<1>9. CASE \E i \in DOMAIN posts : OrderFailed(i)
  BY <1>1, <1>2, <1>7, <1>9 DEF OrderFailed
<1>10. CASE posts' \in {posts, PageLeft, <<>>}
  BY <1>1, <1>6, <1>10
<1> QED  BY <1>4, <1>5, <1>8, <1>9, <1>10
    DEF CheckoutNext, checkoutVars, ordersVars, OpenMenu, OpenOrder, SelectRestaurant, AddShown,
         EditLine, ChangePayment, ChooseCoupon, ConfirmAddress, MenuAnswered, PreviewAnswered,
         PlanAnswered, SearchDishes, BackToKitchens, OpenOrders, OrdersFetched, ReloadPage

\* The inductive invariant of the checkout.
CheckoutInv == CheckoutTypes /\ AwayInv /\ MenuInv /\ PreviewInv /\ PlanInv /\ FoodInv

\* It holds as the tab is opened.
LEMMA CheckoutInvStart == CheckoutInit => CheckoutInv /\ OrderedAsShown
<1> SUFFICES ASSUME CheckoutInit PROVE CheckoutInv /\ OrderedAsShown
  OBVIOUS
<1>1. CheckoutTypes
  BY CheckoutTypesInit
<1>2. AwayInv /\ MenuInv /\ PreviewInv /\ PlanInv
  BY CheckoutAssumption DEF CheckoutInit, AwayInv, MenuInv, PreviewInv, PlanInv, FreshCheckout
<1>3. FoodInv
  BY DEF CheckoutInit, FoodInv, FreshMenu, FreshCheckout, Empty
<1>4. OrderedAsShown
  BY DEF CheckoutInit, OrderedAsShown
<1> QED  BY <1>1, <1>2, <1>3, <1>4 DEF CheckoutInv

\* What is ordered is what the customer was shown, for any lines, kitchens,
\* quantities and numbers of requests in flight, while edits wait for answers:
\* with their loss, with pages left and reloaded, in one delivery or hop by hop.
THEOREM OrderIsAsShown == CheckoutSpec => []OrderedAsShown
<1>1. CheckoutInit => CheckoutInv /\ OrderedAsShown
  BY CheckoutInvStart
<1>2. CheckoutInv /\ OrderedAsShown /\ [CheckoutNext]_checkoutVars
         => CheckoutInv' /\ OrderedAsShown'
  BY CheckoutTypesStep, AwayStep, MenuStep, PreviewStep, PlanStep, FoodStep, AsShownStep
     DEF CheckoutInv
<1> QED  BY <1>1, <1>2, PTL DEF CheckoutSpec

----------------------------------------------------------------------------
\* The session in the browser.
\*
\* Tokens are issued one after the other; a row or an answered sign-in has a
\* token that was issued to its account.
IssuedInv == \E n \in 0..MaxToken : Issued = 1..n
OwnersInv ==
    /\ \A a \in Accounts : session[a] # 0 => session[a] \in Issued /\ owner[session[a]] = a
    /\ \A s \in Slots : signIn[s].pc = "done" =>
          /\ signIn[s].account \in Accounts
          /\ signIn[s].token \in Issued /\ owner[signIn[s].token] = signIn[s].account

\* What the tabs may rely on at the server.
ServerInv == AuthTypes /\ SlotInv /\ IssuedInv /\ OwnersInv

\* What a token once issued says of its owner stays true.
OwnersStay == \A t \in Issued : t \in Issued' /\ owner'[t] = owner[t]

\* Steps of a browser at the server: sign-in requests, those it no longer waits
\* for, and those it has the answer of.
SlotsChange ==
    /\ \/ \E s \in Slots : signIn' = [signIn EXCEPT ![s] = IdleSignIn]
       \/ \E c \in Clients : signIn' = Abandon(c)
    /\ UNCHANGED <<flow, exchanged, known, session, expired, owner>>

\* All that a browser does at the server.
BrowserStep ==
    \/ UNCHANGED authVars
    \/ SlotsChange
    \/ \E s \in Slots, c \in Clients :
          \/ \E a \in Accounts \union {Nobody} : LoginRequest(s, c, a)
          \/ \E f \in Flows : CallbackRequest(s, c, f)
    \/ \E f \in Flows : StartFlow(f)
    \/ \E t \in Tokens : LogoutToken(t)

\* No token is issued yet.
LEMMA ServerStart == AuthInit => ServerInv
<1> SUFFICES ASSUME AuthInit PROVE ServerInv
  OBVIOUS
<1>1. Issued = 1..0 /\ 0 \in 0..MaxToken
  BY AuthAssumption DEF AuthInit, Issued, Tokens
<1>2. IssuedInv
  BY <1>1 DEF IssuedInv
<1>3. OwnersInv
  BY DEF AuthInit, OwnersInv, IdleSignIn
<1> QED  BY <1>2, <1>3, TypesInit DEF ServerInv

\* A sign-in that is written has its account's new token.
LEMMA WriteIssues ==
    ASSUME ServerInv, NEW s \in Slots, WriteSession(s)
    PROVE  ServerInv' /\ OwnersStay
<1>1. AuthTypes' /\ SlotInv'
  BY TypesWrite DEF ServerInv
<1>2. PICK n \in 0..MaxToken : Issued = 1..n
  BY DEF ServerInv, IssuedInv
<1>3. Cardinality(Issued) = n
  BY <1>2, FS_Interval, AuthAssumption
<1> DEFINE a == signIn[s].account
           fresh == Cardinality(Issued) + 1
<1>4. a \in Accounts /\ a # Nobody
  BY SessionAssumption DEF ServerInv, SlotInv, WriteSession
<1>5. owner \in [Tokens -> Accounts \union {Nobody}] /\ Tokens = 1..MaxToken
      /\ session \in [Accounts -> 0..MaxToken] /\ signIn \in [Slots -> SignIn]
  BY DEF ServerInv, AuthTypes, Tokens, SignIn
<1>6. fresh = n + 1
  BY <1>3
<1> HIDE DEF a, fresh
<1>7. CASE /\ fresh <= MaxToken
           /\ session' = [session EXCEPT ![a] = fresh]
           /\ owner' = [owner EXCEPT ![fresh] = a]
           /\ signIn' = [signIn EXCEPT ![s].pc = "done", ![s].token = fresh]
  <2>1. fresh \in Tokens /\ n + 1 \in 0..MaxToken
    BY <1>5, <1>6, <1>7, AuthAssumption
  <2>2. \A t \in Tokens : owner'[t] = IF t = fresh THEN a ELSE owner[t]
    BY <1>5, <1>7
  <2>3. Issued' = Issued \union {fresh}
    BY <1>4, <2>1, <2>2 DEF Issued
  <2>4. Issued' = 1..(n + 1)
    BY <1>2, <1>6, <2>3
  <2>5. IssuedInv'
    BY <2>1, <2>4 DEF IssuedInv
  <2>6. fresh \notin Issued
    BY <1>2, <1>6
  <2>7. OwnersStay
    BY <2>2, <2>3, <2>6 DEF OwnersStay, Issued
  <2>8. fresh \in Issued' /\ owner'[fresh] = a
    BY <2>1, <2>2, <2>3
  <2>9. \A b \in Accounts : session'[b] # 0 => session'[b] \in Issued' /\ owner'[session'[b]] = b
    BY <1>5, <1>7, <2>7, <2>8 DEF ServerInv, OwnersInv, OwnersStay
  <2>10. /\ signIn'[s].account = a /\ signIn'[s].token = fresh
         /\ \A r \in Slots \ {s} : signIn'[r] = signIn[r]
    BY <1>5, <1>7 DEF SignIn, a
  <2>11. \A r \in Slots : signIn'[r].pc = "done" =>
          /\ signIn'[r].account \in Accounts
          /\ signIn'[r].token \in Issued' /\ owner'[signIn'[r].token] = signIn'[r].account
    BY <1>4, <2>7, <2>8, <2>10 DEF ServerInv, OwnersInv, OwnersStay
  <2> QED  BY <1>1, <2>5, <2>7, <2>9, <2>11 DEF ServerInv, OwnersInv
<1>8. CASE /\ signIn' = [signIn EXCEPT ![s].pc = "failed"]
           /\ UNCHANGED <<session, owner>>
  <2>1. Issued' = Issued
    BY <1>8 DEF Issued
  <2>2. signIn'[s].pc = "failed" /\ \A r \in Slots \ {s} : signIn'[r] = signIn[r]
    BY <1>5, <1>8 DEF SignIn
  <2>3. OwnersInv'
    BY <1>8, <2>1, <2>2 DEF ServerInv, OwnersInv
  <2> QED  BY <1>1, <1>8, <2>1, <2>3 DEF ServerInv, IssuedInv, OwnersStay
<1> QED  BY <1>7, <1>8 DEF WriteSession, a, fresh

\* Where tokens and rows are as they were, or rows lose their token, and no
\* sign-in is answered, all that was issued keeps its owner.
LEMMA ServerKeeps ==
    ASSUME ServerInv, AuthTypes', SlotInv', owner' = owner,
           \A a \in Accounts : session'[a] \in {0, session[a]},
           \A s \in Slots : signIn'[s].pc = "done" =>
              /\ signIn[s].pc = "done" /\ signIn'[s].account = signIn[s].account
              /\ signIn'[s].token = signIn[s].token
    PROVE  ServerInv' /\ OwnersStay
<1>1. Issued' = Issued
  BY DEF Issued
<1>2. IssuedInv'
  BY <1>1 DEF ServerInv, IssuedInv
<1>3. OwnersInv'
  BY <1>1 DEF ServerInv, OwnersInv
<1> QED  BY <1>1, <1>2, <1>3 DEF ServerInv, OwnersStay

\* Every step at the server keeps all this.
LEMMA ServerStep ==
    ASSUME ServerInv, BrowserStep \/ \E faults \in SUBSET SessionFaults : AuthServerStep(faults)
    PROVE  ServerInv' /\ OwnersStay
<1>0. AuthTypes /\ SlotInv /\ signIn \in [Slots -> SignIn] /\ session \in [Accounts -> 0..MaxToken]
  BY DEF ServerInv, AuthTypes, SignIn
<1>1. CASE UNCHANGED authVars
  <2>1. AuthTypes' /\ SlotInv'
    BY <1>0, <1>1 DEF authVars, AuthTypes, SlotInv
  <2> QED  BY <1>1, <2>1, ServerKeeps DEF authVars
<1>2. CASE SlotsChange
  <2>1. \A s \in Slots : signIn'[s] \in {signIn[s], IdleSignIn, [signIn[s] EXCEPT !.client = Nobody]}
    BY <1>0, <1>2 DEF SlotsChange, Abandon
  <2>2. IdleSignIn \in SignIn
    BY AuthAssumption DEF IdleSignIn, SignIn
  <2>3. \A r \in SignIn : /\ [r EXCEPT !.client = Nobody] \in SignIn
                          /\ [r EXCEPT !.client = Nobody].pc = r.pc
                          /\ [r EXCEPT !.client = Nobody].account = r.account
                          /\ [r EXCEPT !.client = Nobody].flow = r.flow
                          /\ [r EXCEPT !.client = Nobody].token = r.token
    BY DEF SignIn
  <2>4. signIn' \in [Slots -> SignIn]
    <3>1. \A s \in Slots : signIn'[s] \in SignIn
      BY <1>0, <2>1, <2>2, <2>3
    <3>2. \E f : signIn' = [s \in Slots |-> f[s]]
      <4>1. CASE \E s \in Slots : signIn' = [signIn EXCEPT ![s] = IdleSignIn]
        BY <1>0, <4>1
      <4>2. CASE \E c \in Clients : signIn' = Abandon(c)
        BY <4>2 DEF Abandon
      <4> QED  BY <1>2, <4>1, <4>2 DEF SlotsChange
    <3> QED  BY <3>1, <3>2
  <2>c. \A s \in Slots :
          \/ signIn'[s].pc = "free"
          \/ /\ signIn'[s].pc = signIn[s].pc /\ signIn'[s].account = signIn[s].account
             /\ signIn'[s].flow = signIn[s].flow /\ signIn'[s].token = signIn[s].token
    <3> SUFFICES ASSUME NEW s \in Slots
                 PROVE  \/ signIn'[s].pc = "free"
                        \/ /\ signIn'[s].pc = signIn[s].pc /\ signIn'[s].account = signIn[s].account
                           /\ signIn'[s].flow = signIn[s].flow /\ signIn'[s].token = signIn[s].token
      OBVIOUS
    <3>1. IdleSignIn.pc = "free" /\ signIn[s] \in SignIn
      BY <1>0 DEF IdleSignIn
    <3> QED  BY <2>1, <2>3, <3>1
  <2>5. SlotInv'
    BY <1>0, <2>c DEF SlotInv
  <2>6. AuthTypes'
    BY <1>0, <1>2, <2>4 DEF SlotsChange, AuthTypes, SignIn
  <2>7. \A s \in Slots : signIn'[s].pc = "done" =>
              /\ signIn[s].pc = "done" /\ signIn'[s].account = signIn[s].account
              /\ signIn'[s].token = signIn[s].token
    BY <2>c
  <2> QED  BY <1>2, <2>5, <2>6, <2>7, ServerKeeps DEF SlotsChange
<1>3. CASE \E s \in Slots, c \in Clients :
              \/ \E a \in Accounts \union {Nobody} : LoginRequest(s, c, a)
              \/ \E f \in Flows : CallbackRequest(s, c, f)
  <2>1. PICK s \in Slots : \E c \in Clients :
              \/ \E a \in Accounts \union {Nobody} : LoginRequest(s, c, a)
              \/ \E f \in Flows : CallbackRequest(s, c, f)
    BY <1>3
  <2>2. AuthTypes' /\ SlotInv'
    BY <1>0, <2>1, TypesSlot
  <2>3. signIn'[s].pc # "done" /\ \A r \in Slots \ {s} : signIn'[r] = signIn[r]
    <3>1. ASSUME NEW new, new.pc # "done", signIn' = [signIn EXCEPT ![s] = new]
          PROVE  signIn'[s].pc # "done" /\ \A r \in Slots \ {s} : signIn'[r] = signIn[r]
      BY <1>0, <3>1
    <3>2. PICK c \in Clients : \/ \E a \in Accounts \union {Nobody} : LoginRequest(s, c, a)
                               \/ \E f \in Flows : CallbackRequest(s, c, f)
      BY <2>1
    <3>3. ASSUME NEW a \in Accounts \union {Nobody}, LoginRequest(s, c, a)
          PROVE  signIn'[s].pc # "done" /\ \A r \in Slots \ {s} : signIn'[r] = signIn[r]
      <4> DEFINE new == [IdleSignIn EXCEPT !.pc = IF a = Nobody THEN "failed" ELSE "select",
                                           !.client = c, !.account = a]
      <4>1. new.pc # "done"
        BY DEF IdleSignIn
      <4>2. signIn' = [signIn EXCEPT ![s] = new]
        BY <3>3 DEF LoginRequest
      <4> HIDE DEF new
      <4> QED  BY <3>1, <4>1, <4>2
    <3>4. ASSUME NEW f \in Flows, CallbackRequest(s, c, f)
          PROVE  signIn'[s].pc # "done" /\ \A r \in Slots \ {s} : signIn'[r] = signIn[r]
      <4> DEFINE new == [IdleSignIn EXCEPT !.pc = IF flow[f] = "pending" THEN "exchange" ELSE "failed",
                                           !.client = c, !.flow = f]
      <4>1. new.pc # "done"
        BY DEF IdleSignIn
      <4>2. signIn' = [signIn EXCEPT ![s] = new]
        BY <3>4 DEF CallbackRequest
      <4> HIDE DEF new
      <4> QED  BY <3>1, <4>1, <4>2
    <3> QED  BY <3>2, <3>3, <3>4
  <2>4. owner' = owner /\ session' = session
    BY <2>1 DEF LoginRequest, CallbackRequest
  <2> QED  BY <2>2, <2>3, <2>4, ServerKeeps
<1>4. CASE \/ \E f \in Flows : StartFlow(f) \/ FlowTimesOut(f)
           \/ \E t \in Tokens : LogoutToken(t)
           \/ \E a \in Accounts : RevokeSession(a) \/ ExpireSession(a)
           \/ ServerRestart
  <2>1. AuthTypes' /\ SlotInv'
    BY <1>0, <1>4, TypesRest
  <2>2. owner' = owner /\ \A a \in Accounts : session'[a] \in {0, session[a]}
    BY <1>0, <1>4 DEF StartFlow, FlowTimesOut, LogoutToken, RevokeSession, ExpireSession, ServerRestart
  <2>3. \A s \in Slots : signIn'[s].pc = "done" =>
              /\ signIn[s].pc = "done" /\ signIn'[s].account = signIn[s].account
              /\ signIn'[s].token = signIn[s].token
    <3>1. CASE ServerRestart
      BY <1>0, <3>1 DEF ServerRestart, SignIn
    <3>2. CASE signIn' = signIn
      BY <3>2
    <3> QED  BY <1>4, <3>1, <3>2 DEF StartFlow, FlowTimesOut, LogoutToken, RevokeSession, ExpireSession
  <2> QED  BY <2>1, <2>2, <2>3, ServerKeeps
<1>5. CASE \E s \in Slots : Exchange(s) \/ SelectUser(s)
  <2>1. PICK s \in Slots : Exchange(s) \/ SelectUser(s)
    BY <1>5
  <2>2. AuthTypes' /\ SlotInv'
    BY <1>0, <2>1, TypesSlot
  <2>3. signIn'[s].pc # "done" /\ \A r \in Slots \ {s} : signIn'[r] = signIn[r]
    BY <1>0, <2>1 DEF Exchange, SelectUser, SignIn
  <2>4. owner' = owner /\ session' = session
    BY <2>1 DEF Exchange, SelectUser
  <2> QED  BY <2>2, <2>3, <2>4, ServerKeeps
<1>6. CASE \E s \in Slots : WriteSession(s)
  BY <1>6, WriteIssues
<1> QED  BY <1>1, <1>2, <1>3, <1>4, <1>5, <1>6 DEF BrowserStep, AuthServerStep

----------------------------------------------------------------------------
\* One tab: its store, and the answers it waits for.
StoreState == [token: 0..MaxToken, user: Accounts \union {Nobody},
               confirmed: BOOLEAN, error: BOOLEAN]

\* A question about a token.
Asked == [token: Tokens, then: Pages \union {"stay", "gate"},
          answer: Accounts \union {"sent", "denied", "error"}]

\* Tokens were issued, and an answer names the owner of the token asked about.
TabTold(st, q, issued, own) ==
    /\ st \in StoreState /\ q \in Seq(Asked) /\ st.token \in issued \union {0}
    /\ \A i \in DOMAIN q :
          /\ q[i].token \in issued
          /\ q[i].answer \in Accounts => own[q[i].token] = q[i].answer

\* The last answer a tab waits for is about the token it has; when it waits for
\* none, it shows the owner of that token.
TabSettles(st, q, own) ==
    /\ q # <<>> /\ st.token # 0 => q[Len(q)].token = st.token
    /\ q = <<>> /\ st.token # 0 /\ st.user # Nobody => own[st.token] = st.user

\* While the API answers, only a session that was denied is in error.
TabDenied(st, q) ==
    /\ st.error => st.user = Nobody
    /\ \A i \in DOMAIN q : q[i].answer # "error"

\* Circumstances in which answers do not overtake each other, the API answers,
\* and no link brings a token.
Steady(faults) == faults \intersect {"reorder", "unreachable", "link"} = {}

\* All of it, each under the circumstances it needs.
TabOk(st, q, issued, own, faults) ==
    /\ TabTold(st, q, issued, own)
    /\ Steady(faults) => TabSettles(st, q, own)
    /\ "unreachable" \notin faults => TabDenied(st, q)

\* Every tab, with the store and the questions it has.
TabsInv ==
    /\ store \in [Clients -> StoreState] /\ asking \in [Clients -> Seq(Asked)]
    /\ \A c \in Clients : TabOk(store[c], asking[c], Issued, owner, sessionMode.faults)

\* What the tabs share, and where they are.
BrowserInv ==
    /\ {rbToken, persisted} \subseteq Issued \union {0}
    /\ page \in [Clients -> Pages]
    /\ leaving \subseteq Tokens
    /\ sessionMode \in SessionModes

\* More tokens are issued; nothing becomes of a tab.
LEMMA TabGrown ==
    ASSUME NEW st, NEW q, NEW issued, NEW own, NEW faults, TabOk(st, q, issued, own, faults),
           NEW issued2, NEW own2, \A t \in issued : t \in issued2 /\ own2[t] = own[t]
    PROVE  TabOk(st, q, issued2, own2, faults)
<1>1. TabTold(st, q, issued2, own2)
  BY DEF TabOk, TabTold
<1>2. ASSUME Steady(faults) PROVE TabSettles(st, q, own2)
  BY <1>2 DEF TabOk, TabSettles, TabTold
<1> QED  BY <1>1, <1>2 DEF TabOk

\* Another question, about the token the store has by then (useAuth.ts: fetchUser).
LEMMA TabAsks ==
    ASSUME NEW st0, NEW q, NEW issued \in SUBSET Tokens, NEW own, NEW faults,
           TabOk(st0, q, issued, own, faults),
           NEW st \in StoreState, st.token \in issued,
           "unreachable" \notin faults => (st.error => st.user = Nobody),
           NEW then \in Pages \union {"stay", "gate"}
    PROVE  TabOk(st, Append(q, Question(st.token, then)), issued, own, faults)
<1> DEFINE x == Question(st.token, then)
           r == Append(q, x)
<1>1. q \in Seq(Asked)
  BY DEF TabOk, TabTold
<1>2. x \in Asked /\ x.token = st.token /\ x.answer = "sent"
  BY DEF Question, Asked
<1>3. "sent" \notin Accounts
  BY SessionAssumption
<1> HIDE DEF x
<1>4. /\ r \in Seq(Asked) /\ Len(r) = Len(q) + 1 /\ DOMAIN r = 1..(Len(q) + 1)
      /\ \A i \in 1..Len(q) : r[i] = q[i]
      /\ r[Len(q) + 1] = x /\ Len(q) \in Nat /\ DOMAIN q = 1..Len(q)
  BY <1>1, <1>2
<1>5. r # <<>>
  BY <1>4
<1> HIDE DEF r
<1>6. TabTold(st, r, issued, own)
  <2> SUFFICES ASSUME NEW i \in DOMAIN r
               PROVE  /\ r[i].token \in issued
                      /\ r[i].answer \in Accounts => own[r[i].token] = r[i].answer
    BY <1>4 DEF TabTold
  <2>1. CASE i = Len(q) + 1
    BY <1>2, <1>3, <1>4, <2>1
  <2>2. CASE i \in DOMAIN q
    BY <1>4, <2>2 DEF TabOk, TabTold
  <2> QED  BY <1>4, <2>1, <2>2
<1>7. TabSettles(st, r, own)
  BY <1>2, <1>4, <1>5 DEF TabSettles
<1>8. ASSUME "unreachable" \notin faults PROVE TabDenied(st, r)
  <2>1. \A i \in DOMAIN q : q[i].answer # "error"
    BY <1>8 DEF TabOk, TabDenied
  <2> QED  BY <1>2, <1>4, <1>8, <2>1 DEF TabDenied
<1> QED  BY <1>6, <1>7, <1>8 DEF TabOk, r, x

\* A page load, with or without a token kept (useAuth.ts: onRehydrateStorage).
LEMMA TabLoads ==
    ASSUME NEW issued \in SUBSET Tokens, NEW own, NEW faults, NEW t \in issued \union {0}
    PROVE  LET st == [SignedOut EXCEPT !.token = t]
           IN  /\ st \in StoreState /\ SignedOut \in StoreState
               /\ TabOk(SignedOut, <<>>, issued, own, faults)
               /\ TabOk(st, IF t = 0 THEN <<>> ELSE <<Question(t, "stay")>>, issued, own, faults)
<1> DEFINE st == [SignedOut EXCEPT !.token = t]
<1>0. t \in 0..MaxToken /\ 0 \in 0..MaxToken
  BY AuthAssumption DEF Tokens
<1>a. SignedOut \in StoreState /\ SignedOut.token = 0 /\ SignedOut.user = Nobody /\ SignedOut.error = FALSE
  BY <1>0 DEF SignedOut, StoreState
<1>1. st \in StoreState /\ st.token = t /\ st.user = Nobody /\ SignedOut \in StoreState
  BY <1>0, <1>a DEF StoreState
<1>2. TabOk(SignedOut, <<>>, issued, own, faults)
  BY <1>a DEF TabOk, TabTold, TabSettles, TabDenied
<1>3. CASE t = 0
  <2>1. st = SignedOut
    BY <1>3, <1>a DEF StoreState
  <2> QED  BY <1>1, <1>2, <1>3, <2>1
<1>4. CASE t # 0
  <2> HIDE DEF st
  <2>1. TabOk(st, Append(<<>>, Question(st.token, "stay")), issued, own, faults)
    BY <1>1, <1>2, <1>4, TabAsks
  <2>2. Append(<<>>, Question(t, "stay")) = <<Question(t, "stay")>>
    OBVIOUS
  <2>3. <<Question(t, "stay")>> = IF t = 0 THEN <<>> ELSE <<Question(t, "stay")>>
    BY <1>4
  <2>4. TabOk(st, <<Question(t, "stay")>>, issued, own, faults)
    BY <1>1, <2>1, <2>2, Zenon
  <2> QED  BY <1>1, <1>2, <2>3, <2>4, Zenon DEF st
<1> QED  BY <1>3, <1>4

\* The answer of the server, or none (GET /auth/me).
LEMMA TabServed ==
    ASSUME NEW st, NEW q, NEW issued \in SUBSET Tokens, NEW own, NEW faults,
           TabOk(st, q, issued, own, faults), NEW i \in DOMAIN q,
           NEW a \in Accounts \union {"denied", "error"},
           a \in Accounts => own[q[i].token] = a,
           "unreachable" \notin faults => a # "error"
    PROVE  TabOk(st, [q EXCEPT ![i].answer = a], issued, own, faults)
<1> DEFINE x == [q[i] EXCEPT !.answer = a]
           r == [q EXCEPT ![i] = x]
<1>1. q \in Seq(Asked) /\ DOMAIN q = 1..Len(q) /\ Len(q) \in Nat
  BY DEF TabOk, TabTold
<1>2. x \in Asked /\ x.token = q[i].token /\ x.answer = a
  <2>1. q[i] \in Asked
    BY <1>1
  <2> QED  BY <2>1 DEF Asked
<1>3. [q EXCEPT ![i].answer = a] = r
  OBVIOUS
<1> HIDE DEF x
<1>4. /\ r \in Seq(Asked) /\ Len(r) = Len(q) /\ DOMAIN r = DOMAIN q
      /\ \A k \in DOMAIN q : r[k] = IF k = i THEN x ELSE q[k]
  <2>1. r \in Seq(Asked) /\ Len(r) = Len(q) /\ \A k \in DOMAIN q : r[k] = IF k = i THEN x ELSE q[k]
    BY <1>1, <1>2, ExceptSeq
  <2> QED  BY <1>1, <2>1
<1>5. r = <<>> <=> q = <<>>
  BY <1>1, <1>4
<1> HIDE DEF r
<1>6. TabTold(st, r, issued, own)
  BY <1>2, <1>4 DEF TabOk, TabTold
<1>7. ASSUME Steady(faults) PROVE TabSettles(st, r, own)
  <2>1. r # <<>> => r[Len(r)].token = q[Len(q)].token
    BY <1>1, <1>2, <1>4, <1>5
  <2> QED  BY <1>5, <1>7, <2>1 DEF TabOk, TabSettles
<1>8. ASSUME "unreachable" \notin faults PROVE TabDenied(st, r)
  BY <1>2, <1>4, <1>8 DEF TabOk, TabDenied
<1> QED  BY <1>3, <1>6, <1>7, <1>8 DEF TabOk

\* The answer at the tab (useAuth.ts: fetchUser).
LEMMA TabAnswered ==
    ASSUME NEW st, NEW q, NEW issued \in SUBSET Tokens, NEW own, NEW faults,
           TabOk(st, q, issued, own, faults), NEW i \in DOMAIN q,
           q[i].answer # "sent", "reorder" \in faults \/ i = 1
    PROVE  /\ Told(st, q[i].answer) \in StoreState
           /\ Told(st, q[i].answer).token \in {0, st.token}
           /\ TabOk(Told(st, q[i].answer), RemoveAt(q, i), issued, own, faults)
<1> DEFINE a == q[i].answer
           new == Told(st, a)
           r == RemoveAt(q, i)
<1>1. /\ q \in Seq(Asked) /\ DOMAIN q = 1..Len(q) /\ Len(q) \in Nat /\ st \in StoreState
      /\ st.token \in issued \union {0}
  BY DEF TabOk, TabTold
<1>2. a \in Accounts \union {"denied", "error"} /\ (a \in Accounts => own[q[i].token] = a)
  <2>1. q[i] \in Asked
    BY <1>1
  <2>2. a \in Accounts \union {"sent", "denied", "error"}
    BY <2>1 DEF Asked
  <2>3. a \in Accounts => own[q[i].token] = a
    BY DEF TabOk, TabTold
  <2> QED  BY <2>2, <2>3
<1>3. /\ r \in Seq(Asked) /\ Len(r) = Len(q) - 1
      /\ \A k \in 1..(Len(q) - 1) : r[k] = IF k < i THEN q[k] ELSE q[k + 1]
  BY <1>1, RemovedAt
<1>4. DOMAIN r = 1..(Len(q) - 1) /\ \A k \in DOMAIN r : \E m \in DOMAIN q : r[k] = q[m]
  <2>1. DOMAIN r = 1..(Len(q) - 1)
    BY <1>1, <1>3
  <2>2. ASSUME NEW k \in 1..(Len(q) - 1) PROVE \E m \in DOMAIN q : r[k] = q[m]
    <3>1. k \in DOMAIN q /\ k + 1 \in DOMAIN q
      BY <1>1, <2>2
    <3> QED  BY <1>3, <3>1
  <2> QED  BY <2>1, <2>2
<1>5. Accounts \intersect {Nobody, "sent", "denied", "error"} = {}
  BY SessionAssumption
<1>6. /\ a = "denied" => new = [SignedOut EXCEPT !.error = TRUE]
      /\ a = "error" => new = [st EXCEPT !.error = TRUE]
      /\ a \in Accounts => new = [st EXCEPT !.user = a, !.confirmed = TRUE, !.error = FALSE]
  BY <1>5 DEF Told
<1> HIDE DEF a, new, r
<1>7. /\ new \in StoreState
      /\ a = "denied" => new.token = 0 /\ new.user = Nobody
      /\ a = "error" => new.token = st.token
      /\ a \in Accounts => new.token = st.token /\ new.user = a /\ ~new.error
  <2>0. 0 \in 0..MaxToken
    BY AuthAssumption
  <2>1. CASE a = "denied"
    <3>1. new = [token |-> 0, user |-> Nobody, confirmed |-> FALSE, error |-> TRUE]
      BY <1>6, <2>1 DEF SignedOut
    <3>2. new \in StoreState
      BY <2>0, <3>1 DEF StoreState
    <3>3. a \notin Accounts /\ a # "error"
      BY <1>5, <2>1
    <3> QED  BY <3>1, <3>2, <3>3
  <2>2. CASE a = "error"
    BY <1>1, <1>5, <1>6, <2>2 DEF StoreState
  <2>3. CASE a \in Accounts
    BY <1>1, <1>5, <1>6, <2>3 DEF StoreState
  <2> QED  BY <1>2, <2>1, <2>2, <2>3
<1>8. TabTold(new, r, issued, own)
  <2>1. \A k \in DOMAIN r : /\ r[k].token \in issued
                            /\ r[k].answer \in Accounts => own[r[k].token] = r[k].answer
    BY <1>4 DEF TabOk, TabTold
  <2> QED  BY <1>1, <1>2, <1>3, <1>7, <2>1 DEF TabTold
<1>9. ASSUME Steady(faults) PROVE TabSettles(new, r, own)
  <2>1. i = 1 /\ a # "error" /\ TabSettles(st, q, own)
    BY <1>9 DEF Steady, TabOk, TabDenied, a
  <2>2. CASE a = "denied"
    BY <1>7, <2>2 DEF TabSettles
  <2>3. CASE a \in Accounts
    <3>1. q # <<>>
      BY <1>1
    <3>2. CASE r = <<>>
      <4>1. Len(q) = 1
        <5>1. Len(r) = 0
          BY <3>2
        <5>2. Len(r) = Len(q) - 1 /\ Len(q) \in Nat
          BY <1>1, <1>3
        <5> QED  BY <5>1, <5>2
      <4> QED  BY <1>2, <1>7, <2>1, <2>3, <3>1, <3>2, <4>1 DEF TabSettles
    <3>3. CASE r # <<>>
      <4>1. Len(q) - 1 \in 1..(Len(q) - 1)
        BY <1>1, <1>3, <3>3, EmptySeq
      <4>2. r[Len(r)] = q[Len(q)]
        BY <1>1, <1>3, <2>1, <4>1
      <4> QED  BY <1>7, <2>1, <2>3, <3>1, <3>3, <4>2 DEF TabSettles
    <3> QED  BY <3>2, <3>3
  <2> QED  BY <1>2, <2>1, <2>2, <2>3
<1>10. ASSUME "unreachable" \notin faults PROVE TabDenied(new, r)
  <2>1. a # "error" /\ \A k \in DOMAIN r : r[k].answer # "error"
    BY <1>4, <1>10 DEF TabOk, TabDenied, a
  <2> QED  BY <1>2, <1>7, <2>1 DEF TabDenied
<1>11. TabOk(new, r, issued, own, faults)
  BY <1>8, <1>9, <1>10 DEF TabOk
<1> QED  BY <1>2, <1>7, <1>11 DEF a, new, r

----------------------------------------------------------------------------
\* A change of one tab, by which nothing becomes of others or of the owners.
LEMMA TabChanges ==
    ASSUME TabsInv, OwnersStay, sessionMode' = sessionMode, NEW c \in Clients,
           \E st, q : /\ store' = [store EXCEPT ![c] = st] /\ asking' = [asking EXCEPT ![c] = q]
                      /\ TabOk(st, q, Issued, owner, sessionMode.faults)
    PROVE  TabsInv'
<1>1. PICK st, q : /\ store' = [store EXCEPT ![c] = st] /\ asking' = [asking EXCEPT ![c] = q]
                   /\ TabOk(st, q, Issued, owner, sessionMode.faults)
  OBVIOUS
<1>2. st \in StoreState /\ q \in Seq(Asked)
  BY <1>1 DEF TabOk, TabTold
<1>3. store' \in [Clients -> StoreState] /\ asking' \in [Clients -> Seq(Asked)]
  BY <1>1, <1>2 DEF TabsInv
<1>4. \A d \in Clients : TabOk(store'[d], asking'[d], Issued, owner, sessionMode.faults)
  <2> SUFFICES ASSUME NEW d \in Clients
               PROVE  TabOk(store'[d], asking'[d], Issued, owner, sessionMode.faults)
    OBVIOUS
  <2>1. CASE d = c
    BY <1>1, <2>1 DEF TabsInv
  <2>2. CASE d # c
    <3>1. store'[d] = store[d] /\ asking'[d] = asking[d]
      BY <1>1, <2>2 DEF TabsInv
    <3> QED  BY <3>1 DEF TabsInv
  <2> QED  BY <2>1, <2>2
<1>5. \A d \in Clients : TabOk(store'[d], asking'[d], Issued', owner', sessionMode.faults)
  BY <1>4, TabGrown DEF OwnersStay
<1> QED  BY <1>3, <1>5 DEF TabsInv

\* No tab changes.
LEMMA TabsStand ==
    ASSUME TabsInv, OwnersStay, sessionMode' = sessionMode, store' = store, asking' = asking
    PROVE  TabsInv'
<1>1. \A d \in Clients : TabOk(store[d], asking[d], Issued', owner', sessionMode.faults)
  BY TabGrown DEF OwnersStay, TabsInv
<1> QED  BY <1>1 DEF TabsInv

\* The rest of the browser: localStorage has issued tokens, pages are pages.
LEMMA BrowserChanges ==
    ASSUME BrowserInv, OwnersStay, sessionMode' = sessionMode,
           {rbToken', persisted'} \subseteq Issued \union {0},
           page' \in [Clients -> Pages], leaving' \subseteq Tokens
    PROVE  BrowserInv'
BY DEF BrowserInv, OwnersStay

\* Tokens and roles.
LEMMA SessionFacts ==
    /\ Issued \subseteq Tokens /\ 0 \notin Tokens /\ Issued \union {0} \subseteq 0..MaxToken
    /\ \A a \in Accounts : RoleOf[a] \in Pages
    /\ {"landing", "login", "callback"} \subseteq Pages
BY AuthAssumption DEF Issued, Tokens, Pages, Roles

\* The steps that load a page: by its address or a link, back from Swiggy, or
\* after the logout (App.tsx: TokenCapture; useAuth.ts; AuthCallback.tsx).
LEMMA LoadsStep ==
    ASSUME ServerInv, TabsInv, BrowserInv, sessionMode' = sessionMode, NEW c \in sessionMode.tabs,
           \/ \E p \in Addresses : OpenPage(c, p)
           \/ \E t \in Tokens : OpenWithToken(c, t)
           \/ \E s \in sessionMode.slots, f \in sessionMode.flows : ReturnFromSwiggy(c, s, f)
           \/ Logout(c)
    PROVE  ServerInv' /\ TabsInv' /\ BrowserInv'
<1>0. sessionMode \in SessionMode /\ c \in Clients
  BY SessionAssumption DEF BrowserInv, SessionMode
<1>1. persisted \in Issued \union {0} /\ rbToken \in Issued \union {0} /\ page \in [Clients -> Pages]
      /\ leaving \subseteq Tokens /\ Issued \in SUBSET Tokens
  BY SessionFacts DEF BrowserInv
<1>2. ASSUME NEW p \in Pages, Load(c, p), OwnersStay, leaving' = leaving
      PROVE  TabsInv' /\ BrowserInv'
  <2> DEFINE st == [SignedOut EXCEPT !.token = persisted]
             q == IF persisted = 0 THEN <<>> ELSE <<Question(persisted, "stay")>>
  <2>1. /\ store' = [store EXCEPT ![c] = st] /\ asking' = [asking EXCEPT ![c] = q]
        /\ persisted' = st.token
        /\ rbToken' = IF persisted = 0 THEN rbToken ELSE persisted
        /\ page' = [page EXCEPT ![c] = p]
    BY <1>2 DEF Load, SetStore
  <2>2. TabOk(st, q, Issued, owner, sessionMode.faults)
    BY <1>1, TabLoads
  <2>3. st.token = persisted
    BY DEF SignedOut
  <2> HIDE DEF st, q
  <2>4. TabsInv'
    BY <1>0, <1>2, <2>1, <2>2, TabChanges
  <2>5. page' \in [Clients -> Pages] /\ {rbToken', persisted'} \subseteq Issued \union {0}
        /\ leaving' \subseteq Tokens
    BY <1>1, <1>2, <2>1, <2>3
  <2>6. BrowserInv'
    BY <1>2, <2>5, BrowserChanges
  <2> QED  BY <2>4, <2>6
<1>3. CASE \E p \in Addresses : OpenPage(c, p)
  <2>1. PICK p \in Pages : OpenPage(c, p)
    BY <1>3, SessionAssumption
  <2>2. BrowserStep
    BY <1>0, <2>1 DEF OpenPage, BrowserStep, SlotsChange
  <2>3. ServerInv' /\ OwnersStay
    BY <2>2, ServerStep
  <2> QED  BY <1>2, <2>1, <2>3 DEF OpenPage
<1>4. CASE \E t \in Tokens : OpenWithToken(c, t)
  <2>1. PICK t \in Tokens : OpenWithToken(c, t)
    BY <1>4
  <2>2. BrowserStep
    BY <1>0, <2>1 DEF OpenWithToken, BrowserStep, SlotsChange
  <2>3. ServerInv' /\ OwnersStay
    BY <2>2, ServerStep
  <2> DEFINE st == [SignedOut EXCEPT !.token = t]
             old == [SignedOut EXCEPT !.token = persisted]
             q == IF persisted = 0 THEN <<>> ELSE <<Question(persisted, "stay")>>
  <2>4. /\ store' = [store EXCEPT ![c] = st] /\ asking' = [asking EXCEPT ![c] = q]
        /\ persisted' = st.token /\ rbToken' = t /\ page' = [page EXCEPT ![c] = "landing"]
        /\ leaving' = leaving /\ t \in Issued /\ "link" \in sessionMode.faults
    BY <2>1 DEF OpenWithToken, SetStore
  <2>5. TabOk(old, q, Issued, owner, sessionMode.faults) /\ st \in StoreState
    BY <1>1, <2>4, TabLoads
  <2>6. st.token = t /\ st.user = Nobody /\ old.error = FALSE
    BY DEF SignedOut
  <2> HIDE DEF st, q, old
  <2>7. TabOk(st, q, Issued, owner, sessionMode.faults)
    BY <2>4, <2>5, <2>6 DEF TabOk, TabTold, TabDenied, Steady
  <2>8. TabsInv'
    BY <1>0, <2>3, <2>4, <2>7, TabChanges
  <2>9. page' \in [Clients -> Pages]
    BY <1>1, <2>4, SessionFacts
  <2>10. BrowserInv'
    BY <1>1, <2>3, <2>4, <2>6, <2>9, BrowserChanges
  <2> QED  BY <2>3, <2>8, <2>10
<1>5. CASE \E s \in sessionMode.slots, f \in sessionMode.flows : ReturnFromSwiggy(c, s, f)
  <2>1. PICK s \in Slots, f \in Flows : ReturnFromSwiggy(c, s, f)
    BY <1>0, <1>5 DEF SessionMode
  <2>2. BrowserStep
    BY <1>0, <2>1 DEF ReturnFromSwiggy, BrowserStep
  <2>3. ServerInv' /\ OwnersStay
    BY <2>2, ServerStep
  <2> QED  BY <1>2, <2>1, <2>3, SessionFacts DEF ReturnFromSwiggy
<1>6. CASE Logout(c)
  <2>2. BrowserStep
    BY <1>0, <1>6 DEF Logout, BrowserStep, SlotsChange
  <2>3. ServerInv' /\ OwnersStay
    BY <2>2, ServerStep
  <2>4. /\ store' = [store EXCEPT ![c] = SignedOut] /\ asking' = [asking EXCEPT ![c] = <<>>]
        /\ persisted' = SignedOut.token /\ rbToken' = 0 /\ page' = [page EXCEPT ![c] = "login"]
        /\ leaving' = leaving \union ({rbToken} \ {0})
    BY <1>6 DEF Logout, SetStore
  <2>5. TabOk(SignedOut, <<>>, Issued, owner, sessionMode.faults)
    BY <1>1, TabLoads
  <2>6. SignedOut.token = 0
    BY DEF SignedOut
  <2>7. TabsInv'
    BY <1>0, <2>3, <2>4, <2>5, TabChanges
  <2>8. page' \in [Clients -> Pages] /\ leaving' \subseteq Tokens
    BY <1>1, <2>4, SessionFacts
  <2>9. BrowserInv'
    BY <1>1, <2>3, <2>4, <2>6, <2>8, BrowserChanges
  <2> QED  BY <2>3, <2>7, <2>9
<1> QED  BY <1>3, <1>4, <1>5, <1>6

\* The steps that ask who the token's user is, anew: the answers to a sign-in, a
\* protected link, and a gate (Login.tsx, AuthCallback.tsx, useProtectedNavigate,
\* RequireRole).
LEMMA AsksStep ==
    ASSUME ServerInv, TabsInv, BrowserInv, sessionMode' = sessionMode, NEW c \in sessionMode.tabs,
           \/ \E s \in Slots : LoginAnswered(c, s) \/ CallbackAnswered(c, s)
           \/ GoProtected(c) \/ Redirect(c)
    PROVE  ServerInv' /\ TabsInv' /\ BrowserInv'
<1>0. sessionMode \in SessionMode /\ c \in Clients
  BY SessionAssumption DEF BrowserInv, SessionMode
<1>1. persisted \in Issued \union {0} /\ rbToken \in Issued \union {0} /\ page \in [Clients -> Pages]
      /\ leaving \subseteq Tokens /\ Issued \in SUBSET Tokens
  BY SessionFacts DEF BrowserInv
<1>2. /\ store[c] \in StoreState /\ asking \in [Clients -> Seq(Asked)]
      /\ TabOk(store[c], asking[c], Issued, owner, sessionMode.faults)
      /\ store[c].token \in Issued \union {0}
      /\ "unreachable" \notin sessionMode.faults => (store[c].error => store[c].user = Nobody)
  BY <1>0 DEF TabsInv, TabOk, TabTold, TabDenied
<1>3. ASSUME NEW st \in StoreState, st.token \in Issued,
             "unreachable" \notin sessionMode.faults => (st.error => st.user = Nobody),
             NEW then \in Pages \union {"stay", "gate"}, BrowserStep,
             store' = [store EXCEPT ![c] = st], persisted' \in {persisted, st.token},
             FetchUser(c, st.token, then), page' \in [Clients -> Pages], leaving' = leaving
      PROVE  ServerInv' /\ TabsInv' /\ BrowserInv'
  <2>1. ServerInv' /\ OwnersStay
    BY <1>3, ServerStep
  <2>2. asking' = [asking EXCEPT ![c] = Append(asking[c], Question(st.token, then))]
        /\ rbToken' = st.token
    BY <1>0, <1>2, <1>3 DEF FetchUser
  <2>3. TabOk(st, Append(asking[c], Question(st.token, then)), Issued, owner, sessionMode.faults)
    BY <1>1, <1>2, <1>3, TabAsks
  <2>4. TabsInv'
    BY <1>0, <1>3, <2>1, <2>2, <2>3, TabChanges
  <2>5. BrowserInv'
    BY <1>1, <1>3, <2>1, <2>2, BrowserChanges
  <2> QED  BY <2>1, <2>4, <2>5
<1>4. CASE \E s \in Slots : LoginAnswered(c, s) \/ CallbackAnswered(c, s)
  <2>1. PICK s \in Slots : LoginAnswered(c, s) \/ CallbackAnswered(c, s)
    BY <1>4
  <2>2. /\ signIn[s].account \in Accounts /\ signIn[s].token \in Issued
        /\ signIn[s].flow \in Flows \union {NoFlow} /\ signIn[s].token \in 0..MaxToken
    BY <2>1 DEF LoginAnswered, CallbackAnswered, ServerInv, OwnersInv, AuthTypes
  <2>3. BrowserStep
    BY <2>1 DEF LoginAnswered, CallbackAnswered, BrowserStep, SlotsChange
  <2>4. page' \in [Clients -> Pages] /\ leaving' = leaving
    BY <1>1, <2>1 DEF LoginAnswered, CallbackAnswered
  <2>5. CASE LoginAnswered(c, s)
    <3> DEFINE st == [token |-> signIn[s].token, user |-> signIn[s].account,
                      confirmed |-> FALSE, error |-> FALSE]
    <3>1. st \in StoreState /\ st.token = signIn[s].token /\ ~st.error
      BY <2>2 DEF StoreState
    <3>2. /\ store' = [store EXCEPT ![c] = st] /\ persisted' = st.token
          /\ FetchUser(c, st.token, RoleOf[signIn[s].account])
      BY <2>5 DEF LoginAnswered, SetStore
    <3>3. RoleOf[signIn[s].account] \in Pages
      BY <2>2, SessionFacts
    <3> HIDE DEF st
    <3> QED  BY <1>3, <2>2, <2>3, <2>4, <3>1, <3>2, <3>3
  <2>6. CASE CallbackAnswered(c, s)
    <3> DEFINE st == [store[c] EXCEPT !.token = signIn[s].token, !.error = FALSE]
    <3>1. st \in StoreState /\ st.token = signIn[s].token /\ ~st.error
      BY <1>2, <2>2 DEF StoreState
    <3>2. /\ store' = [store EXCEPT ![c] = st] /\ persisted' = st.token
          /\ FetchUser(c, st.token, RoleOf[FlowAccount[signIn[s].flow]])
      BY <2>6, <3>1 DEF CallbackAnswered, SetStore
    <3>3. signIn[s].flow \in Flows
      BY <2>2, <2>6 DEF CallbackAnswered
    <3>4. RoleOf[FlowAccount[signIn[s].flow]] \in Pages
      BY <3>3, SessionFacts, AuthAssumption
    <3> HIDE DEF st
    <3> QED  BY <1>3, <2>2, <2>3, <2>4, <3>1, <3>2, <3>4
  <2> QED  BY <2>1, <2>5, <2>6
<1>5. ASSUME UNCHANGED <<store, asking, rbToken, persisted, leaving, authVars>>,
             page' \in [Clients -> Pages]
      PROVE  ServerInv' /\ TabsInv' /\ BrowserInv'
  <2>1. BrowserStep
    BY <1>5 DEF BrowserStep
  <2>2. ServerInv' /\ OwnersStay
    BY <2>1, ServerStep
  <2>3. TabsInv'
    BY <1>5, <2>2, TabsStand
  <2>4. BrowserInv'
    BY <1>1, <1>5, <2>2, BrowserChanges
  <2> QED  BY <2>2, <2>3, <2>4
<1>6. CASE GoProtected(c)
  <2>1. CASE page' = [page EXCEPT ![c] = "login"] /\ UNCHANGED <<asking, rbToken>>
    <3>1. page' \in [Clients -> Pages]
      BY <1>1, <2>1, SessionFacts
    <3>2. UNCHANGED <<store, asking, rbToken, persisted, leaving, authVars>>
      BY <1>6, <2>1 DEF GoProtected
    <3> QED  BY <1>5, <3>1, <3>2
  <2>2. CASE store[c].token # 0 /\ FetchUser(c, store[c].token, "gate") /\ UNCHANGED page
    <3>1. store' = [store EXCEPT ![c] = store[c]]
      BY <1>6 DEF GoProtected, TabsInv
    <3>2. BrowserStep /\ persisted' = persisted /\ leaving' = leaving
      BY <1>6 DEF GoProtected, BrowserStep
    <3>3. page' \in [Clients -> Pages] /\ store[c].token \in Issued
      BY <1>1, <1>2, <2>2
    <3> QED  BY <1>2, <1>3, <2>2, <3>1, <3>2, <3>3
  <2> QED  BY <1>6, <2>1, <2>2 DEF GoProtected
<1>7. CASE Redirect(c)
  <2>1. PICK to : page' = [page EXCEPT ![c] = to]
                  /\ to \in {LoginSends(store[c]), GateSends(store[c], page[c])}
    BY <1>7 DEF Redirect
  <2>2. store[c].user # Nobody => RoleOf[store[c].user] \in Pages
    BY <1>2, SessionFacts DEF StoreState
  <2>3. LoginSends(store[c]) \in Pages
    BY <2>2, SessionFacts DEF LoginSends
  <2>4. GateSends(store[c], page[c]) \in Pages
    BY <1>0, <1>1, <2>2, SessionFacts DEF GateSends
  <2>5. page' \in [Clients -> Pages]
    BY <1>1, <2>1, <2>3, <2>4
  <2>6. CASE UNCHANGED <<store, persisted, asking, rbToken>>
    <3>1. UNCHANGED <<store, asking, rbToken, persisted, leaving, authVars>>
      BY <1>7, <2>6 DEF Redirect
    <3> QED  BY <1>5, <2>5, <3>1
  <2>7. CASE /\ store[c].token = 0 /\ rbToken # 0
             /\ SetStore(c, [store[c] EXCEPT !.token = rbToken])
             /\ FetchUser(c, rbToken, "stay")
    <3> DEFINE st == [store[c] EXCEPT !.token = rbToken]
    <3>1. /\ st \in StoreState /\ st.token = rbToken
          /\ st.error = store[c].error /\ st.user = store[c].user
      BY <1>1, <1>2, SessionFacts DEF StoreState
    <3>2. store' = [store EXCEPT ![c] = st] /\ persisted' = st.token /\ FetchUser(c, st.token, "stay")
      BY <2>7, <3>1 DEF SetStore
    <3>3. BrowserStep /\ leaving' = leaving
      BY <1>7 DEF Redirect, BrowserStep
    <3> HIDE DEF st
    <3>4. st.token \in Issued
      BY <1>1, <2>7, <3>1
    <3> QED  BY <1>2, <1>3, <2>5, <3>1, <3>2, <3>3, <3>4
  <2> QED  BY <1>7, <2>6, <2>7 DEF Redirect
<1> QED  BY <1>4, <1>6, <1>7

\* GET /auth/me at the server and back (auth.ts; useAuth.ts: fetchUser).
LEMMA MeStep ==
    ASSUME ServerInv, TabsInv, BrowserInv, sessionMode' = sessionMode, NEW c \in sessionMode.tabs,
           NEW i \in DOMAIN asking[c], MeServed(c, i) \/ MeAnswered(c, i)
    PROVE  ServerInv' /\ TabsInv' /\ BrowserInv'
<1>0. sessionMode \in SessionMode /\ c \in Clients
  BY SessionAssumption DEF BrowserInv, SessionMode
<1>1. persisted \in Issued \union {0} /\ rbToken \in Issued \union {0} /\ page \in [Clients -> Pages]
      /\ leaving \subseteq Tokens /\ Issued \in SUBSET Tokens
  BY SessionFacts DEF BrowserInv
<1>2. /\ store \in [Clients -> StoreState] /\ asking \in [Clients -> Seq(Asked)]
      /\ TabOk(store[c], asking[c], Issued, owner, sessionMode.faults)
  BY <1>0 DEF TabsInv
<1>3. UNCHANGED authVars /\ leaving' = leaving
  BY DEF MeServed, MeAnswered
<1>4. ServerInv' /\ OwnersStay
  BY <1>3, ServerStep DEF BrowserStep
<1>5. asking[c][i] \in Asked
  BY <1>0, <1>2
<1>6. CASE MeServed(c, i)
  <2> DEFINE t == asking[c][i].token
  <2>1. PICK a \in Accounts \union {"denied", "error"} :
           /\ a \in Accounts => a \in Authenticated(t)
           /\ a = "error" => "unreachable" \in sessionMode.faults
           /\ asking' = [asking EXCEPT ![c][i].answer = a]
    <3>1. Authenticated(t) \subseteq Accounts
      BY DEF Authenticated, ServerInv, AuthTypes
    <3>2. Accounts \intersect {"denied", "error"} = {}
      BY SessionAssumption
    <3>3. CASE \E a \in Authenticated(t) : asking' = [asking EXCEPT ![c][i].answer = a]
      BY <3>1, <3>2, <3>3
    <3>4. CASE asking' = [asking EXCEPT ![c][i].answer = "denied"]
      BY <3>2, <3>4
    <3>5. CASE "unreachable" \in sessionMode.faults /\ asking' = [asking EXCEPT ![c][i].answer = "error"]
      BY <3>2, <3>5
    <3> QED  BY <1>6, <3>3, <3>4, <3>5 DEF MeServed
  <2>2. a \in Accounts => owner[t] = a
    BY <2>1 DEF Authenticated, ServerInv, OwnersInv
  <2> DEFINE q == [asking[c] EXCEPT ![i].answer = a]
  <2>3. TabOk(store[c], q, Issued, owner, sessionMode.faults)
    BY <1>1, <1>2, <2>1, <2>2, TabServed
  <2>4. asking' = [asking EXCEPT ![c] = q] /\ store' = [store EXCEPT ![c] = store[c]]
        /\ UNCHANGED <<rbToken, persisted, page>>
    BY <1>2, <1>6, <2>1 DEF MeServed
  <2> HIDE DEF q
  <2>5. TabsInv'
    BY <1>0, <1>4, <2>3, <2>4, TabChanges
  <2>6. BrowserInv'
    BY <1>1, <1>3, <1>4, <2>4, BrowserChanges
  <2> QED  BY <1>4, <2>5, <2>6
<1>7. CASE MeAnswered(c, i)
  <2> DEFINE m == asking[c][i]
             st == Told(store[c], m.answer)
             q == RemoveAt(asking[c], i)
  <2>1. /\ m.answer # "sent" /\ ("reorder" \in sessionMode.faults \/ i = 1)
        /\ store' = [store EXCEPT ![c] = st] /\ persisted' = st.token
        /\ rbToken' \in {0, rbToken}
        /\ page' = [page EXCEPT ![c] = Destination(c, m, st)]
    BY <1>7 DEF MeAnswered, SetStore
  <2>2. asking' = [asking EXCEPT ![c] = q]
    BY <1>0, <1>2, <1>7 DEF MeAnswered
  <2>3. /\ st \in StoreState /\ st.token \in {0, store[c].token}
        /\ TabOk(st, q, Issued, owner, sessionMode.faults)
    BY <1>1, <1>2, <2>1, TabAnswered
  <2>4. store[c].token \in Issued \union {0}
    BY <1>2 DEF TabOk, TabTold
  <2>5. Destination(c, m, st) \in Pages
    <3>1. m.then \in Pages \union {"stay", "gate"}
      BY <1>5 DEF Asked
    <3> HIDE DEF st, m
    <3>2. st.user # Nobody => RoleOf[st.user] \in Pages
      BY <2>3, SessionFacts DEF StoreState
    <3> QED  BY <1>0, <1>1, <3>1, <3>2, SessionFacts DEF Destination
  <2> HIDE DEF st, q, m
  <2>6. TabsInv'
    BY <1>0, <1>4, <2>1, <2>2, <2>3, TabChanges
  <2>7. page' \in [Clients -> Pages]
    BY <1>1, <2>1, <2>5
  <2>8. BrowserInv'
    BY <1>1, <1>3, <1>4, <2>1, <2>3, <2>4, <2>7, BrowserChanges
  <2> QED  BY <1>4, <2>6, <2>8
<1> QED  BY <1>6, <1>7

\* The steps that leave the tabs as they are.
LEMMA QuietStep ==
    ASSUME ServerInv, TabsInv, BrowserInv, sessionMode' = sessionMode,
           \/ \E c \in sessionMode.tabs :
                 \/ \E s \in sessionMode.slots, a \in Accounts \union {Nobody} : SubmitLogin(c, s, a)
                 \/ \E f \in sessionMode.flows : LeaveForSwiggy(c, f)
           \/ \E s \in Slots : SignInFailed(s)
           \/ \E t \in leaving : LogoutArrives(t)
           \/ AuthServerStep(sessionMode.faults) /\ UNCHANGED <<store, rbToken, persisted, asking, page, leaving>>
           \/ UNCHANGED sessionVars
    PROVE  ServerInv' /\ TabsInv' /\ BrowserInv'
<1>0. sessionMode \in SessionMode
  BY SessionAssumption DEF BrowserInv
<1>1. /\ UNCHANGED <<store, rbToken, persisted, asking, page>>
      /\ leaving' \subseteq leaving
  BY DEF SubmitLogin, LeaveForSwiggy, SignInFailed, LogoutArrives, sessionVars
<1>2. BrowserStep \/ \E faults \in SUBSET SessionFaults : AuthServerStep(faults)
  <2>1. CASE \E c \in sessionMode.tabs :
                 \/ \E s \in sessionMode.slots, a \in Accounts \union {Nobody} : SubmitLogin(c, s, a)
                 \/ \E f \in sessionMode.flows : LeaveForSwiggy(c, f)
    <3>1. sessionMode.tabs \subseteq Clients /\ sessionMode.slots \subseteq Slots
          /\ sessionMode.flows \subseteq Flows
      BY <1>0 DEF SessionMode
    <3> QED  BY <2>1, <3>1 DEF SubmitLogin, LeaveForSwiggy, BrowserStep
  <2>2. CASE \E s \in Slots : SignInFailed(s)
    BY <2>2 DEF SignInFailed, BrowserStep, SlotsChange
  <2>3. CASE \E t \in leaving : LogoutArrives(t)
    <3>1. leaving \subseteq Tokens
      BY DEF BrowserInv
    <3> QED  BY <2>3, <3>1 DEF LogoutArrives, BrowserStep
  <2>4. CASE AuthServerStep(sessionMode.faults)
    <3>1. sessionMode.faults \in SUBSET SessionFaults
      BY <1>0 DEF SessionMode
    <3> QED  BY <2>4, <3>1
  <2>5. CASE UNCHANGED sessionVars
    BY <2>5 DEF sessionVars, BrowserStep
  <2> QED  BY <2>1, <2>2, <2>3, <2>4, <2>5
<1>3. ServerInv' /\ OwnersStay
  BY <1>2, ServerStep
<1>4. TabsInv'
  BY <1>1, <1>3, TabsStand
<1>5. BrowserInv'
  BY <1>1, <1>3, BrowserChanges DEF BrowserInv
<1> QED  BY <1>3, <1>4, <1>5

\* The hints of the login page: localStorage gets the token of a tab's store.
LEMMA HintsStep ==
    ASSUME ServerInv, TabsInv, BrowserInv, sessionMode' = sessionMode, NEW c \in sessionMode.tabs,
           HintsAnswered(c)
    PROVE  ServerInv' /\ TabsInv' /\ BrowserInv'
<1>1. c \in Clients
  BY SessionAssumption DEF BrowserInv, SessionMode
<1>2. store[c].token \in Issued \union {0} /\ store' = [store EXCEPT ![c] = store[c]]
  BY <1>1 DEF TabsInv, TabOk, TabTold, HintsAnswered, SetStore
<1>3. UNCHANGED <<store, rbToken, asking, page, leaving, authVars>>
      /\ persisted' = store[c].token
  BY <1>1, <1>2 DEF TabsInv, HintsAnswered, SetStore
<1>4. ServerInv' /\ OwnersStay
  BY <1>3, ServerStep DEF BrowserStep
<1>5. TabsInv'
  BY <1>3, <1>4, TabsStand
<1>6. BrowserInv'
  BY <1>2, <1>3, <1>4, BrowserChanges DEF BrowserInv
<1> QED  BY <1>4, <1>5, <1>6

\* The inductive invariant of server and tabs.
SessionInv == ServerInv /\ TabsInv /\ BrowserInv

\* It holds when nobody is signed in.
LEMMA SessionStart == SessionInit => SessionInv
<1> SUFFICES ASSUME SessionInit PROVE SessionInv
  OBVIOUS
<1>1. ServerInv
  BY ServerStart DEF SessionInit
<1>2. Issued \in SUBSET Tokens
  BY SessionFacts
<1>3. TabsInv
  <2>1. SignedOut \in StoreState /\ TabOk(SignedOut, <<>>, Issued, owner, sessionMode.faults)
    BY <1>2, TabLoads
  <2> QED  BY <2>1 DEF SessionInit, TabsInv
<1>4. BrowserInv
  BY SessionFacts DEF SessionInit, BrowserInv
<1> QED  BY <1>1, <1>3, <1>4 DEF SessionInv

\* Every step keeps it.
LEMMA SessionStep == SessionInv /\ [SessionNext]_sessionVars => SessionInv'
<1> SUFFICES ASSUME SessionInv, [SessionNext]_sessionVars PROVE SessionInv'
  OBVIOUS
<1>1. sessionMode' = sessionMode
  BY DEF SessionNext, sessionVars
<1>2. CASE \E c \in sessionMode.tabs : TabStep(c)
  BY <1>1, <1>2, LoadsStep, AsksStep, MeStep, HintsStep, QuietStep DEF TabStep, SessionInv
<1>3. CASE \/ \E s \in Slots : SignInFailed(s)
           \/ \E t \in leaving : LogoutArrives(t)
           \/ AuthServerStep(sessionMode.faults) /\ UNCHANGED <<store, rbToken, persisted, asking, page, leaving>>
           \/ UNCHANGED sessionVars
  BY <1>1, <1>3, QuietStep DEF SessionInv
<1> QED  BY <1>2, <1>3 DEF SessionNext

\* It is an invariant.
LEMMA SessionInvHolds == SessionSpec => []SessionInv
BY SessionStart, SessionStep, PTL DEF SessionSpec

\* The stores of the tabs, localStorage, the questions and the server's rows are
\* what the code takes them for, for any accounts, tabs, flows, slots and tokens.
THEOREM SessionIsTyped == SessionSpec => []SessionTypes
<1>1. SessionInv => SessionTypes
  <2> SUFFICES ASSUME SessionInv PROVE SessionTypes
    OBVIOUS
  <2>1. rbToken \in 0..MaxToken /\ persisted \in 0..MaxToken
    BY SessionFacts DEF SessionInv, BrowserInv
  <2>2. \A c \in Clients : \A i \in DOMAIN asking[c] : asking[c][i] \in Asked
    BY DEF SessionInv, TabsInv
  <2> QED  BY <2>1, <2>2 DEF SessionInv, ServerInv, TabsInv, BrowserInv, SessionTypes, StoreState, Asked
<1> QED  BY <1>1, SessionInvHolds, PTL

\* A tab that has its answers, in the order it asked, shows the owner of the
\* token it sends, for any accounts, tabs, flows, slots and numbers of questions:
\* with sessions that expire or are revoked, restarts and lost logouts.
THEOREM SettledTabOwnsToken == SessionSpec => []SettledUserOwnsToken
<1>1. SessionInv => SettledUserOwnsToken
  BY DEF SessionInv, TabsInv, TabOk, TabSettles, Steady, SettledUserOwnsToken
<1> QED  BY <1>1, SessionInvHolds, PTL

\* While the API answers the gates of the portals and of /login never send a
\* tab back and forth, whatever the answers, their order and the links opened.
THEOREM GatesAgree == SessionSpec => []NoRedirectLoop
<1>1. SessionInv => NoRedirectLoop
  <2> SUFFICES ASSUME SessionInv, "unreachable" \notin sessionMode.faults,
                      NEW c \in Clients, NEW r \in Roles,
                      GateSends(store[c], r) = "login", LoginSends(store[c]) = r
               PROVE  FALSE
    BY DEF NoRedirectLoop
  <2>1. store[c] \in StoreState /\ (store[c].error => store[c].user = Nobody)
    BY DEF SessionInv, TabsInv, TabOk, TabDenied
  <2>2. r # "login"
    BY SessionAssumption
  <2>3. store[c].token # 0 /\ store[c].user # Nobody /\ RoleOf[store[c].user] = r
    BY <2>2 DEF LoginSends
  <2> QED  BY <2>1, <2>2, <2>3 DEF GateSends
<1> QED  BY <1>1, SessionInvHolds, PTL

----------------------------------------------------------------------------
(***************************************************************************)
(* The three together, as the run composes them.                           *)
(***************************************************************************)

\* Whatever scene a browser is in, each part of it runs as its own
\* specification says, or stands still: what is proved of a part holds of the
\* composition.
THEOREM PartsAreThemselves == Spec => SessionSpec /\ CheckoutSpec /\ ConsoleSpec
<1>1. Init => SessionInit /\ CheckoutInit /\ ConsoleInit
  BY DEF Init
<1>2. [Next]_<<scene, sessionVars, checkoutVars, consoleVars>>
         => /\ [SessionNext]_sessionVars
            /\ [CheckoutNext]_checkoutVars
            /\ [ConsoleNext]_consoleVars
  BY DEF Next
<1> QED
  BY <1>1, <1>2, PTL DEF Spec, SessionSpec, CheckoutSpec, ConsoleSpec

\* Type correctness of the pages a browser shows, one of which the user has
\* open: what localStorage, the answers of the API and the Swiggy preview put
\* into the state is of the shape the code reads.
THEOREM WebIsTyped == Spec => []WebTypes
<1>1. SessionTypes /\ CheckoutTypes /\ ConsoleTypes => WebTypes
  BY DEF WebTypes
<1> QED
  BY <1>1, PartsAreThemselves, SessionIsTyped, CheckoutIsTyped, ConsoleIsTyped, PTL

============================================================================
