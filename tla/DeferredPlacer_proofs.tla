------------------------ MODULE DeferredPlacer_proofs ------------------------
(* Proofs about DeferredPlacer for any number of rows and overlapping ticks, *)
(* any attempt budget, and every subset of the faults.                       *)
EXTENDS DeferredPlacer, TLAPS

\* Adding one to placeAttempts stays within the modelled range.
LEMMA BumpInRange == ASSUME NEW n \in Attempts PROVE Bump(n) \in Attempts
  BY PlacerAssumption DEF Attempts, Bump

\* What a tick holds while it works on a row, and what an accepted order says
\* of its origin.
BusyTickHasOrder ==
    \A t \in Ticks : tick[t].pc \in Busy => tick[t].order \in Orders

OriginKnown ==
    \A s \in 1..issued : upstream[s].order \in Orders /\ upstream[s].by \in Ticks

\* The variables keep their types, a working tick names its row, and every
\* accepted Swiggy order names the row and the tick it came from.
TypeInv == TypeOK /\ BusyTickHasOrder /\ OriginKnown

USE DEF Busy

\* Rows are queued, no tick runs.
LEMMA TypeInvInit == Init => TypeInv
  <1> SUFFICES ASSUME Init PROVE TypeInv
    OBVIOUS
  <1>1. TypeOK
    BY PlacerAssumption
    DEF Init, TypeOK, Row, Sids, Attempts, Tick, SwiggyOrder, Idle, Unused
  <1>2. BusyTickHasOrder
    BY DEF Init, BusyTickHasOrder, Idle
  <1>3. OriginKnown
    BY DEF Init, OriginKnown
  <1> QED  BY <1>1, <1>2, <1>3 DEF TypeInv

\* A tick that goes on to its next row, or has ended.
LEMMA NextIterationType ==
  ASSUME TypeOK, NEW t \in Ticks
  PROVE  /\ NextIteration(t) \in Tick
         /\ NextIteration(t).pc = "loop"
         /\ Idle \in Tick
  <1>1. 0 \in Attempts
    BY PlacerAssumption DEF Attempts
  <1>2. Idle \in Tick
    BY <1>1 DEF Tick, Idle
  <1>3. NextIteration(t) \in Tick /\ NextIteration(t).pc = "loop"
    BY <1>1 DEF TypeOK, Tick, NextIteration, Idle
  <1> QED  BY <1>2, <1>3

\* The rows a tick writes keep their type.
LEMMA RowWriteType ==
  ASSUME TypeOK, NEW o \in Orders, NEW d \in BOOLEAN,
         NEW st \in {"pending", "confirmed", "cancelled", "failed"},
         NEW n \in Attempts, NEW i \in Sids \union {NoSid}
  PROVE  /\ [rows EXCEPT ![o].status = st, ![o].sid = i, ![o].attempts = n]
              \in [Orders -> Row]
         /\ [rows EXCEPT ![o].status = st, ![o].attempts = n] \in [Orders -> Row]
         /\ [rows EXCEPT ![o].status = st, ![o].due = d, ![o].attempts = n]
              \in [Orders -> Row]
         /\ [rows EXCEPT ![o].status = st, ![o].due = d] \in [Orders -> Row]
         /\ [rows EXCEPT ![o].attempts = n, ![o].due = d] \in [Orders -> Row]
         /\ [rows EXCEPT ![o].attempts = n] \in [Orders -> Row]
         /\ [rows EXCEPT ![o].due = d] \in [Orders -> Row]
  <1>1. [rows EXCEPT ![o].status = st, ![o].sid = i, ![o].attempts = n] \in [Orders -> Row]
    BY DEF TypeOK, Row
  <1>2. [rows EXCEPT ![o].status = st, ![o].attempts = n] \in [Orders -> Row]
    BY DEF TypeOK, Row
  <1>3. [rows EXCEPT ![o].status = st, ![o].due = d, ![o].attempts = n] \in [Orders -> Row]
    BY DEF TypeOK, Row
  <1>4. [rows EXCEPT ![o].status = st, ![o].due = d] \in [Orders -> Row]
    BY DEF TypeOK, Row
  <1>5. [rows EXCEPT ![o].attempts = n, ![o].due = d] \in [Orders -> Row]
    BY DEF TypeOK, Row
  <1>6. [rows EXCEPT ![o].attempts = n] \in [Orders -> Row]
    BY DEF TypeOK, Row
  <1>7. [rows EXCEPT ![o].due = d] \in [Orders -> Row]
    BY DEF TypeOK, Row
  <1> QED  BY <1>1, <1>2, <1>3, <1>4, <1>5, <1>6, <1>7

\* Forgetting replies keeps the type of the Swiggy account and its origins.
LEMMA ForgetType ==
  ASSUME TypeInv, NEW S
  PROVE  /\ Forget(S) \in [Sids -> SwiggyOrder]
         /\ \A s \in 1..issued : /\ s \in Sids
                                 /\ Forget(S)[s].order = upstream[s].order
                                 /\ Forget(S)[s].by = upstream[s].by
                                 /\ ~Forget(S)[s].unacked
                                      <=> (s \notin S /\ ~upstream[s].unacked)
  <1>1. Forget(S) \in [Sids -> SwiggyOrder]
    BY DEF TypeInv, TypeOK, SwiggyOrder, Forget
  <1>2. \A s \in 1..issued : s \in Sids
    BY PlacerAssumption DEF TypeInv, TypeOK, Sids
  <1>3. ASSUME NEW s \in 1..issued
        PROVE  /\ Forget(S)[s].order = upstream[s].order
               /\ Forget(S)[s].by = upstream[s].by
               /\ ~Forget(S)[s].unacked <=> (s \notin S /\ ~upstream[s].unacked)
    <2>1. upstream[s] \in SwiggyOrder /\ s \in Sids
      BY <1>2 DEF TypeInv, TypeOK
    <2>2. CASE s \in S
      BY <2>1, <2>2 DEF Forget, SwiggyOrder
    <2>3. CASE s \notin S
      BY <2>1, <2>3 DEF Forget
    <2> QED  BY <2>2, <2>3
  <1> QED  BY <1>1, <1>2, <1>3

\* Every step of a tick, the customer and a restart keeps the types.
LEMMA TypeInvStep == TypeInv /\ [Next]_vars => TypeInv'
  <1> SUFFICES ASSUME TypeInv, [Next]_vars PROVE TypeInv'
    OBVIOUS
  <1> USE DEF TypeInv
  <1>a. CASE UNCHANGED vars
    BY <1>a DEF vars, TypeOK, BusyTickHasOrder, OriginKnown
  <1>b. ASSUME NEW o \in Orders,
               Submit(o) \/ BecomeDue(o) \/ CancelCheck(o) \/ CancelWrite(o)
        PROVE  TypeInv'
    <2>1. rows' \in [Orders -> Row]
      <3>1. CASE Submit(o)
        <4>1. PICK d \in BOOLEAN :
                rows' = [rows EXCEPT ![o].status = "pending", ![o].due = d]
          BY <3>1 DEF Submit
        <4>2. [rows EXCEPT ![o].status = "pending", ![o].due = d] \in [Orders -> Row]
          BY DEF TypeOK, Row
        <4> QED  BY <4>1, <4>2
      <3>2. CASE BecomeDue(o)
        BY <3>2 DEF BecomeDue, TypeOK, Row
      <3>3. CASE CancelCheck(o) \/ CancelWrite(o)
        BY <3>3 DEF CancelCheck, CancelWrite, TypeOK, Row
      <3> QED  BY <1>b, <3>1, <3>2, <3>3
    <2>2. cancel' \in [Orders -> {"idle", "checked"}]
      BY <1>b DEF Submit, BecomeDue, CancelCheck, CancelWrite, TypeOK
    <2>3. UNCHANGED <<issued, upstream, tick>>
      BY <1>b DEF Submit, BecomeDue, CancelCheck, CancelWrite
    <2> QED  BY <2>1, <2>2, <2>3 DEF TypeOK, BusyTickHasOrder, OriginKnown
  <1>c. ASSUME NEW t \in Ticks, StartTick(t) \/ EndTick(t)
        PROVE  TypeInv'
    <2>1. CASE StartTick(t)
      BY <2>1 DEF StartTick, TypeOK, Tick, BusyTickHasOrder, OriginKnown
    <2>2. CASE EndTick(t)
      BY <2>2, NextIterationType
      DEF EndTick, TypeOK, BusyTickHasOrder, OriginKnown, Idle
    <2> QED  BY <1>c, <2>1, <2>2
  <1>d. ASSUME NEW t \in Ticks, NEW o \in Orders, ReadRow(t, o) \/ SkipRow(t, o)
        PROVE  TypeInv'
    <2>1. tick' \in [Ticks -> Tick] /\ BusyTickHasOrder'
      BY <1>d DEF ReadRow, SkipRow, TypeOK, Tick, BusyTickHasOrder, Row
    <2> QED  BY <1>d, <2>1 DEF ReadRow, SkipRow, TypeOK, OriginKnown
  <1>e. ASSUME NEW t \in Ticks, NoToken(t) \/ HoldForGate(t) \/ RecordThrow(t)
                                \/ BackOff(t) \/ GiveUp(t) \/ RecordSuccess(t)
        PROVE  TypeInv'
    <2>0. tick[t] \in Tick /\ tick[t].order \in Orders
      BY <1>e DEF NoToken, HoldForGate, RecordThrow, BackOff, GiveUp, RecordSuccess,
                  TypeOK, BusyTickHasOrder
    <2>1. Bump(tick[t].seen) \in Attempts /\ Bump(rows[tick[t].order].attempts) \in Attempts
      BY <2>0, BumpInRange DEF TypeOK, Tick, Row
    <2>2. RecordedId(t) \in Sids \union {NoSid}
      BY <2>0 DEF RecordedId, TypeOK, Tick, Row
    <2>3. rows' \in [Orders -> Row]
      <3>1. CASE NoToken(t) \/ HoldForGate(t)
        BY <3>1, <2>0, <2>1 DEF NoToken, HoldForGate, TypeOK, Row
      <3>2. CASE RecordThrow(t)
        BY <3>2, <2>0, <2>1, RowWriteType DEF RecordThrow
      <3>3. CASE BackOff(t) \/ GiveUp(t)
        BY <3>3, <2>0, <2>1 DEF BackOff, GiveUp, TypeOK, Row
      <3>4. CASE RecordSuccess(t)
        BY <3>4, <2>0, <2>1, <2>2, RowWriteType DEF RecordSuccess
      <3> QED  BY <1>e, <3>1, <3>2, <3>3, <3>4
    <2>4. tick' = [tick EXCEPT ![t] = NextIteration(t)]
             /\ UNCHANGED <<issued, upstream, cancel>>
      BY <1>e DEF NoToken, HoldForGate, RecordThrow, BackOff, GiveUp, RecordSuccess
    <2>5. tick' \in [Ticks -> Tick] /\ BusyTickHasOrder'
      BY <2>4, NextIterationType DEF TypeOK, BusyTickHasOrder
    <2> QED  BY <2>3, <2>4, <2>5 DEF TypeOK, OriginKnown
  <1>f. ASSUME NEW t \in Ticks, PassGate(t) \/ Rejected(t) \/ Throw(t)
        PROVE  TypeInv'
    <2>1. tick' \in [Ticks -> Tick] /\ BusyTickHasOrder'
      BY <1>f DEF PassGate, Rejected, Throw, TypeOK, Tick, BusyTickHasOrder
    <2> QED  BY <1>f, <2>1 DEF PassGate, Rejected, Throw, TypeOK, OriginKnown
  <1>r. ASSUME NEW t \in Ticks, Recovered(t) PROVE TypeInv'
    <2>1. PICK s \in 1..issued :
            tick' = [tick EXCEPT ![t].pc = "accepted", ![t].got = s]
      BY <1>r DEF Recovered
    <2>2. s \in Sids
      BY <2>1, PlacerAssumption DEF TypeOK, Sids
    <2>3. tick[t].pc = "placing" /\ UNCHANGED <<rows, issued, upstream, cancel>>
      BY <1>r DEF Recovered
    <2>4. tick' \in [Ticks -> Tick] /\ BusyTickHasOrder'
      BY <2>1, <2>2, <2>3 DEF TypeOK, Tick, BusyTickHasOrder
    <2> QED  BY <2>3, <2>4 DEF TypeOK, OriginKnown
  <1>g. ASSUME NEW t \in Ticks, Accepted(t) \/ AcceptedWithoutId(t) \/ LoseReply(t)
        PROVE  TypeInv'
    <2>0. /\ tick[t].order \in Orders /\ issued + 1 \in Sids
          /\ issued' = issued + 1 /\ issued' \in 0..MaxSid
      BY <1>g, PlacerAssumption
      DEF Accepted, AcceptedWithoutId, LoseReply, Execute, BusyTickHasOrder, TypeOK, Sids
    <2>1. tick' \in [Ticks -> Tick] /\ BusyTickHasOrder'
      <3>1. CASE Accepted(t)
        BY <3>1, <2>0 DEF Accepted, TypeOK, Tick, BusyTickHasOrder
      <3>2. CASE AcceptedWithoutId(t)
        BY <3>2, <2>0 DEF AcceptedWithoutId, TypeOK, Tick, BusyTickHasOrder
      <3>3. CASE LoseReply(t)
        BY <3>3 DEF LoseReply, TypeOK, BusyTickHasOrder
      <3> QED  BY <1>g, <3>1, <3>2, <3>3
    <2>2. PICK lost \in BOOLEAN :
            upstream' = [upstream EXCEPT ![issued + 1] =
                           [order |-> tick[t].order, by |-> t, unacked |-> lost]]
      BY <1>g DEF Accepted, AcceptedWithoutId, LoseReply, Execute
    <2>3. upstream' \in [Sids -> SwiggyOrder]
      BY <2>0, <2>2 DEF TypeOK, SwiggyOrder
    <2>4. OriginKnown'
      BY <2>0, <2>2, PlacerAssumption DEF TypeOK, OriginKnown, Sids
    <2>5. UNCHANGED <<rows, cancel>>
      BY <1>g DEF Accepted, AcceptedWithoutId, LoseReply
    <2> QED  BY <2>0, <2>1, <2>3, <2>4, <2>5 DEF TypeOK
  <1>h. ASSUME NEW t \in Ticks, WriteBackFails(t) PROVE TypeInv'
    <2>1. tick' \in [Ticks -> Tick] /\ BusyTickHasOrder'
      BY <1>h DEF WriteBackFails, TypeOK, Tick, BusyTickHasOrder
    <2>2. upstream' \in [Sids -> SwiggyOrder] /\ OriginKnown'
      BY <1>h, ForgetType DEF WriteBackFails, OriginKnown
    <2> QED  BY <1>h, <2>1, <2>2 DEF WriteBackFails, TypeOK
  <1>i. CASE Crash
    <2>1. tick' \in [Ticks -> Tick] /\ BusyTickHasOrder'
      BY <1>i, NextIterationType DEF Crash, Idle, BusyTickHasOrder
    <2>2. upstream' \in [Sids -> SwiggyOrder] /\ OriginKnown'
      BY <1>i, ForgetType DEF Crash, OriginKnown
    <2> QED  BY <1>i, <2>1, <2>2 DEF Crash, TypeOK
  <1> QED  BY <1>a, <1>b, <1>c, <1>d, <1>e, <1>f, <1>g, <1>h, <1>i, <1>r
           DEF Next, TickStep, PlaceReply

\* Type correctness: the table, the ticks and the Swiggy account keep their
\* shapes under every interleaving, fault and crash.
THEOREM TypeCorrect == Spec => []TypeOK
  <1>1. TypeInv => TypeOK
    BY DEF TypeInv
  <1> QED  BY TypeInvInit, TypeInvStep, <1>1, PTL DEF Spec
-----------------------------------------------------------------------------
(* The ledger: where an acknowledged Swiggy order is accounted for          *)

\* An acknowledged order is in the hands of the tick that placed it, or its
\* row has an orderId and that tick has finished with the row.  The second
\* half of the disjunct is what makes DuplicatesAreAccountedFor inductive: the
\* tick would have to read the row again, and placeDeferred refuses it.
Located ==
    \A s \in 1..issued :
      \/ upstream[s].unacked
      \/ Holds(upstream[s].by, s)
      \/ /\ rows[upstream[s].order].sid # NoSid
         /\ ~Working(upstream[s].by, upstream[s].order)

\* The inductive invariant of the placements.
Ledger == TypeInv /\ Located /\ DuplicatesAreAccountedFor

\* An orderId in the table is never erased, and only a tick that has just been
\* accepted writes one.
LEMMA SidKept ==
  ASSUME TypeInv, [Next]_vars, NEW o \in Orders
  PROVE  rows[o].sid # NoSid => rows'[o].sid # NoSid
  <1> SUFFICES ASSUME rows[o].sid # NoSid PROVE rows'[o].sid # NoSid
    OBVIOUS
  <1> USE DEF TypeInv, TypeOK, Row
  <1>1. CASE UNCHANGED rows
    BY <1>1
  <1>2. ASSUME NEW p \in Orders, Submit(p) PROVE rows'[o].sid # NoSid
    BY <1>2 DEF Submit
  <1>3. ASSUME NEW p \in Orders, BecomeDue(p) \/ CancelWrite(p)
        PROVE  rows'[o].sid # NoSid
    <2>1. CASE BecomeDue(p)
      BY <2>1 DEF BecomeDue
    <2>2. CASE CancelWrite(p)
      BY <2>2 DEF CancelWrite
    <2> QED  BY <1>3, <2>1, <2>2
  <1>4. ASSUME NEW t \in Ticks,
               NoToken(t) \/ HoldForGate(t) \/ BackOff(t) \/ GiveUp(t) \/ RecordThrow(t)
        PROVE  rows'[o].sid # NoSid
    BY <1>4 DEF NoToken, HoldForGate, BackOff, GiveUp, RecordThrow
  <1>5. ASSUME NEW t \in Ticks, RecordSuccess(t) PROVE rows'[o].sid # NoSid
    BY <1>5 DEF RecordSuccess, RecordedId
  <1>6. \/ UNCHANGED rows
        \/ \E p \in Orders : Submit(p) \/ BecomeDue(p) \/ CancelWrite(p)
        \/ \E t \in Ticks : \/ NoToken(t) \/ HoldForGate(t) \/ BackOff(t) \/ GiveUp(t)
                            \/ RecordThrow(t) \/ RecordSuccess(t)
    BY DEF Next, vars, TickStep, PlaceReply, CancelCheck, StartTick, EndTick, ReadRow,
           SkipRow, PassGate, Accepted, AcceptedWithoutId, LoseReply, Recovered,
           Rejected, Throw, WriteBackFails, Crash
  <1> QED  BY <1>1, <1>2, <1>3, <1>4, <1>5, <1>6

\* A step that accepts nothing: every acknowledged order stays accounted for
\* unless its reply is forgotten.
LEMMA LocatedKept ==
  ASSUME Ledger, [Next]_vars, UNCHANGED issued,
         NEW s \in 1..issued, ~upstream'[s].unacked,
         upstream'[s].order = upstream[s].order, upstream'[s].by = upstream[s].by,
         ~upstream[s].unacked
  PROVE  \/ Holds(upstream[s].by, s)'
         \/ /\ rows'[upstream[s].order].sid # NoSid
            /\ ~Working(upstream[s].by, upstream[s].order)'
  <1> DEFINE o == upstream[s].order
             b == upstream[s].by
  <1>0. /\ o \in Orders /\ b \in Ticks /\ s \in Sids
        /\ TypeOK /\ BusyTickHasOrder
        /\ Holds(b, s) \/ (rows[o].sid # NoSid /\ ~Working(b, o))
    BY PlacerAssumption DEF Ledger, Located, TypeInv, OriginKnown, TypeOK, Sids
  <1>1. rows[o].sid # NoSid => rows'[o].sid # NoSid
    BY <1>0, SidKept DEF Ledger
  <1> USE DEF TypeOK, Tick, Working, Holds
  <1>2. CASE tick'[b] = tick[b]
    BY <1>0, <1>1, <1>2
  <1>3. ASSUME NEW t \in Ticks, t = b,
               StartTick(t) \/ EndTick(t) \/ NoToken(t) \/ HoldForGate(t) \/ BackOff(t)
               \/ GiveUp(t) \/ RecordThrow(t)
        PROVE  rows'[o].sid # NoSid /\ ~Working(b, o)'
    <2>1. ~Holds(b, s)
      BY <1>3 DEF StartTick, EndTick, NoToken, HoldForGate, BackOff, GiveUp, RecordThrow
    <2>2. tick'[b].pc \in {"loop", "off"}
      <3>1. CASE StartTick(t)
        BY <1>0, <1>3, <3>1 DEF StartTick
      <3>2. CASE EndTick(t)
        BY <1>0, <1>3, <3>2 DEF EndTick, Idle
      <3>3. CASE \/ NoToken(t) \/ HoldForGate(t) \/ BackOff(t)
                 \/ GiveUp(t) \/ RecordThrow(t)
        <4>1. tick' = [tick EXCEPT ![t] = NextIteration(t)]
          BY <3>3 DEF NoToken, HoldForGate, BackOff, GiveUp, RecordThrow
        <4> QED  BY <4>1, <1>0, <1>3, NextIterationType
      <3> QED  BY <1>3, <3>1, <3>2, <3>3
    <2> QED  BY <2>1, <2>2, <1>0, <1>1
  <1>4. ASSUME NEW t \in Ticks, t = b, NEW p \in Orders, ReadRow(t, p) \/ SkipRow(t, p)
        PROVE  rows'[o].sid # NoSid /\ ~Working(b, o)'
    <2>1. ~Holds(b, s)
      BY <1>4 DEF ReadRow, SkipRow
    <2>2. rows[o].sid # NoSid
      BY <2>1, <1>0
    <2>3. CASE ReadRow(t, p)
      BY <2>2, <2>3, <1>0, <1>1, <1>4 DEF ReadRow, StillPlaceable
    <2>4. CASE SkipRow(t, p)
      BY <2>2, <2>4, <1>0, <1>1, <1>4 DEF SkipRow
    <2> QED  BY <1>4, <2>3, <2>4
  <1>5. ASSUME NEW t \in Ticks, t = b, PassGate(t) \/ Rejected(t)
        PROVE  rows'[o].sid # NoSid /\ ~Working(b, o)'
    BY <1>5, <1>0, <1>1 DEF PassGate, Rejected
  <1>5a. ASSUME NEW t \in Ticks, t = b, Throw(t)
        PROVE  rows'[o].sid # NoSid /\ ~Working(b, o)'
    BY <1>5a, <1>0, <1>1 DEF Throw
  <1>6. ASSUME NEW t \in Ticks, t = b, Recovered(t)
        PROVE  rows'[o].sid # NoSid /\ ~Working(b, o)'
    <2>1. PICK r \in 1..issued : tick' = [tick EXCEPT ![t].pc = "accepted", ![t].got = r]
      BY <1>6 DEF Recovered
    <2>2. tick[t].pc = "placing"
      BY <1>6 DEF Recovered
    <2> QED  BY <2>1, <2>2, <1>0, <1>1, <1>6
  <1>7. ASSUME NEW t \in Ticks, t = b, RecordSuccess(t)
        PROVE  rows'[o].sid # NoSid /\ ~Working(b, o)'
    <2>1. tick'[b].pc = "loop"
      BY <1>7, <1>0 DEF RecordSuccess, NextIteration, Idle
    <2>2. CASE Holds(b, s)
      BY <2>1, <2>2, <1>7, <1>0, PlacerAssumption DEF RecordSuccess, RecordedId, Row, Sids
    <2> QED  BY <2>1, <2>2, <1>0, <1>1
  <1>8. ASSUME NEW t \in Ticks, t = b, WriteBackFails(t)
        PROVE  rows'[o].sid # NoSid /\ ~Working(b, o)'
    <2> DEFINE S == {x \in Sids : Holds(t, x)}
    <2>0. upstream' = Forget(S)
      BY <1>8 DEF WriteBackFails
    <2> HIDE DEF S
    <2>a. s \in Sids /\ (~upstream'[s].unacked <=> (s \notin S /\ ~upstream[s].unacked))
      BY <2>0, <1>0, ForgetType DEF Ledger
    <2>1. ~Holds(b, s)
      BY <2>a, <1>0, <1>8 DEF S
    <2> QED  BY <2>1, <1>8, <1>0, <1>1 DEF WriteBackFails
  <1>9. CASE Crash
    <2> DEFINE S == {x \in Sids : \E t \in Ticks : Holds(t, x)}
    <2>0. upstream' = Forget(S)
      BY <1>9 DEF Crash
    <2> HIDE DEF S
    <2>a. s \in Sids /\ (~upstream'[s].unacked <=> (s \notin S /\ ~upstream[s].unacked))
      BY <2>0, <1>0, ForgetType DEF Ledger
    <2>1. ~Holds(b, s)
      BY <2>a, <1>0, <1>9 DEF S
    <2> QED  BY <2>1, <1>9, <1>0, <1>1 DEF Crash, Idle
  <1>10. \/ tick'[b] = tick[b]
         \/ Crash
         \/ \/ StartTick(b) \/ EndTick(b) \/ NoToken(b) \/ HoldForGate(b) \/ BackOff(b)
            \/ GiveUp(b) \/ RecordThrow(b) \/ PassGate(b) \/ Rejected(b) \/ Throw(b)
            \/ Recovered(b) \/ RecordSuccess(b) \/ WriteBackFails(b)
         \/ \E p \in Orders : ReadRow(b, p) \/ SkipRow(b, p)
    <2>1. CASE UNCHANGED tick
      BY <2>1
    <2>2. ASSUME NEW t \in Ticks,
                 \/ StartTick(t) \/ EndTick(t) \/ NoToken(t) \/ HoldForGate(t) \/ BackOff(t)
                 \/ GiveUp(t) \/ RecordThrow(t) \/ PassGate(t) \/ Rejected(t) \/ Throw(t)
                 \/ RecordSuccess(t) \/ WriteBackFails(t)
          PROVE  t = b \/ tick'[b] = tick[b]
      BY <2>2, <1>0 DEF StartTick, EndTick, NoToken, HoldForGate, BackOff, GiveUp,
                 RecordThrow, PassGate, Rejected, Throw, RecordSuccess, WriteBackFails
    <2>3. ASSUME NEW t \in Ticks, Recovered(t) PROVE t = b \/ tick'[b] = tick[b]
      BY <2>3, <1>0 DEF Recovered
    <2>4. ASSUME NEW t \in Ticks, NEW p \in Orders, ReadRow(t, p) \/ SkipRow(t, p)
          PROVE  t = b \/ tick'[b] = tick[b]
      BY <2>4, <1>0 DEF ReadRow, SkipRow
    <2>5. ASSUME NEW t \in Ticks, Accepted(t) \/ AcceptedWithoutId(t) \/ LoseReply(t)
          PROVE  FALSE
      BY <2>5, <1>0 DEF Accepted, AcceptedWithoutId, LoseReply, Execute
    <2>6. ASSUME NEW p \in Orders,
                 Submit(p) \/ BecomeDue(p) \/ CancelCheck(p) \/ CancelWrite(p)
          PROVE  UNCHANGED tick
      BY <2>6 DEF Submit, BecomeDue, CancelCheck, CancelWrite
    <2> QED  BY <2>1, <2>2, <2>3, <2>4, <2>5, <2>6 DEF Next, vars, TickStep, PlaceReply
  <1> QED  BY <1>0, <1>2, <1>3, <1>4, <1>5, <1>5a, <1>6, <1>7, <1>8, <1>9, <1>10

\* Nothing has been placed.
LEMMA LedgerInit == Init => Ledger
  <1> SUFFICES ASSUME Init PROVE Ledger
    OBVIOUS
  <1>1. issued = 0
    BY DEF Init
  <1> QED
    BY <1>1, TypeInvInit DEF Ledger, Located, DuplicatesAreAccountedFor

\* A step in which Swiggy executes a place call: the tick that placed the new
\* order was working on the row, so it cannot have an acknowledged order for
\* it already; every older order is where it was.
LEMMA LedgerExecute ==
  ASSUME Ledger, NEW t \in Ticks, NEW lost \in BOOLEAN,
         tick[t].pc = "placing", UNCHANGED rows, Execute(t, lost),
         \/ lost /\ tick' = tick
         \/ lost /\ tick' = [tick EXCEPT ![t].pc = "accepted"]
         \/ ~lost /\ tick' = [tick EXCEPT ![t].pc = "accepted", ![t].got = issued + 1]
  PROVE  Located' /\ DuplicatesAreAccountedFor'
  <1> DEFINE new == issued + 1
  <1>1. /\ TypeOK /\ OriginKnown /\ BusyTickHasOrder
        /\ issued \in Nat /\ issued' = new /\ new \in Sids
        /\ upstream' = [upstream EXCEPT ![new] =
                          [order |-> tick[t].order, by |-> t, unacked |-> lost]]
    BY PlacerAssumption DEF Ledger, TypeInv, TypeOK, Execute, Sids
  <1>2. /\ upstream'[new] = [order |-> tick[t].order, by |-> t, unacked |-> lost]
        /\ \A s \in 1..issued : s # new /\ s \in Sids /\ upstream'[s] = upstream[s]
    BY <1>1, PlacerAssumption DEF TypeOK, Sids
  <1>3. tick[t].order \in Orders /\ Working(t, tick[t].order)
    BY <1>1 DEF BusyTickHasOrder, Working
  <1>4. \A u \in Ticks : /\ u # t => tick'[u] = tick[u]
                         /\ tick'[u].order = tick[u].order
                         /\ tick'[u].pc \in Busy <=> tick[u].pc \in Busy
    BY <1>1 DEF TypeOK, Tick
  <1>5. ~lost => tick'[t].pc = "accepted" /\ tick'[t].got = new
    BY <1>1 DEF TypeOK, Tick
  <1>6. \A s \in 1..issued : ~upstream[s].unacked =>
          \/ /\ upstream[s].by # t
             /\ Holds(upstream[s].by, s)
          \/ /\ rows[upstream[s].order].sid # NoSid
             /\ ~Working(upstream[s].by, upstream[s].order)
    BY DEF Ledger, Located, Holds
  <1>7. ASSUME NEW s \in 1..issued', ~upstream'[s].unacked
        PROVE  \/ Holds(upstream[s].by, s)'
               \/ /\ rows'[upstream'[s].order].sid # NoSid
                  /\ ~Working(upstream[s].by, upstream[s].order)'
    <2>1. CASE s = new
      BY <2>1, <1>2, <1>4, <1>5, <1>7 DEF Holds
    <2>2. CASE s \in 1..issued
      <3>1. upstream[s].by \in Ticks /\ upstream[s].order \in Orders
        BY <2>2, <1>1 DEF OriginKnown
      <3>2. CASE upstream[s].by # t /\ Holds(upstream[s].by, s)
        BY <3>1, <3>2, <2>2, <1>2, <1>4 DEF Holds
      <3>3. CASE /\ rows[upstream[s].order].sid # NoSid
                 /\ ~Working(upstream[s].by, upstream[s].order)
        BY <3>1, <3>3, <2>2, <1>2, <1>4 DEF Working
      <3> QED  BY <3>2, <3>3, <2>2, <1>2, <1>6, <1>7
    <2> QED  BY <2>1, <2>2, <1>1
  <1>8. Located'
    BY <1>7 DEF Located
  <1>9. ASSUME NEW s \in 1..issued, ~upstream[s].unacked,
               upstream[s].order = tick[t].order
        PROVE  upstream[s].by # t
    BY <1>6, <1>9, <1>3
  <1>10. DuplicatesAreAccountedFor'
    <2> SUFFICES ASSUME NEW r \in 1..issued', NEW s \in 1..issued', r # s,
                        upstream'[r].order = upstream'[s].order,
                        ~upstream'[r].unacked, ~upstream'[s].unacked
                 PROVE  upstream'[r].by # upstream'[s].by
      BY DEF DuplicatesAreAccountedFor
    <2>1. CASE r \in 1..issued /\ s \in 1..issued
      BY <2>1, <1>2 DEF Ledger, DuplicatesAreAccountedFor
    <2>2. CASE r = new /\ s \in 1..issued
      BY <2>2, <1>2, <1>9
    <2>3. CASE s = new /\ r \in 1..issued
      BY <2>3, <1>2, <1>9
    <2> QED  BY <2>1, <2>2, <2>3, <1>1
  <1> QED  BY <1>8, <1>10

\* An accepted order keeps its origin, and a forgotten reply stays forgotten.
LEMMA OriginKept ==
  ASSUME TypeInv, [Next]_vars, NEW s \in 1..issued
  PROVE  /\ upstream'[s].order = upstream[s].order
         /\ upstream'[s].by = upstream[s].by
         /\ ~upstream'[s].unacked => ~upstream[s].unacked
  <1>1. CASE UNCHANGED upstream
    BY <1>1
  <1>2. CASE \E S : upstream' = Forget(S)
    BY <1>2, ForgetType
  <1>3. ASSUME NEW t \in Ticks, NEW lost \in BOOLEAN, Execute(t, lost)
        PROVE  upstream'[s] = upstream[s]
    <2>1. s \in Sids /\ s # issued + 1
      BY PlacerAssumption DEF TypeInv, TypeOK, Sids
    <2> QED  BY <2>1, <1>3 DEF Execute, TypeInv, TypeOK
  <1>4. \/ UNCHANGED upstream
        \/ \E S : upstream' = Forget(S)
        \/ \E t \in Ticks, lost \in BOOLEAN : Execute(t, lost)
    <2>1. ASSUME NEW t \in Ticks, WriteBackFails(t) PROVE \E S : upstream' = Forget(S)
      BY <2>1 DEF WriteBackFails
    <2>2. CASE Crash
      BY <2>2 DEF Crash
    <2>3. ASSUME NEW t \in Ticks, Accepted(t) \/ AcceptedWithoutId(t) \/ LoseReply(t)
          PROVE  \E lost \in BOOLEAN : Execute(t, lost)
      BY <2>3 DEF Accepted, AcceptedWithoutId, LoseReply
    <2>4. \/ UNCHANGED upstream
          \/ Crash
          \/ \E t \in Ticks : \/ WriteBackFails(t) \/ Accepted(t)
                              \/ AcceptedWithoutId(t) \/ LoseReply(t)
      BY DEF Next, vars, TickStep, PlaceReply, Submit, BecomeDue, CancelCheck,
             CancelWrite, StartTick, EndTick, ReadRow, SkipRow, NoToken, HoldForGate,
             PassGate, Recovered, Rejected, Throw, RecordSuccess, BackOff, GiveUp,
             RecordThrow
    <2> QED  BY <2>1, <2>2, <2>3, <2>4
  <1> QED  BY <1>1, <1>2, <1>3, <1>4

\* Every step keeps it.
LEMMA LedgerStep == Ledger /\ [Next]_vars => Ledger'
  <1> SUFFICES ASSUME Ledger, [Next]_vars PROVE Ledger'
    OBVIOUS
  <1>0. TypeInv /\ TypeInv'
    BY TypeInvStep DEF Ledger
  <1>1. ASSUME NEW t \in Ticks, Accepted(t) \/ AcceptedWithoutId(t) \/ LoseReply(t)
        PROVE  Located' /\ DuplicatesAreAccountedFor'
    <2>1. PICK lost \in BOOLEAN :
            /\ tick[t].pc = "placing" /\ UNCHANGED rows /\ Execute(t, lost)
            /\ \/ lost /\ tick' = tick
               \/ lost /\ tick' = [tick EXCEPT ![t].pc = "accepted"]
               \/ ~lost /\ tick' = [tick EXCEPT ![t].pc = "accepted", ![t].got = issued + 1]
      BY <1>1 DEF Accepted, AcceptedWithoutId, LoseReply
    <2> QED  BY <2>1, LedgerExecute
  <1>2. CASE UNCHANGED issued
    <2>1. \A s \in 1..issued : /\ upstream'[s].order = upstream[s].order
                               /\ upstream'[s].by = upstream[s].by
                               /\ ~upstream'[s].unacked => ~upstream[s].unacked
      BY <1>0, OriginKept
    <2>2. Located'
      BY <1>2, <2>1, LocatedKept DEF Located
    <2>3. DuplicatesAreAccountedFor'
      BY <1>2, <2>1 DEF Ledger, DuplicatesAreAccountedFor
    <2> QED  BY <2>2, <2>3, <1>0 DEF Ledger
  <1>3. \/ UNCHANGED issued
        \/ \E t \in Ticks : Accepted(t) \/ AcceptedWithoutId(t) \/ LoseReply(t)
    BY DEF Next, vars, TickStep, PlaceReply, Submit, BecomeDue, CancelCheck,
           CancelWrite, StartTick, EndTick, ReadRow, SkipRow, NoToken, HoldForGate,
           PassGate, Recovered, Rejected, Throw, RecordSuccess, WriteBackFails, BackOff,
           GiveUp, RecordThrow, Crash
  <1> QED  BY <1>0, <1>1, <1>2, <1>3 DEF Ledger

\* The placer never forgets a placement: an acknowledged Swiggy order is held
\* by the tick that placed it or its row has an orderId, whatever overlaps,
\* fails or crashes.
THEOREM AckedLocated == Spec => []AckedIsHeldOrPlaced
  <1>1. Ledger => AckedIsHeldOrPlaced
    BY DEF Ledger, Located, AckedIsHeldOrPlaced
  <1> QED  BY LedgerInit, LedgerStep, <1>1, PTL DEF Spec

\* One tick slot never places a row twice: two acknowledged orders for one row
\* come from two slots, for any number of rows, slots, retries and crashes.
THEOREM DuplicatesAccounted == Spec => []DuplicatesAreAccountedFor
  <1>1. Ledger => DuplicatesAreAccountedFor
    BY DEF Ledger
  <1> QED  BY LedgerInit, LedgerStep, <1>1, PTL DEF Spec
-----------------------------------------------------------------------------
(* A settled row is left alone                                              *)

\* What a step does to a settled row o: none of the tick actions is enabled on
\* it, and only CancelWrite and BecomeDue write it.
LEMMA SettledStep ==
  ASSUME TypeInv, [Next]_vars, NEW o \in Orders, Settled(o)
  PROVE  Settled(o)' /\ Placements(o)' = Placements(o)
  <1> USE DEF TypeInv, TypeOK, Row, Tick, Settled, Working
  <1>1. CASE UNCHANGED vars
    BY <1>1 DEF vars, Placements
  <1>2. ASSUME NEW p \in Orders, Submit(p) \/ BecomeDue(p) \/ CancelCheck(p) \/ CancelWrite(p)
        PROVE  Settled(o)' /\ Placements(o)' = Placements(o)
    <2>1. UNCHANGED <<issued, upstream, tick>>
      BY <1>2 DEF Submit, BecomeDue, CancelCheck, CancelWrite
    <2>2. rows'[o].status \in {"confirmed", "cancelled", "failed"}
      <3>1. CASE Submit(p)
        BY <3>1 DEF Submit
      <3>2. CASE BecomeDue(p)
        BY <3>2 DEF BecomeDue
      <3>3. CASE CancelCheck(p)
        BY <3>3 DEF CancelCheck
      <3>4. CASE CancelWrite(p)
        BY <3>4 DEF CancelWrite
      <3> QED  BY <1>2, <3>1, <3>2, <3>3, <3>4
    <2> QED  BY <2>1, <2>2 DEF Placements
  <1>3. ASSUME NEW t \in Ticks, StartTick(t)
        PROVE  Settled(o)' /\ Placements(o)' = Placements(o)
    BY <1>3 DEF StartTick, Placements
  <1>4. ASSUME NEW t \in Ticks, EndTick(t)
        PROVE  Settled(o)' /\ Placements(o)' = Placements(o)
    BY <1>4 DEF EndTick, Idle, Placements
  <1>5. ASSUME NEW t \in Ticks, NEW p \in Orders, ReadRow(t, p)
        PROVE  Settled(o)' /\ Placements(o)' = Placements(o)
    <2>1. p # o
      BY <1>5 DEF ReadRow, StillPlaceable
    <2> QED  BY <1>5, <2>1 DEF ReadRow, Placements
  <1>6. ASSUME NEW t \in Ticks, NEW p \in Orders, SkipRow(t, p)
        PROVE  Settled(o)' /\ Placements(o)' = Placements(o)
    BY <1>6 DEF SkipRow, Placements
  <1>7. ASSUME NEW t \in Ticks,
               \/ NoToken(t) \/ HoldForGate(t) \/ BackOff(t)
               \/ GiveUp(t) \/ RecordThrow(t) \/ RecordSuccess(t)
        PROVE  Settled(o)' /\ Placements(o)' = Placements(o)
    <2>1. /\ tick[t].order \in Orders /\ tick[t].order # o
          /\ tick' = [tick EXCEPT ![t] = NextIteration(t)]
          /\ UNCHANGED <<issued, upstream>>
      BY <1>7 DEF NoToken, HoldForGate, BackOff, GiveUp, RecordThrow, RecordSuccess,
                  BusyTickHasOrder
    <2>2. rows'[o] = rows[o]
      BY <1>7, <2>1 DEF NoToken, HoldForGate, BackOff, GiveUp, RecordThrow, RecordSuccess
    <2> QED  BY <2>1, <2>2, NextIterationType DEF Placements
  <1>8. ASSUME NEW t \in Ticks,
               PassGate(t) \/ Rejected(t) \/ Recovered(t) \/ Throw(t)
        PROVE  Settled(o)' /\ Placements(o)' = Placements(o)
    <2>1. tick[t].order # o /\ UNCHANGED <<rows, issued, upstream>>
      BY <1>8 DEF PassGate, Rejected, Recovered, Throw
    <2>2. \A u \in Ticks : tick'[u].order = tick[u].order /\ (u # t => tick'[u] = tick[u])
      BY <1>8 DEF PassGate, Rejected, Recovered, Throw
    <2> QED  BY <2>1, <2>2 DEF Placements
  <1>9. ASSUME NEW t \in Ticks, WriteBackFails(t)
        PROVE  Settled(o)' /\ Placements(o)' = Placements(o)
    <2>1. tick[t].order # o /\ UNCHANGED <<rows, issued>>
      BY <1>9 DEF WriteBackFails
    <2>2. \A u \in Ticks : tick'[u].order = tick[u].order /\ (u # t => tick'[u] = tick[u])
      BY <1>9 DEF WriteBackFails
    <2>3. \A s \in 1..issued : upstream'[s].order = upstream[s].order
      BY <1>9, ForgetType DEF WriteBackFails
    <2> QED  BY <2>1, <2>2, <2>3 DEF Placements
  <1>10. CASE Crash
    <2>1. \A s \in 1..issued : upstream'[s].order = upstream[s].order
      BY <1>10, ForgetType DEF Crash
    <2> QED  BY <1>10, <2>1 DEF Crash, Idle, Placements
  <1>11. ASSUME NEW t \in Ticks, Accepted(t) \/ AcceptedWithoutId(t) \/ LoseReply(t)
         PROVE  Settled(o)' /\ Placements(o)' = Placements(o)
    <2>1. /\ tick[t].order # o /\ UNCHANGED rows
          /\ issued + 1 \in Sids /\ issued \in Nat /\ issued' = issued + 1
      BY <1>11, PlacerAssumption
      DEF Accepted, AcceptedWithoutId, LoseReply, Execute, Sids
    <2>2. \A u \in Ticks : tick'[u].order = tick[u].order /\ (u # t => tick'[u] = tick[u])
      <3>1. CASE Accepted(t)
        BY <3>1 DEF Accepted
      <3>2. CASE AcceptedWithoutId(t)
        BY <3>2 DEF AcceptedWithoutId
      <3>3. CASE LoseReply(t)
        BY <3>3 DEF LoseReply
      <3> QED  BY <1>11, <3>1, <3>2, <3>3
    <2>3. PICK lost \in BOOLEAN :
            upstream' = [upstream EXCEPT ![issued + 1] =
                           [order |-> tick[t].order, by |-> t, unacked |-> lost]]
      BY <1>11 DEF Accepted, AcceptedWithoutId, LoseReply, Execute
    <2>4. /\ upstream'[issued + 1].order = tick[t].order
          /\ \A s \in 1..issued : upstream'[s] = upstream[s]
      BY <2>1, <2>3, PlacerAssumption DEF Sids
    <2>5. Placements(o)' = Placements(o)
      BY <2>1, <2>4 DEF Placements
    <2> QED  BY <2>1, <2>2, <2>5
  <1> QED  BY <1>1, <1>2, <1>3, <1>4, <1>5, <1>6, <1>7, <1>8, <1>9, <1>10, <1>11
           DEF Next, TickStep, PlaceReply

\* A row that is confirmed, cancelled or failed and in no tick's hands is never
\* queued or placed again, even by a tick that had selected it before.
THEOREM SettledFinal == Spec => SettledStaysSettled
  <1>1. TypeInv /\ [Next]_vars =>
          [\A o \in Orders :
             Settled(o) => Settled(o)' /\ Placements(o)' = Placements(o)]_vars
    BY SettledStep
  <1> QED  BY TypeInvInit, TypeInvStep, <1>1, PTL DEF Spec, SettledStaysSettled
-----------------------------------------------------------------------------
(* What holds when ticks do not overlap                                     *)

Serial == \A t, u \in Ticks : t = u

\* A row in the hands of the only tick has not been placed: this is what the
\* re-read in placeDeferred is for, and what a second tick breaks.
WorkingUnplaced ==
    \A t \in Ticks : tick[t].pc \in Busy => rows[tick[t].order].sid = NoSid

SerialInv == TypeInv /\ WorkingUnplaced /\ PlacedRowLooksPlaced

\* No tick runs.
LEMMA SerialInit == Init => SerialInv
  <1> SUFFICES ASSUME Init PROVE SerialInv
    OBVIOUS
  <1>1. WorkingUnplaced /\ PlacedRowLooksPlaced
    BY DEF Init, WorkingUnplaced, PlacedRowLooksPlaced, Idle
  <1> QED  BY <1>1, TypeInvInit DEF SerialInv

\* With one tick at a time, a row at work has no orderId of its own.
LEMMA SerialStep ==
  ASSUME Serial PROVE SerialInv /\ [Next]_vars => SerialInv'
  <1> SUFFICES ASSUME SerialInv, [Next]_vars PROVE SerialInv'
    OBVIOUS
  <1>0. TypeInv /\ TypeInv'
    BY TypeInvStep DEF SerialInv
  <1> SUFFICES WorkingUnplaced' /\ PlacedRowLooksPlaced'
    BY <1>0 DEF SerialInv
  <1> USE DEF SerialInv, TypeInv, TypeOK, Row, Tick, WorkingUnplaced, PlacedRowLooksPlaced
  <1>1. CASE UNCHANGED vars
    BY <1>1 DEF vars
  <1>2. ASSUME NEW p \in Orders, Submit(p) \/ BecomeDue(p) \/ CancelCheck(p) \/ CancelWrite(p)
        PROVE  WorkingUnplaced' /\ PlacedRowLooksPlaced'
    <2>1. UNCHANGED tick
      BY <1>2 DEF Submit, BecomeDue, CancelCheck, CancelWrite
    <2>2. \A o \in Orders : /\ rows'[o].sid = rows[o].sid
                            /\ rows[o].sid # NoSid =>
                                 rows'[o].status \in {rows[o].status, "cancelled"}
      <3>1. CASE Submit(p)
        BY <3>1 DEF Submit
      <3>2. CASE BecomeDue(p)
        BY <3>2 DEF BecomeDue
      <3>3. CASE CancelCheck(p)
        BY <3>3 DEF CancelCheck
      <3>4. CASE CancelWrite(p)
        BY <3>4 DEF CancelWrite
      <3> QED  BY <1>2, <3>1, <3>2, <3>3, <3>4
    <2> QED  BY <2>1, <2>2 DEF BusyTickHasOrder
  <1>3. ASSUME NEW t \in Ticks, UNCHANGED rows,
               tick'[t].pc \in Busy => /\ tick'[t].order \in Orders
                                       /\ rows[tick'[t].order].sid = NoSid
        PROVE  WorkingUnplaced' /\ PlacedRowLooksPlaced'
    BY <1>3 DEF Serial
  <1>4. ASSUME NEW t \in Ticks,
               \/ StartTick(t) \/ EndTick(t) \/ PassGate(t) \/ Rejected(t) \/ Recovered(t)
               \/ Throw(t) \/ WriteBackFails(t)
        PROVE  WorkingUnplaced' /\ PlacedRowLooksPlaced'
    <2>1. UNCHANGED rows
      BY <1>4 DEF StartTick, EndTick, PassGate, Rejected, Recovered, Throw, WriteBackFails
    <2>2. CASE StartTick(t)
      BY <2>1, <2>2, <1>3 DEF StartTick
    <2>3. CASE EndTick(t)
      BY <2>1, <2>3, <1>3 DEF EndTick, Idle
    <2>4. CASE PassGate(t) \/ Rejected(t) \/ Recovered(t) \/ Throw(t) \/ WriteBackFails(t)
      <3>1. tick'[t].order = tick[t].order /\ tick[t].pc \in Busy
        BY <2>4 DEF PassGate, Rejected, Recovered, Throw, WriteBackFails
      <3> QED  BY <3>1, <2>1, <1>3 DEF BusyTickHasOrder
    <2> QED  BY <1>4, <2>2, <2>3, <2>4
  <1>5. ASSUME NEW t \in Ticks, NEW p \in Orders, ReadRow(t, p) \/ SkipRow(t, p)
        PROVE  WorkingUnplaced' /\ PlacedRowLooksPlaced'
    <2>1. CASE ReadRow(t, p)
      BY <2>1, <1>3 DEF ReadRow, StillPlaceable
    <2>2. CASE SkipRow(t, p)
      BY <2>2, <1>3 DEF SkipRow
    <2> QED  BY <1>5, <2>1, <2>2
  <1>6. ASSUME NEW t \in Ticks, Accepted(t) \/ AcceptedWithoutId(t) \/ LoseReply(t)
        PROVE  WorkingUnplaced' /\ PlacedRowLooksPlaced'
    <2>1. UNCHANGED rows /\ tick[t].pc \in Busy
      BY <1>6 DEF Accepted, AcceptedWithoutId, LoseReply
    <2>2. tick'[t].order = tick[t].order
      <3>1. CASE Accepted(t)
        BY <3>1 DEF Accepted
      <3>2. CASE AcceptedWithoutId(t)
        BY <3>2 DEF AcceptedWithoutId
      <3>3. CASE LoseReply(t)
        BY <3>3 DEF LoseReply
      <3> QED  BY <1>6, <3>1, <3>2, <3>3
    <2> QED  BY <2>1, <2>2, <1>3 DEF BusyTickHasOrder
  <1>7. ASSUME NEW t \in Ticks,
               \/ NoToken(t) \/ HoldForGate(t) \/ BackOff(t)
               \/ GiveUp(t) \/ RecordThrow(t) \/ RecordSuccess(t)
        PROVE  WorkingUnplaced' /\ PlacedRowLooksPlaced'
    <2>1. /\ tick[t].order \in Orders /\ rows[tick[t].order].sid = NoSid
          /\ tick' = [tick EXCEPT ![t] = NextIteration(t)]
      BY <1>7 DEF NoToken, HoldForGate, BackOff, GiveUp, RecordThrow, RecordSuccess,
                  BusyTickHasOrder
    <2>2. WorkingUnplaced'
      BY <2>1, NextIterationType DEF Serial
    <2>3. PlacedRowLooksPlaced'
      <3>1. CASE RecordSuccess(t)
        BY <3>1, <2>1 DEF RecordSuccess
      <3>2. CASE \/ NoToken(t) \/ HoldForGate(t) \/ BackOff(t)
                 \/ GiveUp(t) \/ RecordThrow(t)
        BY <3>2, <2>1 DEF NoToken, HoldForGate, BackOff, GiveUp, RecordThrow
      <3> QED  BY <1>7, <3>1, <3>2
    <2> QED  BY <2>2, <2>3
  <1>8. CASE Crash
    BY <1>8 DEF Crash, Idle
  <1> QED  BY <1>1, <1>2, <1>4, <1>5, <1>6, <1>7, <1>8 DEF Next, TickStep, PlaceReply

\* When ticks do not overlap, a row that has a Swiggy order is shown as placed
\* or cancelled, never as waiting or failed.
THEOREM SerialPlacedLooksPlaced ==
  ASSUME Serial PROVE Spec => []PlacedRowLooksPlaced
  <1>1. SerialInv => PlacedRowLooksPlaced
    BY DEF SerialInv
  <1>2. SerialInv /\ [Next]_vars => SerialInv'
    BY SerialStep
  <1> QED  BY SerialInit, <1>1, <1>2, PTL DEF Spec

\* Only the recording of a success writes an orderId, and it does so into the
\* row the tick works on.
LEMMA SidWrite ==
  ASSUME SerialInv, [Next]_vars, NEW o \in Orders
  PROVE  \/ rows'[o].sid = rows[o].sid
         \/ \E t \in Ticks : /\ RecordSuccess(t) /\ tick[t].order = o
                             /\ rows'[o].sid = RecordedId(t)
  <1> USE DEF SerialInv, TypeInv, TypeOK, Row
  <1>1. CASE UNCHANGED rows
    BY <1>1
  <1>2. ASSUME NEW p \in Orders, Submit(p) \/ BecomeDue(p) \/ CancelWrite(p)
        PROVE  rows'[o].sid = rows[o].sid
    <2>1. CASE Submit(p)
      BY <2>1 DEF Submit
    <2>2. CASE BecomeDue(p)
      BY <2>2 DEF BecomeDue
    <2>3. CASE CancelWrite(p)
      BY <2>3 DEF CancelWrite
    <2> QED  BY <1>2, <2>1, <2>2, <2>3
  <1>3. ASSUME NEW t \in Ticks,
               NoToken(t) \/ HoldForGate(t) \/ BackOff(t) \/ GiveUp(t) \/ RecordThrow(t)
        PROVE  rows'[o].sid = rows[o].sid
    BY <1>3 DEF NoToken, HoldForGate, BackOff, GiveUp, RecordThrow
  <1>4. ASSUME NEW t \in Ticks, RecordSuccess(t)
        PROVE  \/ rows'[o].sid = rows[o].sid
               \/ tick[t].order = o /\ rows'[o].sid = RecordedId(t)
    BY <1>4 DEF RecordSuccess
  <1>5. \/ UNCHANGED rows
        \/ \E p \in Orders : Submit(p) \/ BecomeDue(p) \/ CancelWrite(p)
        \/ \E t \in Ticks : \/ NoToken(t) \/ HoldForGate(t) \/ BackOff(t) \/ GiveUp(t)
                            \/ RecordThrow(t) \/ RecordSuccess(t)
    BY DEF Next, vars, TickStep, PlaceReply, CancelCheck, StartTick, EndTick, ReadRow,
           SkipRow, PassGate, Accepted, AcceptedWithoutId, LoseReply, Recovered,
           Rejected, Throw, WriteBackFails, Crash
  <1> QED  BY <1>1, <1>2, <1>3, <1>4, <1>5

SerialLedger == Ledger /\ SerialInv /\ KnownOrderIsRecorded

\* With one tick at a time, what is recorded is what was acknowledged.
LEMMA SerialLedgerStep ==
  ASSUME Serial PROVE SerialLedger /\ [Next]_vars => SerialLedger'
  <1> SUFFICES ASSUME SerialLedger, [Next]_vars PROVE SerialLedger'
    OBVIOUS
  <1>1. Ledger /\ Ledger' /\ SerialInv /\ SerialInv' /\ KnownOrderIsRecorded
    BY LedgerStep, SerialStep DEF SerialLedger
  <1>2. ASSUME NEW s \in 1..issued', ~upstream'[s].unacked,
               ~Holds(upstream[s].by, s)'
        PROVE  rows'[upstream'[s].order].sid = s
    <2> DEFINE o == upstream'[s].order
    <2>1. /\ o \in Orders /\ upstream'[s].by \in Ticks
          /\ s \in Sids /\ s # NoSid
          /\ rows'[o].sid # NoSid /\ ~Working(upstream[s].by, upstream[s].order)'
      BY <1>1, <1>2, PlacerAssumption
      DEF Ledger, Located, TypeInv, TypeOK, OriginKnown, Sids
    <2>2. CASE s \in 1..issued /\ upstream'[s].order = upstream[s].order
               /\ upstream'[s].by = upstream[s].by /\ ~upstream[s].unacked
      <3>1. \/ Holds(upstream[s].by, s) /\ rows[o].sid = NoSid
            \/ rows[o].sid = s
        BY <1>1, <2>1, <2>2
        DEF KnownOrderIsRecorded, SerialInv, WorkingUnplaced, Holds
      <3>2. CASE rows'[o].sid = rows[o].sid
        BY <2>1, <3>1, <3>2
      <3>3. ASSUME NEW t \in Ticks, tick[t].order = o, RecordSuccess(t),
                   rows'[o].sid = RecordedId(t)
            PROVE  rows'[o].sid = s
        <4>1. rows[o].sid = NoSid
          BY <1>1, <3>3 DEF SerialInv, WorkingUnplaced, RecordSuccess
        <4>2. Holds(t, s)
          BY <3>1, <4>1, <2>1, <2>2 DEF Serial
        <4> QED  BY <4>2, <3>3, <2>1 DEF Holds, RecordedId
      <3> QED  BY <3>2, <3>3, <2>1, <1>1, SidWrite
    <2>3. ASSUME NEW t \in Ticks, NEW lost \in BOOLEAN, s = issued + 1,
                 Execute(t, lost), UNCHANGED rows, tick[t].pc = "placing"
          PROVE  FALSE
      <3>1. upstream'[s].order = tick[t].order
        BY <2>1, <2>3 DEF Execute, SerialLedger, SerialInv, TypeInv, TypeOK
      <3>2. rows[tick[t].order].sid = NoSid
        BY <1>1, <2>3 DEF SerialInv, WorkingUnplaced
      <3> QED  BY <3>1, <3>2, <2>1, <2>3
    <2>4. \/ UNCHANGED issued
          \/ \E t \in Ticks, lost \in BOOLEAN :
               Execute(t, lost) /\ UNCHANGED rows /\ tick[t].pc = "placing"
      BY DEF Next, vars, TickStep, PlaceReply, Submit, BecomeDue, CancelCheck,
             CancelWrite, StartTick, EndTick, ReadRow, SkipRow, NoToken, HoldForGate,
             PassGate, Recovered, Rejected, Throw, RecordSuccess, WriteBackFails,
             BackOff, GiveUp, RecordThrow, Crash, Accepted, AcceptedWithoutId, LoseReply
    <2>5. ASSUME s \in 1..issued
          PROVE  /\ upstream'[s].order = upstream[s].order
                 /\ upstream'[s].by = upstream[s].by /\ ~upstream[s].unacked
      BY <2>5, <1>1, <1>2, OriginKept DEF Ledger
    <2>6. CASE UNCHANGED issued
      BY <2>2, <2>5, <2>6
    <2>7. ASSUME NEW t \in Ticks, NEW lost \in BOOLEAN,
                 Execute(t, lost), UNCHANGED rows, tick[t].pc = "placing"
          PROVE  rows'[o].sid = s
      <3>1. issued \in Nat /\ issued' = issued + 1
        BY <1>1, <2>7, PlacerAssumption DEF Execute, Ledger, TypeInv, TypeOK
      <3>2. s \in 1..issued \/ s = issued + 1
        BY <3>1
      <3> QED  BY <3>2, <2>2, <2>3, <2>5, <2>7
    <2> QED  BY <2>4, <2>6, <2>7
  <1>3. KnownOrderIsRecorded'
    BY <1>2 DEF KnownOrderIsRecorded
  <1> QED  BY <1>1, <1>3 DEF SerialLedger

\* When ticks do not overlap, the row records every Swiggy order the placer
\* was told of: none is lost, overwritten or recorded as failed.
THEOREM SerialRecorded ==
  ASSUME Serial PROVE Spec => []KnownOrderIsRecorded
  <1>1. Init => SerialLedger
    <2>1. Init => KnownOrderIsRecorded
      BY DEF Init, KnownOrderIsRecorded
    <2> QED  BY <2>1, LedgerInit, SerialInit DEF SerialLedger
  <1>2. SerialLedger => KnownOrderIsRecorded
    BY DEF SerialLedger
  <1>3. SerialLedger /\ [Next]_vars => SerialLedger'
    BY SerialLedgerStep
  <1> QED  BY <1>1, <1>2, <1>3, PTL DEF Spec
=============================================================================
