------------------------ MODULE WebhookDeliveryProofs ------------------------
(***************************************************************************)
(* The safety properties of WebhookDelivery for any number of events,      *)
(* accounts, processes and faults.                                         *)
(***************************************************************************)
EXTENDS WebhookDelivery, FiniteSetTheorems, TLAPS

(* A process has an event in its hands unless it is idle, and what its     *)
(* stage says has been written for that event has been written.            *)
Underhand ==
    \A p \in Procs :
        /\ IF stage[p] = "idle" THEN event[p] = NoEvent ELSE event[p] \in Events
        /\ stage[p] = "row" => Kind[event[p]] = "plan" /\ event[p] \in rows
        /\ stage[p] = "read" => Kind[event[p]] = "credit"
        /\ stage[p] = "applied" => event[p] \in applied

(* A web process that makes an update is not handling a delivery, and no   *)
(* update of a web process is under way without one.                       *)
Engaged ==
    /\ \A p \in Procs : busy[p] # NoUpdate => update[busy[p]] = "read" /\ stage[p] = "idle"
    /\ \A t \in Updates : update[t] = "read" /\ InWeb(t) => \E p \in Procs : busy[p] = t

Inductive == TypeOK /\ Underhand /\ SettledIsApplied /\ Engaged

(* Every step of a delivery keeps the invariant: the writes come in the    *)
(* order row, user, marker, answer.                                        *)
LEMMA InductiveStep ==
    ASSUME Inductive, [Next]_vars
    PROVE  Inductive'
<1>. USE DEF Inductive, TypeOK, Underhand, SettledIsApplied, Engaged, Stages
<1>1. ASSUME NEW e \in Events, NEW p \in Procs, Deliver(e, p) \/ Redeliver(e, p)
      PROVE  Inductive'
  BY <1>1, DeliveryAssumption DEF Deliver, Redeliver, Begin, otherVars, updateVars
<1>2. ASSUME NEW p \in Procs, WriteRow(p)
      PROVE  Inductive'
  BY <1>2 DEF WriteRow, otherVars, updateVars
<1>3. ASSUME NEW p \in Procs, WriteUser(p)
      PROVE  Inductive'
  BY <1>3 DEF WriteUser, otherVars, updateVars
<1>4. ASSUME NEW p \in Procs, ReadBalance(p)
      PROVE  Inductive'
  BY <1>4, DeliveryAssumption DEF ReadBalance, otherVars, updateVars
<1>5. ASSUME NEW p \in Procs, WriteBalance(p)
      PROVE  Inductive'
  BY <1>5, DeliveryAssumption DEF WriteBalance, Credited, Overtakes, updateVars
<1>6. ASSUME NEW p \in Procs, PassOver(p)
      PROVE  Inductive'
  BY <1>6 DEF PassOver, otherVars, updateVars
<1>7. ASSUME NEW p \in Procs, Record(p)
      PROVE  Inductive'
  BY <1>7, DeliveryAssumption DEF Record, Marks, Fault, Finish, otherVars, updateVars
<1>8. ASSUME NEW p \in Procs, Raise(p)
      PROVE  Inductive'
  BY <1>8, DeliveryAssumption DEF Raise, Fault, Finish, otherVars, updateVars
<1>9. ASSUME NEW p \in Procs, Crash(p)
      PROVE  Inductive'
  BY <1>9, DeliveryAssumption DEF Crash, Marks, Fault, Finish, otherVars, updateVars
<1>11. ASSUME NEW t \in Updates, UpdateRead(t)
       PROVE  Inductive'
  <2>1. /\ UNCHANGED handlerVars /\ UNCHANGED <<credits, faults, overtaken>>
        /\ update[t] = "due" /\ update' = [update EXCEPT ![t] = "read"]
        /\ found' \in [Updates -> Nat]
    BY <1>11, DeliveryAssumption DEF UpdateRead
  <2>2. CASE UNCHANGED busy /\ ~InWeb(t)
    BY <2>1, <2>2 DEF handlerVars
  <2>3. ASSUME NEW p \in Procs, stage[p] = "idle", busy[p] = NoUpdate,
               busy' = [busy EXCEPT ![p] = t]
        PROVE  Inductive'
    <3>1. TypeOK' /\ Underhand' /\ SettledIsApplied'
      BY <2>1, <2>3 DEF handlerVars
    <3>2. \A q \in Procs : busy[q] # t
      BY <2>1, DeliveryAssumption
    <3>3. \A q \in Procs : busy'[q] # NoUpdate => update'[busy'[q]] = "read" /\ stage'[q] = "idle"
      <4>. TAKE q \in Procs
      <4>1. CASE q = p
        BY <2>1, <2>3, <4>1 DEF handlerVars
      <4>2. CASE q # p
        BY <2>1, <2>3, <3>2, <4>2 DEF handlerVars
      <4>. QED
        BY <4>1, <4>2
    <3>4. \A v \in Updates : update'[v] = "read" /\ InWeb(v) => \E q \in Procs : busy'[q] = v
      BY <2>1, <2>3, DeliveryAssumption
    <3>. QED
      BY <3>1, <3>3, <3>4
  <2>. QED
    BY <1>11, <2>2, <2>3 DEF UpdateRead
<1>12. ASSUME NEW t \in Updates, UpdateWrite(t)
       PROVE  Inductive'
  BY <1>12, DeliveryAssumption DEF UpdateWrite, EndUpdate, Overtakes, handlerVars
<1>13. ASSUME NEW t \in Updates, UpdateBreaks(t)
       PROVE  Inductive'
  BY <1>13, DeliveryAssumption DEF UpdateBreaks, EndUpdate, Fault, handlerVars
<1>10. CASE UNCHANGED vars
  BY <1>10 DEF vars
<1>. QED
  BY <1>1, <1>2, <1>3, <1>4, <1>5, <1>6, <1>7, <1>8, <1>9, <1>10, <1>11, <1>12, <1>13
     DEF Next, HandlerStep

(* The invariant holds in every reachable state.                           *)
THEOREM InductiveCorrect == Spec => []Inductive
<1>1. Init => Inductive
  BY DeliveryAssumption
     DEF Init, Inductive, TypeOK, Underhand, SettledIsApplied, Engaged, Stages
<1>2. Inductive /\ [Next]_vars => Inductive'
  BY InductiveStep
<1>. QED
  BY <1>1, <1>2, PTL DEF Spec

(* No event is answered or marked before its handler has run to its end,   *)
(* however many processes handle it and wherever they break off.           *)
THEOREM SettledIsAppliedCorrect == Spec => []SettledIsApplied
<1>1. Inductive => SettledIsApplied
  BY DEF Inductive
<1>. QED
  BY <1>1, InductiveCorrect, PTL
-----------------------------------------------------------------------------
(* The stages, events, markers and balances keep their types.              *)
THEOREM TypeCorrect == Spec => []TypeOK
<1>1. Inductive => TypeOK
  BY DEF Inductive
<1>. QED
  BY <1>1, InductiveCorrect, PTL

(* The values of the balance of u that somebody holds and will write back. *)
Held(u) ==
    {seen[p] : p \in {q \in Procs : stage[q] = "read" /\ Account[event[q]] = u}}
        \cup {found[t] : t \in {v \in Updates : update[v] = "read" /\ Of[v] = u}}

(* What the balance owes: bought, handed back and granted, less what was   *)
(* taken and what was overtaken.                                           *)
Due(u) ==
    Cardinality(Bought(u)) + Cardinality(Added(u)) - Cardinality(Taken(u)) - overtaken[u]

(* The balance, and every value of it that is held, covers what it owes.   *)
Covered(u) == credits[u] >= Due(u) /\ \A n \in Held(u) : n >= Due(u)

Alone == Cardinality(Procs) = 1
Refunding(u) == \E t \in Updates : Of[t] = u /\ ~InWeb(t) /\ update[t] # "due"

(* What inclusion, and one element more, do to a count.                    *)
LEMMA Counted ==
    ASSUME NEW S, IsFiniteSet(S), NEW T, NEW x
    PROVE  /\ T \subseteq S => Cardinality(T) <= Cardinality(S)
           /\ T \subseteq S \cup {x} => Cardinality(T) <= Cardinality(S) + 1
           /\ x \in S => Cardinality(S \ {x}) = Cardinality(S) - 1
           /\ x \notin S => Cardinality(S \cup {x}) = Cardinality(S) + 1
<1>1. T \subseteq S => Cardinality(T) <= Cardinality(S)
  BY FS_Subset
<1>2. /\ IsFiniteSet(S \cup {x}) /\ Cardinality(S) \in Nat
      /\ Cardinality(S \cup {x}) = IF x \in S THEN Cardinality(S) ELSE Cardinality(S) + 1
  BY FS_AddElement, FS_CardinalityType
<1>3. ASSUME T \subseteq S \cup {x} PROVE Cardinality(T) <= Cardinality(S) + 1
  <2>1. IsFiniteSet(T) /\ Cardinality(T) <= Cardinality(S \cup {x})
    BY <1>2, <1>3, FS_Subset
  <2>2. Cardinality(T) \in Nat
    BY <2>1, FS_CardinalityType
  <2>. QED
    BY <1>2, <2>1, <2>2
<1>4. x \in S => Cardinality(S \ {x}) = Cardinality(S) - 1
  BY FS_RemoveElement
<1>. QED
  BY <1>1, <1>2, <1>3, <1>4

LEMMA Tallies ==
    ASSUME TypeOK, NEW u \in Accounts
    PROVE  /\ IsFiniteSet(Bought(u)) /\ IsFiniteSet(Added(u)) /\ IsFiniteSet(Taken(u))
           /\ Cardinality(Bought(u)) \in Nat /\ Cardinality(Added(u)) \in Nat
           /\ Cardinality(Taken(u)) \in Nat /\ overtaken[u] \in Nat
           /\ Due(u) \in Int /\ credits[u] \in Nat /\ Held(u) \subseteq Nat
<1>1. /\ Bought(u) \in SUBSET Events /\ Added(u) \in SUBSET Updates
      /\ Taken(u) \in SUBSET Updates
  BY DEF TypeOK, Bought, Added, Taken
<1>2. IsFiniteSet(Bought(u)) /\ IsFiniteSet(Added(u)) /\ IsFiniteSet(Taken(u))
  BY <1>1, FS_Subset, DeliveryAssumption
<1>3. /\ Cardinality(Bought(u)) \in Nat /\ Cardinality(Added(u)) \in Nat
      /\ Cardinality(Taken(u)) \in Nat
  BY <1>2, FS_CardinalityType
<1>4. overtaken[u] \in Nat /\ credits[u] \in Nat /\ Held(u) \subseteq Nat
  BY DEF TypeOK, Held
<1>. QED
  BY <1>2, <1>3, <1>4 DEF Due

LEMMA TalliesNext ==
    ASSUME TypeOK', NEW u \in Accounts
    PROVE  /\ Cardinality(Bought(u)') \in Nat /\ Cardinality(Added(u)') \in Nat
           /\ Cardinality(Taken(u)') \in Nat /\ overtaken'[u] \in Nat
           /\ Due(u)' \in Int /\ credits'[u] \in Nat
<1>1. /\ Bought(u)' \in SUBSET Events /\ Added(u)' \in SUBSET Updates
      /\ Taken(u)' \in SUBSET Updates
  BY DEF TypeOK, Bought, Added, Taken
<1>2. IsFiniteSet(Bought(u)') /\ IsFiniteSet(Added(u)') /\ IsFiniteSet(Taken(u)')
  BY <1>1, FS_Subset, DeliveryAssumption
<1>3. /\ Cardinality(Bought(u)') \in Nat /\ Cardinality(Added(u)') \in Nat
      /\ Cardinality(Taken(u)') \in Nat
  BY <1>2, FS_CardinalityType
<1>4. overtaken'[u] \in Nat /\ credits'[u] \in Nat
  BY DEF TypeOK
<1>. QED
  BY <1>3, <1>4 DEF Due

(* The writes of a balance; every other step leaves the balances alone.    *)
Writes ==
    \/ \E p \in Procs : WriteBalance(p)
    \/ \E t \in Updates : UpdateWrite(t)

(* Outside a write a value that is held was held before or is the balance  *)
(* just read, and no count changes.                                        *)
LEMMA QuietStep ==
    ASSUME Inductive, NEW u \in Accounts, [Next]_vars, ~Writes
    PROVE  /\ UNCHANGED <<credits, overtaken>>
           /\ Held(u)' \subseteq Held(u) \cup {credits[u]}
           /\ Bought(u)' = Bought(u) /\ Added(u)' = Added(u) /\ Taken(u)' = Taken(u)
<1>. USE DEF Held, Added, Taken
<1>t. /\ stage \in [Procs -> Stages] /\ event \in [Procs -> Events \cup {NoEvent}]
      /\ seen \in [Procs -> Nat] /\ found \in [Updates -> Nat]
      /\ update \in [Updates -> {"due", "read", "done", "broken"}]
      /\ \A p \in Procs : stage[p] = "row" => Kind[event[p]] = "plan"
  BY DEF Inductive, Underhand, TypeOK
<1>1. ASSUME NEW e \in Events, NEW p \in Procs, Deliver(e, p) \/ Redeliver(e, p)
      PROVE  /\ UNCHANGED <<credits, overtaken, seen, update, found, applied>>
             /\ Held(u)' \subseteq Held(u) \cup {credits[u]}
  BY <1>1, <1>t DEF Deliver, Redeliver, Begin, otherVars, updateVars
<1>2. ASSUME NEW p \in Procs, WriteRow(p) \/ WriteUser(p) \/ PassOver(p)
      PROVE  /\ UNCHANGED <<credits, overtaken, seen, update, found>>
             /\ Held(u)' \subseteq Held(u) \cup {credits[u]}
             /\ applied' = applied \/ (applied' = applied \cup {event[p]} /\ Kind[event[p]] # "credit")
  BY <1>2, <1>t DEF WriteRow, WriteUser, PassOver, otherVars, updateVars
<1>3. ASSUME NEW p \in Procs, ReadBalance(p)
      PROVE  /\ UNCHANGED <<credits, overtaken, update, found>> /\ UNCHANGED applied
             /\ Held(u)' \subseteq Held(u) \cup {credits[u]}
  <2>1. /\ UNCHANGED <<event, credits, overtaken, update, found, applied>>
        /\ seen' = [seen EXCEPT ![p] = credits[Account[event[p]]]]
        /\ stage' = [stage EXCEPT ![p] = "read"]
    BY <1>3 DEF ReadBalance, otherVars, updateVars
  <2>2. ASSUME NEW q \in Procs, stage'[q] = "read", Account[event'[q]] = u
        PROVE  seen'[q] \in Held(u) \cup {credits[u]}
    <3>1. CASE q = p
      BY <1>t, <2>1, <2>2, <3>1
    <3>2. CASE q # p
      BY <1>t, <2>1, <2>2, <3>2
    <3>. QED
      BY <3>1, <3>2
  <2>. QED
    BY <2>1, <2>2
<1>4. ASSUME NEW p \in Procs, Record(p) \/ Raise(p) \/ Crash(p)
      PROVE  /\ UNCHANGED <<credits, overtaken, update, found>> /\ UNCHANGED applied
             /\ Held(u)' \subseteq Held(u) \cup {credits[u]}
  BY <1>4, <1>t DEF Record, Raise, Crash, Finish, otherVars, updateVars
<1>5. ASSUME NEW t \in Updates, UpdateRead(t)
      PROVE  /\ UNCHANGED <<credits, overtaken, applied>>
             /\ Held(u)' \subseteq Held(u) \cup {credits[u]}
             /\ Added(u)' = Added(u) /\ Taken(u)' = Taken(u)
  <2>1. /\ UNCHANGED <<stage, event, seen, credits, overtaken, applied>>
        /\ update[t] = "due" /\ update' = [update EXCEPT ![t] = "read"]
        /\ found' = [found EXCEPT ![t] = credits[Of[t]]]
    BY <1>5 DEF UpdateRead, handlerVars
  <2>2. ASSUME NEW v \in Updates, update'[v] = "read", Of[v] = u
        PROVE  found'[v] \in Held(u) \cup {credits[u]}
    <3>1. CASE v = t
      BY <1>t, <2>1, <2>2, <3>1
    <3>2. CASE v # t
      BY <1>t, <2>1, <2>2, <3>2
    <3>. QED
      BY <3>1, <3>2
  <2>3. \A v \in Updates : update'[v] = "done" <=> update[v] = "done"
    BY <1>t, <2>1
  <2>4. Added(u)' = Added(u) /\ Taken(u)' = Taken(u)
    BY <2>3
  <2>. QED
    BY <2>1, <2>2, <2>4
<1>6. ASSUME NEW t \in Updates, UpdateBreaks(t)
      PROVE  /\ UNCHANGED <<credits, overtaken, applied>>
             /\ Held(u)' \subseteq Held(u) \cup {credits[u]}
             /\ Added(u)' = Added(u) /\ Taken(u)' = Taken(u)
  <2>1. /\ UNCHANGED <<stage, event, seen, credits, overtaken, applied>>
        /\ update[t] = "read" /\ update' = [update EXCEPT ![t] = "broken"]
        /\ found' = [found EXCEPT ![t] = 0]
    BY <1>6 DEF UpdateBreaks, EndUpdate, handlerVars
  <2>2. ASSUME NEW v \in Updates, update'[v] = "read"
        PROVE  update[v] = "read" /\ found'[v] = found[v]
    BY <1>t, <2>1, <2>2
  <2>3. \A v \in Updates : update'[v] = "done" <=> update[v] = "done"
    BY <1>t, <2>1
  <2>4. Added(u)' = Added(u) /\ Taken(u)' = Taken(u)
    BY <2>3
  <2>. QED
    BY <2>1, <2>2, <2>4
<1>7. CASE UNCHANGED vars
  BY <1>7 DEF vars, Bought
<1>8. ASSUME NEW p \in Procs, HandlerStep(p) \/ Raise(p) \/ Crash(p)
      PROVE  /\ UNCHANGED <<credits, overtaken, update, found>>
             /\ Held(u)' \subseteq Held(u) \cup {credits[u]}
             /\ applied' = applied \/ (applied' = applied \cup {event[p]} /\ Kind[event[p]] # "credit")
  <2>1. CASE WriteRow(p) \/ WriteUser(p) \/ PassOver(p)
    BY <1>2, <2>1
  <2>2. CASE ReadBalance(p)
    BY <1>3, <2>2
  <2>3. CASE Record(p) \/ Raise(p) \/ Crash(p)
    BY <1>4, <2>3
  <2>. QED
    BY <1>8, <2>1, <2>2, <2>3 DEF HandlerStep, Writes
<1>. QED
  BY <1>1, <1>5, <1>6, <1>7, <1>8 DEF Next, Writes, Bought

(* A writer alone with its value leaves none behind.                       *)
LEMMA WriteLetsGo ==
    ASSUME Inductive, NEW u \in Accounts,
           \/ \E p \in Procs : WriteBalance(p) /\ Holding(u) \subseteq {p}
           \/ \E t \in Updates : UpdateWrite(t) /\ Holding(u) \subseteq {t}
    PROVE  Held(u)' = {}
<1>t. /\ stage \in [Procs -> Stages] /\ event \in [Procs -> Events \cup {NoEvent}]
      /\ update \in [Updates -> {"due", "read", "done", "broken"}]
      /\ Updates \cap Procs = {}
  BY DeliveryAssumption DEF Inductive, TypeOK
<1>1. ASSUME NEW p \in Procs, WriteBalance(p), Holding(u) \subseteq {p}
      PROVE  Held(u)' = {}
  <2>1. UNCHANGED <<event, update>> /\ stage' = [stage EXCEPT ![p] = "applied"]
    BY <1>1 DEF WriteBalance, updateVars
  <2>2. \A q \in Procs : ~ (stage'[q] = "read" /\ Account[event'[q]] = u)
    BY <1>t, <1>1, <2>1 DEF Holding
  <2>3. \A v \in Updates : ~ (update'[v] = "read" /\ Of[v] = u)
    BY <1>t, <1>1, <2>1 DEF Holding
  <2>. QED
    BY <2>2, <2>3 DEF Held
<1>2. ASSUME NEW t \in Updates, UpdateWrite(t), Holding(u) \subseteq {t}
      PROVE  Held(u)' = {}
  <2>1. UNCHANGED <<event, stage>> /\ update' = [update EXCEPT ![t] = "done"]
    BY <1>2 DEF UpdateWrite, EndUpdate, handlerVars
  <2>2. \A q \in Procs : ~ (stage'[q] = "read" /\ Account[event'[q]] = u)
    BY <1>t, <1>2, <2>1 DEF Holding
  <2>3. \A v \in Updates : ~ (update'[v] = "read" /\ Of[v] = u)
    BY <1>t, <1>2, <2>1 DEF Holding
  <2>. QED
    BY <2>2, <2>3 DEF Held
<1>. QED
  BY <1>1, <1>2

(* A purchase raises the balance it had read by one.                       *)
LEMMA PurchaseStep ==
    ASSUME Inductive, NEW u \in Accounts, NEW p \in Procs, WriteBalance(p)
    PROVE  /\ Held(u)' \subseteq Held(u) /\ Added(u)' = Added(u) /\ Taken(u)' = Taken(u)
           /\ Account[event[p]] # u =>
                  credits'[u] = credits[u] /\ overtaken'[u] = overtaken[u] /\ Bought(u)' = Bought(u)
           /\ Account[event[p]] = u =>
                  /\ seen[p] \in Held(u) /\ credits'[u] = seen[p] + 1
                  /\ Cardinality(Bought(u)') <= Cardinality(Bought(u)) + 1
                  /\ \/ overtaken'[u] = overtaken[u] + 1
                     \/ overtaken'[u] = overtaken[u] /\ Holding(u) \subseteq {p}
<1> DEFINE e == event[p]
<1>t. /\ stage \in [Procs -> Stages] /\ event \in [Procs -> Events \cup {NoEvent}]
      /\ seen \in [Procs -> Nat] /\ credits \in [Accounts -> Nat] /\ TypeOK
      /\ overtaken \in [Accounts -> Nat]
      /\ stage[p] = "read" /\ e \in Events /\ stage' = [stage EXCEPT ![p] = "applied"]
      /\ credits' = [credits EXCEPT ![Account[e]] = seen[p] + 1]
      /\ seen' = [seen EXCEPT ![p] = 0] /\ applied' = applied \cup {e}
      /\ overtaken' = [overtaken EXCEPT ![Account[e]] =
                          IF Holding(Account[e]) \ {p} = {} THEN @ ELSE @ + 1]
      /\ UNCHANGED <<event, update, found>>
  BY DEF Inductive, Underhand, TypeOK, WriteBalance, Credited, Overtakes, updateVars
<1>1. Held(u)' \subseteq Held(u) /\ Added(u)' = Added(u) /\ Taken(u)' = Taken(u)
  <2>1. \A q \in Procs : stage'[q] = "read" => stage[q] = "read" /\ seen'[q] = seen[q]
    BY <1>t
  <2>. QED
    BY <1>t, <2>1 DEF Held, Added, Taken
<1>2. CASE Account[e] # u
  BY <1>t, <1>1, <1>2 DEF Bought
<1>3. CASE Account[e] = u
  <2>1. seen[p] \in Held(u) /\ credits'[u] = seen[p] + 1
    BY <1>t, <1>3 DEF Held
  <2>2. Bought(u)' \subseteq Bought(u) \cup {e}
    BY <1>t DEF Bought
  <2>3. Cardinality(Bought(u)') <= Cardinality(Bought(u)) + 1
    BY <1>t, <2>2, Tallies, Counted
  <2>4. \/ overtaken'[u] = overtaken[u] + 1
        \/ overtaken'[u] = overtaken[u] /\ Holding(u) \subseteq {p}
    BY <1>t, <1>3
  <2>. QED
    BY <1>1, <1>3, <2>1, <2>3, <2>4
<1>. QED
  BY <1>2, <1>3

(* Any other update writes back the balance it had found, one up or down.  *)
LEMMA UpdateStep ==
    ASSUME Inductive, NEW u \in Accounts, NEW t \in Updates, UpdateWrite(t)
    PROVE  /\ Held(u)' \subseteq Held(u) /\ Bought(u)' = Bought(u)
           /\ Of[t] # u =>
                  /\ credits'[u] = credits[u] /\ overtaken'[u] = overtaken[u]
                  /\ Added(u)' = Added(u) /\ Taken(u)' = Taken(u)
           /\ Of[t] = u /\ Adds(t) =>
                  /\ found[t] \in Held(u) /\ credits'[u] = found[t] + 1
                  /\ Cardinality(Added(u)') = Cardinality(Added(u)) + 1
                  /\ Taken(u)' = Taken(u)
                  /\ \/ overtaken'[u] = overtaken[u] + 1
                     \/ overtaken'[u] = overtaken[u] /\ Holding(u) \subseteq {t}
           /\ Of[t] = u /\ ~Adds(t) =>
                  /\ found[t] \in Held(u)
                  /\ credits'[u] = IF found[t] = 0 THEN 0 ELSE found[t] - 1
                  /\ Cardinality(Taken(u)') = Cardinality(Taken(u)) + 1
                  /\ Added(u)' = Added(u) /\ overtaken'[u] = overtaken[u]
<1>t. /\ update \in [Updates -> {"due", "read", "done", "broken"}]
      /\ found \in [Updates -> Nat] /\ credits \in [Accounts -> Nat] /\ TypeOK
      /\ overtaken \in [Accounts -> Nat] /\ Of \in [Updates -> Accounts]
      /\ update[t] = "read" /\ update' = [update EXCEPT ![t] = "done"]
      /\ found' = [found EXCEPT ![t] = 0]
      /\ UNCHANGED <<stage, event, seen, applied>>
  BY DeliveryAssumption DEF Inductive, TypeOK, UpdateWrite, EndUpdate, handlerVars
<1>1. Held(u)' \subseteq Held(u) /\ Bought(u)' = Bought(u)
  <2>1. \A v \in Updates : update'[v] = "read" => update[v] = "read" /\ found'[v] = found[v]
    BY <1>t
  <2>. QED
    BY <1>t, <2>1 DEF Held, Bought
<1>2. t \notin Added(u) /\ t \notin Taken(u) /\ (Of[t] = u => found[t] \in Held(u))
  BY <1>t DEF Added, Taken, Held
<1>3. /\ Of[t] # u => Added(u)' = Added(u) /\ Taken(u)' = Taken(u)
      /\ Of[t] = u /\ Adds(t) => Added(u)' = Added(u) \cup {t} /\ Taken(u)' = Taken(u)
      /\ Of[t] = u /\ ~Adds(t) => Taken(u)' = Taken(u) \cup {t} /\ Added(u)' = Added(u)
  BY <1>t DEF Added, Taken
<1>4. /\ Cardinality(Added(u) \cup {t}) = Cardinality(Added(u)) + 1
      /\ Cardinality(Taken(u) \cup {t}) = Cardinality(Taken(u)) + 1
  BY <1>t, <1>2, Tallies, Counted
<1>5. CASE Adds(t)
  <2>1. /\ credits' = [credits EXCEPT ![Of[t]] = found[t] + 1]
        /\ overtaken' = [overtaken EXCEPT ![Of[t]] =
                            IF Holding(Of[t]) \ {t} = {} THEN @ ELSE @ + 1]
    BY <1>5 DEF UpdateWrite, Overtakes
  <2>2. CASE Of[t] # u
    BY <1>t, <1>1, <1>3, <2>1, <2>2
  <2>3. CASE Of[t] = u
    <3>1. \/ overtaken'[u] = overtaken[u] + 1
          \/ overtaken'[u] = overtaken[u] /\ Holding(u) \subseteq {t}
      BY <1>t, <2>1, <2>3
    <3>2. credits'[u] = found[t] + 1
      BY <1>t, <2>1, <2>3
    <3>3. Added(u)' = Added(u) \cup {t} /\ Taken(u)' = Taken(u)
      BY <1>3, <1>5, <2>3
    <3>. QED
      BY <1>1, <1>2, <1>4, <1>5, <2>3, <3>1, <3>2, <3>3
  <2>. QED
    BY <2>2, <2>3
<1>6. CASE ~Adds(t)
  <2>1. /\ credits' = [credits EXCEPT ![Of[t]] = IF found[t] = 0 THEN 0 ELSE found[t] - 1]
        /\ overtaken' = overtaken
    BY <1>6 DEF UpdateWrite
  <2>2. CASE Of[t] # u
    BY <1>t, <1>1, <1>3, <2>1, <2>2
  <2>3. CASE Of[t] = u
    <3>1. credits'[u] = IF found[t] = 0 THEN 0 ELSE found[t] - 1
      BY <1>t, <2>1, <2>3
    <3>2. Taken(u)' = Taken(u) \cup {t} /\ Added(u)' = Added(u)
      BY <1>3, <1>6, <2>3
    <3>. QED
      BY <1>1, <1>2, <1>4, <1>6, <2>1, <2>3, <3>1, <3>2
  <2>. QED
    BY <2>2, <2>3
<1>. QED
  BY <1>5, <1>6

(* The balance and the values held of it cover what is owed, for every     *)
(* number of processes and updates.                                        *)
LEMMA CoveredStep ==
    ASSUME Inductive, Inductive', NEW u \in Accounts, Covered(u), [Next]_vars
    PROVE  Covered(u)'
<1>n. /\ Cardinality(Bought(u)) \in Nat /\ Cardinality(Added(u)) \in Nat
      /\ Cardinality(Taken(u)) \in Nat /\ overtaken[u] \in Nat
      /\ Due(u) \in Int /\ credits[u] \in Nat /\ Held(u) \subseteq Nat
      /\ Cardinality(Bought(u)') \in Nat /\ Cardinality(Added(u)') \in Nat
      /\ Cardinality(Taken(u)') \in Nat /\ overtaken'[u] \in Nat
      /\ Due(u)' \in Int /\ credits'[u] \in Nat
  BY Tallies, TalliesNext DEF Inductive
<1>h. credits[u] >= Due(u) /\ \A n \in Held(u) : n >= Due(u)
  BY DEF Covered
<1>1. CASE ~Writes
  <2>1. /\ UNCHANGED <<credits, overtaken>>
        /\ Held(u)' \subseteq Held(u) \cup {credits[u]}
        /\ Bought(u)' = Bought(u) /\ Added(u)' = Added(u) /\ Taken(u)' = Taken(u)
    BY <1>1, QuietStep
  <2>2. Due(u)' = Due(u)
    BY <2>1 DEF Due
  <2>. QED
    BY <1>h, <2>1, <2>2 DEF Covered
<1>2. ASSUME NEW p \in Procs, WriteBalance(p) PROVE Covered(u)'
  <2>1. Held(u)' \subseteq Held(u) /\ Added(u)' = Added(u) /\ Taken(u)' = Taken(u)
    BY <1>2, PurchaseStep
  <2>2. CASE Account[event[p]] # u
    <3>1. credits'[u] = credits[u] /\ overtaken'[u] = overtaken[u] /\ Bought(u)' = Bought(u)
      BY <1>2, <2>2, PurchaseStep
    <3>2. Due(u)' = Due(u)
      BY <2>1, <3>1 DEF Due
    <3>. QED
      BY <1>h, <2>1, <3>1, <3>2 DEF Covered
  <2>3. CASE Account[event[p]] = u
    <3>1. /\ seen[p] \in Held(u) /\ credits'[u] = seen[p] + 1
          /\ Cardinality(Bought(u)') <= Cardinality(Bought(u)) + 1
          /\ \/ overtaken'[u] = overtaken[u] + 1
             \/ overtaken'[u] = overtaken[u] /\ Holding(u) \subseteq {p}
      BY <1>2, <2>3, PurchaseStep
    <3>2. CASE overtaken'[u] = overtaken[u] + 1
      <4>1. Due(u)' <= Due(u)
        BY <1>n, <2>1, <3>1, <3>2 DEF Due
      <4>2. credits'[u] >= Due(u)'
        BY <1>n, <1>h, <3>1, <4>1
      <4>3. \A n \in Held(u)' : n >= Due(u)'
        BY <1>n, <1>h, <2>1, <4>1
      <4>. QED
        BY <4>2, <4>3 DEF Covered
    <3>3. CASE overtaken'[u] = overtaken[u] /\ Holding(u) \subseteq {p}
      <4>1. Due(u)' <= Due(u) + 1
        BY <1>n, <2>1, <3>1, <3>3 DEF Due
      <4>2. credits'[u] >= Due(u)'
        BY <1>n, <1>h, <3>1, <4>1
      <4>3. Held(u)' = {}
        BY <1>2, <3>3, WriteLetsGo
      <4>. QED
        BY <4>2, <4>3 DEF Covered
    <3>. QED
      BY <3>1, <3>2, <3>3
  <2>. QED
    BY <2>2, <2>3
<1>3. ASSUME NEW t \in Updates, UpdateWrite(t) PROVE Covered(u)'
  <2>1. Held(u)' \subseteq Held(u) /\ Bought(u)' = Bought(u)
    BY <1>3, UpdateStep
  <2>2. CASE Of[t] # u
    <3>1. /\ credits'[u] = credits[u] /\ overtaken'[u] = overtaken[u]
          /\ Added(u)' = Added(u) /\ Taken(u)' = Taken(u)
      BY <1>3, <2>2, UpdateStep
    <3>2. Due(u)' = Due(u)
      BY <2>1, <3>1 DEF Due
    <3>. QED
      BY <1>h, <2>1, <3>1, <3>2 DEF Covered
  <2>3. CASE Of[t] = u /\ Adds(t)
    <3>1. /\ found[t] \in Held(u) /\ credits'[u] = found[t] + 1
          /\ Cardinality(Added(u)') = Cardinality(Added(u)) + 1 /\ Taken(u)' = Taken(u)
          /\ \/ overtaken'[u] = overtaken[u] + 1
             \/ overtaken'[u] = overtaken[u] /\ Holding(u) \subseteq {t}
      BY <1>3, <2>3, UpdateStep
    <3>2. CASE overtaken'[u] = overtaken[u] + 1
      <4>1. Due(u)' = Due(u)
        BY <1>n, <2>1, <3>1, <3>2 DEF Due
      <4>2. credits'[u] >= Due(u)'
        BY <1>n, <1>h, <3>1, <4>1
      <4>3. \A n \in Held(u)' : n >= Due(u)'
        BY <1>h, <2>1, <4>1
      <4>. QED
        BY <4>2, <4>3 DEF Covered
    <3>3. CASE overtaken'[u] = overtaken[u] /\ Holding(u) \subseteq {t}
      <4>1. Due(u)' = Due(u) + 1
        BY <1>n, <2>1, <3>1, <3>3 DEF Due
      <4>2. credits'[u] >= Due(u)'
        BY <1>n, <1>h, <3>1, <4>1
      <4>3. Held(u)' = {}
        BY <1>3, <3>3, WriteLetsGo
      <4>. QED
        BY <4>2, <4>3 DEF Covered
    <3>. QED
      BY <3>1, <3>2, <3>3
  <2>4. CASE Of[t] = u /\ ~Adds(t)
    <3>1. /\ found[t] \in Held(u)
          /\ credits'[u] = IF found[t] = 0 THEN 0 ELSE found[t] - 1
          /\ Cardinality(Taken(u)') = Cardinality(Taken(u)) + 1
          /\ Added(u)' = Added(u) /\ overtaken'[u] = overtaken[u]
      BY <1>3, <2>4, UpdateStep
    <3>2. Due(u)' = Due(u) - 1
      BY <1>n, <2>1, <3>1 DEF Due
    <3>3. credits'[u] >= Due(u)'
      BY <1>n, <1>h, <3>1, <3>2
    <3>4. \A n \in Held(u)' : n >= Due(u)'
      BY <1>n, <1>h, <2>1, <3>2
    <3>. QED
      BY <3>3, <3>4 DEF Covered
  <2>. QED
    BY <2>2, <2>3, <2>4
<1>. QED
  BY <1>1, <1>2, <1>3 DEF Writes

LEMMA CoveredInit ==
    ASSUME Init, NEW u \in Accounts PROVE Covered(u)
<1>1. Bought(u) = {} /\ Added(u) = {} /\ Taken(u) = {} /\ Held(u) = {}
  BY DEF Init, Bought, Added, Taken, Held
<1>2. credits[u] = 0 /\ overtaken[u] = 0
  BY DEF Init
<1>. QED
  BY <1>1, <1>2, FS_EmptySet DEF Covered, Due

(* While no refund has begun, one process alone holds at most one value.   *)
LEMMA OneHolder ==
    ASSUME Inductive, NEW u, Alone, ~Refunding(u),
           NEW x \in Holding(u), NEW y \in Holding(u)
    PROVE  x = y
<1>1. PICK p : Procs = {p}
  BY FS_Singleton, DeliveryAssumption DEF Alone
<1>2. ASSUME NEW t \in Updates, t \in Holding(u)
      PROVE  busy[p] = t /\ stage[p] = "idle"
  <2>1. update[t] = "read" /\ InWeb(t)
    BY <1>1, <1>2, DeliveryAssumption DEF Holding, Refunding
  <2>2. busy[p] = t
    BY <1>1, <2>1 DEF Inductive, Engaged
  <2>. QED
    BY <1>1, <2>2, DeliveryAssumption DEF Inductive, Engaged
<1>3. p \in Holding(u) => stage[p] = "read"
  BY <1>1, DeliveryAssumption DEF Holding
<1>4. Holding(u) \subseteq Updates \cup {p}
  BY <1>1 DEF Holding
<1>. QED
  BY <1>2, <1>3, <1>4

(* So nothing is overtaken.                                                *)
LEMMA NothingOvertaken ==
    ASSUME Inductive, NEW u \in Accounts, Alone, [Next]_vars,
           ~Refunding(u) => overtaken[u] = 0, ~Refunding(u)'
    PROVE  overtaken'[u] = 0
<1>1. ~Refunding(u)
  <2>1. \A t \in Updates : update[t] # "due" => update'[t] # "due"
    <3>1. \A p \in Procs : HandlerStep(p) \/ Raise(p) \/ Crash(p) => UNCHANGED update
      BY DEF HandlerStep, WriteRow, WriteUser, ReadBalance, WriteBalance, PassOver, Record,
             Raise, Crash, otherVars, updateVars
    <3>2. \A e \in Events, p \in Procs : Deliver(e, p) \/ Redeliver(e, p) => UNCHANGED update
      BY DEF Deliver, Redeliver, otherVars, updateVars
    <3>3. \A t \in Updates : UpdateRead(t) \/ UpdateWrite(t) \/ UpdateBreaks(t) =>
              \E how \in {"read", "done", "broken"} : update' = [update EXCEPT ![t] = how]
      BY DEF UpdateRead, UpdateWrite, UpdateBreaks, EndUpdate
    <3>4. update \in [Updates -> {"due", "read", "done", "broken"}]
      BY DEF Inductive, TypeOK
    <3>. QED
      BY <3>1, <3>2, <3>3, <3>4 DEF Next, vars
  <2>. QED
    BY <2>1 DEF Refunding
<1>2. CASE ~Writes
  BY <1>1, <1>2, QuietStep
<1>3. ASSUME NEW p \in Procs, WriteBalance(p) PROVE overtaken'[u] = 0
  <2>1. CASE Account[event[p]] # u
    BY <1>1, <1>3, <2>1, PurchaseStep
  <2>2. CASE Account[event[p]] = u
    <3>1. p \in Holding(u)
      BY <1>3, <2>2 DEF WriteBalance, Holding
    <3>2. Holding(u) \ {p} = {}
      BY <1>1, <3>1, OneHolder
    <3>. QED
      BY <1>1, <1>3, <2>2, <3>2 DEF WriteBalance, Overtakes, Inductive, TypeOK
  <2>. QED
    BY <2>1, <2>2
<1>4. ASSUME NEW t \in Updates, UpdateWrite(t) PROVE overtaken'[u] = 0
  <2>1. CASE Of[t] # u
    BY <1>1, <1>4, <2>1, UpdateStep
  <2>2. CASE Of[t] = u
    <3>1. t \in Holding(u)
      BY <1>4, <2>2 DEF UpdateWrite, Holding
    <3>2. Holding(u) \ {t} = {}
      BY <1>1, <3>1, OneHolder
    <3>. QED
      BY <1>1, <1>4, <2>2, <3>2 DEF UpdateWrite, Overtakes, Inductive, TypeOK
  <2>. QED
    BY <2>1, <2>2
<1>. QED
  BY <1>2, <1>3, <1>4 DEF Writes

(* A balance lacks no more than was overtaken, for any number of processes *)
(* and of spendings, refunds and grants; and one web process, while no job *)
(* hands a credit of that account back, overtakes nothing.                 *)
THEOREM CreditsCoverPurchasesCorrect == Spec => []CreditsCoverPurchases
<1> DEFINE Cover == \A u \in Accounts : Covered(u)
           Safe == \A u \in Accounts : Alone /\ ~Refunding(u) => overtaken[u] = 0
<1>1. Init => Cover /\ Safe
  BY CoveredInit DEF Init
<1>2. Inductive /\ Inductive' /\ Cover /\ [Next]_vars => Cover'
  BY CoveredStep
<1>3. Inductive /\ Safe /\ [Next]_vars => Safe'
  <2>1. SUFFICES ASSUME Inductive, Safe, [Next]_vars, NEW u \in Accounts, Alone, ~Refunding(u)'
                 PROVE  overtaken'[u] = 0
    BY DEF Alone
  <2>. QED
    BY <2>1, NothingOvertaken
<1>4. Inductive /\ Cover /\ Safe => CreditsCoverPurchases
  <2>1. SUFFICES ASSUME Inductive, Cover, Safe, NEW u \in Accounts
                 PROVE  /\ credits[u] >= Due(u)
                        /\ Alone /\ ~Refunding(u) => overtaken[u] = 0
    BY DEF CreditsCoverPurchases, Due, Alone, Refunding
  <2>. QED
    BY <2>1 DEF Covered
<1>. QED
  BY <1>1, <1>2, <1>3, <1>4, InductiveCorrect, PTL DEF Spec
-----------------------------------------------------------------------------
(* Replays.  What a balance may still gain without another fault or        *)
(* duplicate: by deliveries about to add a credit, of which one in each    *)
(* event counts for a purchase not yet booked, and by events applied       *)
(* before their delivery broke off, which Stripe will send again.          *)
Purchase(e, u) == e \in Events /\ Kind[e] = "credit" /\ Account[e] = u
Adding(u) == {p \in Procs : stage[p] \in {"checked", "read"} /\ Purchase(event[p], u)}
FirstTime(u) == {e \in Events : /\ Purchase(e, u) /\ e \notin applied
                                /\ \E p \in Procs : stage[p] \in {"checked", "read"} /\ event[p] = e}
Resent(u) == {e \in applied : Purchase(e, u) /\ e \notin acked \cup marked \cup Handled}

Slack(u) ==
    Cardinality(Bought(u)) + faults + extra
        + Cardinality(FirstTime(u)) - Cardinality(Adding(u)) - Cardinality(Resent(u))

(* The most the balance, or a value of it that is held, may be.            *)
Allowed(u) == Slack(u) + Cardinality(Added(u))

WithinSlack(u) == credits[u] <= Allowed(u) /\ \A n \in Held(u) : n <= Allowed(u)

LEMMA Countable ==
    ASSUME Inductive, NEW u
    PROVE  /\ IsFiniteSet(Bought(u)) /\ IsFiniteSet(Adding(u))
           /\ IsFiniteSet(FirstTime(u)) /\ IsFiniteSet(Resent(u))
           /\ Cardinality(Bought(u)) \in Nat /\ Cardinality(Adding(u)) \in Nat
           /\ Cardinality(FirstTime(u)) \in Nat /\ Cardinality(Resent(u)) \in Nat
           /\ faults \in Nat /\ extra \in Nat /\ Slack(u) \in Int
<1>1. /\ Bought(u) \in SUBSET Events /\ FirstTime(u) \in SUBSET Events
      /\ Resent(u) \in SUBSET Events /\ Adding(u) \in SUBSET Procs
  BY DEF Inductive, TypeOK, Bought, FirstTime, Resent, Adding
<1>2. /\ IsFiniteSet(Bought(u)) /\ IsFiniteSet(Adding(u))
      /\ IsFiniteSet(FirstTime(u)) /\ IsFiniteSet(Resent(u))
  BY <1>1, FS_Subset, DeliveryAssumption
<1>3. /\ Cardinality(Bought(u)) \in Nat /\ Cardinality(Adding(u)) \in Nat
      /\ Cardinality(FirstTime(u)) \in Nat /\ Cardinality(Resent(u)) \in Nat
  BY <1>2, FS_CardinalityType
<1>4. faults \in Nat /\ extra \in Nat
  BY DeliveryAssumption DEF Inductive, TypeOK
<1>. QED
  BY <1>2, <1>3, <1>4 DEF Slack

(* The same of the next state.                                             *)
LEMMA CountableNext ==
    ASSUME Inductive', NEW u
    PROVE  /\ IsFiniteSet(Bought(u))' /\ IsFiniteSet(Adding(u))'
           /\ IsFiniteSet(FirstTime(u))' /\ IsFiniteSet(Resent(u))'
           /\ Cardinality(Bought(u))' \in Nat /\ Cardinality(Adding(u))' \in Nat
           /\ Cardinality(FirstTime(u))' \in Nat /\ Cardinality(Resent(u))' \in Nat
           /\ faults' \in Nat /\ extra' \in Nat /\ Slack(u)' \in Int
<1>1. /\ Bought(u)' \in SUBSET Events /\ FirstTime(u)' \in SUBSET Events
      /\ Resent(u)' \in SUBSET Events /\ Adding(u)' \in SUBSET Procs
  BY DEF Inductive, TypeOK, Bought, FirstTime, Resent, Adding
<1>2. /\ IsFiniteSet(Bought(u)') /\ IsFiniteSet(Adding(u)')
      /\ IsFiniteSet(FirstTime(u)') /\ IsFiniteSet(Resent(u)')
  BY <1>1, FS_Subset, DeliveryAssumption
<1>3. /\ Cardinality(Bought(u)') \in Nat /\ Cardinality(Adding(u)') \in Nat
      /\ Cardinality(FirstTime(u)') \in Nat /\ Cardinality(Resent(u)') \in Nat
  BY <1>2, FS_CardinalityType
<1>4. faults' \in Nat /\ extra' \in Nat
  BY DeliveryAssumption DEF Inductive, TypeOK
<1>. QED
  BY <1>2, <1>3, <1>4 DEF Slack

(* The slack does not shrink when one delivery begins ...                  *)
LEMMA SlackBegin ==
    ASSUME Inductive, Inductive', NEW u \in Accounts, NEW e \in Events, NEW p \in Procs,
           Deliver(e, p) \/ Redeliver(e, p)
    PROVE  Slack(u)' >= Slack(u)
<1>t. /\ stage \in [Procs -> Stages] /\ event \in [Procs -> Events \cup {NoEvent}]
      /\ stage[p] = "idle" /\ event[p] = NoEvent /\ NoEvent \notin Events
      /\ applied \subseteq Events
      /\ UNCHANGED <<marked, applied, faults>>
  BY DeliveryAssumption DEF Inductive, Underhand, TypeOK, Deliver, Redeliver, Begin
<1>n. /\ Cardinality(Bought(u)) \in Nat /\ Cardinality(Adding(u)) \in Nat
      /\ Cardinality(FirstTime(u)) \in Nat /\ Cardinality(Resent(u)) \in Nat
      /\ Cardinality(Bought(u)') \in Nat /\ Cardinality(Adding(u)') \in Nat
      /\ Cardinality(FirstTime(u)') \in Nat /\ Cardinality(Resent(u)') \in Nat
      /\ faults \in Nat /\ extra \in Nat
  BY Countable, CountableNext
<1>c. \A S, T, x : IsFiniteSet(S) =>
          /\ T \subseteq S => Cardinality(T) <= Cardinality(S)
          /\ T \subseteq S \cup {x} => Cardinality(T) <= Cardinality(S) + 1
          /\ x \in S => Cardinality(S \ {x}) = Cardinality(S) - 1
          /\ x \notin S => Cardinality(S \cup {x}) = Cardinality(S) + 1
  BY Counted
<1>f. /\ IsFiniteSet(Adding(u)) /\ IsFiniteSet(FirstTime(u)) /\ IsFiniteSet(Resent(u))
      /\ IsFiniteSet(FirstTime(u)')
  BY Countable, CountableNext
<1>b. Bought(u)' = Bought(u)
  BY <1>t DEF Bought
<1>h. Handled \subseteq Handled' \cup {NoEvent}
  BY <1>t DEF Handled, Deliver, Redeliver, Begin
<1>1. Resent(u)' \subseteq Resent(u)
  BY <1>t, <1>h DEF Resent, Deliver, Redeliver, Begin
<1>2. FirstTime(u) \subseteq FirstTime(u)'
  BY <1>t DEF FirstTime, Deliver, Redeliver, Begin
<1>3. Adding(u)' \subseteq Adding(u) \cup {p}
  BY <1>t DEF Adding, Deliver, Redeliver, Begin
<1>4. /\ Cardinality(Resent(u)') <= Cardinality(Resent(u))
      /\ Cardinality(FirstTime(u)) <= Cardinality(FirstTime(u)')
      /\ Cardinality(Adding(u)') <= Cardinality(Adding(u)) + 1
  BY <1>1, <1>2, <1>3, <1>c, <1>f
<1>5. CASE Redeliver(e, p)
  <2>1. extra' = extra + 1
    BY <1>5 DEF Redeliver
  <2>. QED
    BY <1>n, <1>t, <1>b, <1>4, <2>1 DEF Slack
<1>6. CASE Deliver(e, p) /\ Adding(u)' \subseteq Adding(u)
  <2>1. extra' = extra /\ Cardinality(Adding(u)') <= Cardinality(Adding(u))
    BY <1>6, <1>c, <1>f DEF Deliver
  <2>. QED
    BY <1>n, <1>t, <1>b, <1>4, <2>1 DEF Slack
<1>7. CASE Deliver(e, p) /\ ~ Adding(u)' \subseteq Adding(u)
  <2>1. /\ Purchase(e, u) /\ e \notin acked \cup marked \cup Handled /\ extra' = extra
        /\ stage'[p] = "checked" /\ event'[p] = e
    BY <1>7, <1>t, <1>3 DEF Deliver, Begin, Adding
  <2>2. CASE e \in applied
    <3>1. e \in Resent(u) /\ e \in Handled'
      BY <1>t, <2>1, <2>2 DEF Resent, Handled
    <3>2. Resent(u)' \subseteq Resent(u) \ {e}
      BY <1>1, <3>1 DEF Resent
    <3>3. /\ IsFiniteSet(Resent(u) \ {e})
          /\ Cardinality(Resent(u) \ {e}) = Cardinality(Resent(u)) - 1
      BY <1>c, <1>f, <3>1, FS_RemoveElement
    <3>4. Cardinality(Resent(u)') <= Cardinality(Resent(u)) - 1
      BY <1>c, <3>2, <3>3
    <3>. QED
      BY <1>n, <1>t, <1>b, <1>4, <2>1, <3>4 DEF Slack
  <2>3. CASE e \notin applied
    <3>1. e \notin FirstTime(u) /\ e \in FirstTime(u)'
      BY <1>t, <2>1, <2>3 DEF FirstTime, Handled, Purchase
    <3>2. FirstTime(u) \cup {e} \subseteq FirstTime(u)'
      BY <1>2, <3>1
    <3>3. Cardinality(FirstTime(u) \cup {e}) <= Cardinality(FirstTime(u)')
      BY <1>c, <1>f, <3>2
    <3>4. Cardinality(FirstTime(u) \cup {e}) = Cardinality(FirstTime(u)) + 1
      BY <1>c, <1>f, <3>1
    <3>. QED
      BY <1>n, <1>t, <1>b, <1>4, <2>1, <3>3, <3>4 DEF Slack
  <2>. QED
    BY <2>2, <2>3
<1>. QED
  BY <1>5, <1>6, <1>7, <1>3

(* ... nor when it breaks off: the fault pays for the replay.              *)
LEMMA SlackBreak ==
    ASSUME Inductive, Inductive', NEW u \in Accounts, NEW p \in Procs,
           Raise(p) \/ Crash(p)
    PROVE  Slack(u)' >= Slack(u)
<1> DEFINE e == event[p]
<1>t. /\ stage \in [Procs -> Stages] /\ event \in [Procs -> Events \cup {NoEvent}]
      /\ e \in Events /\ NoEvent \notin Events /\ applied \subseteq Events
      /\ stage' = [stage EXCEPT ![p] = "idle"] /\ event' = [event EXCEPT ![p] = NoEvent]
      /\ marked \subseteq marked' /\ faults' = faults + 1
      /\ UNCHANGED <<acked, applied, extra>>
  BY DeliveryAssumption
     DEF Inductive, Underhand, TypeOK, Raise, MayRaise, Crash, Fault, Finish
<1>n. /\ Cardinality(Bought(u)) \in Nat /\ Cardinality(Adding(u)) \in Nat
      /\ Cardinality(FirstTime(u)) \in Nat /\ Cardinality(Resent(u)) \in Nat
      /\ Cardinality(Bought(u)') \in Nat /\ Cardinality(Adding(u)') \in Nat
      /\ Cardinality(FirstTime(u)') \in Nat /\ Cardinality(Resent(u)') \in Nat
      /\ faults \in Nat /\ extra \in Nat
  BY Countable, CountableNext
<1>c. \A S, T, x : IsFiniteSet(S) =>
          /\ T \subseteq S => Cardinality(T) <= Cardinality(S)
          /\ T \subseteq S \cup {x} => Cardinality(T) <= Cardinality(S) + 1
  BY Counted
<1>f. /\ IsFiniteSet(Adding(u)) /\ IsFiniteSet(FirstTime(u)) /\ IsFiniteSet(Resent(u))
      /\ IsFiniteSet(FirstTime(u)')
  BY Countable, CountableNext
<1>b. Bought(u)' = Bought(u)
  BY <1>t DEF Bought
<1>h. Handled \subseteq Handled' \cup {e}
  BY <1>t DEF Handled
<1>1. Adding(u)' \subseteq Adding(u)
  BY <1>t DEF Adding
<1>2. Cardinality(Adding(u)') <= Cardinality(Adding(u))
  BY <1>1, <1>c, <1>f
<1>3. CASE e \in applied
  <2>1. FirstTime(u) \subseteq FirstTime(u)'
    BY <1>t, <1>3 DEF FirstTime
  <2>2. Resent(u)' \subseteq Resent(u) \cup {e}
    BY <1>t, <1>h DEF Resent
  <2>3. /\ Cardinality(FirstTime(u)) <= Cardinality(FirstTime(u)')
        /\ Cardinality(Resent(u)') <= Cardinality(Resent(u)) + 1
    BY <2>1, <2>2, <1>c, <1>f
  <2>. QED
    BY <1>n, <1>t, <1>b, <1>2, <2>3 DEF Slack
<1>4. CASE e \notin applied
  <2>1. FirstTime(u) \subseteq FirstTime(u)' \cup {e}
    BY <1>t DEF FirstTime
  <2>2. Resent(u)' \subseteq Resent(u)
    BY <1>t, <1>h, <1>4 DEF Resent
  <2>3. /\ Cardinality(FirstTime(u)) <= Cardinality(FirstTime(u)') + 1
        /\ Cardinality(Resent(u)') <= Cardinality(Resent(u))
    BY <2>1, <2>2, <1>c, <1>f
  <2>. QED
    BY <1>n, <1>t, <1>b, <1>2, <2>3 DEF Slack
<1>. QED
  BY <1>3, <1>4

(* Steps that change none of the sets, and perhaps fail to store a marker. *)
LEMMA SlackSame ==
    ASSUME Inductive, Inductive', NEW u \in Accounts,
           Bought(u)' = Bought(u), Adding(u)' = Adding(u),
           FirstTime(u)' = FirstTime(u), Resent(u)' = Resent(u),
           faults' >= faults, extra' = extra
    PROVE  Slack(u)' >= Slack(u)
<1>n. /\ Cardinality(Bought(u)) \in Nat /\ Cardinality(Adding(u)) \in Nat
      /\ Cardinality(FirstTime(u)) \in Nat /\ Cardinality(Resent(u)) \in Nat
      /\ faults \in Nat /\ extra \in Nat /\ faults' \in Nat
  BY Countable, CountableNext
<1>. QED
  BY <1>n DEF Slack

(* The handler's statements that write no balance leave the slack alone.   *)
LEMMA SlackStep ==
    ASSUME Inductive, Inductive', NEW u \in Accounts, NEW p \in Procs,
           WriteRow(p) \/ WriteUser(p) \/ ReadBalance(p) \/ PassOver(p) \/ Record(p)
    PROVE  Slack(u)' >= Slack(u)
<1> DEFINE e == event[p]
<1>t. /\ stage \in [Procs -> Stages] /\ event \in [Procs -> Events \cup {NoEvent}]
      /\ stage[p] # "idle" => e \in Events
      /\ stage[p] = "row" => Kind[e] = "plan"
      /\ stage[p] = "applied" => e \in applied
      /\ NoEvent \notin Events /\ applied \subseteq Events
  BY DeliveryAssumption DEF Inductive, Underhand, TypeOK
<1>1. CASE ReadBalance(p)
  <2>1. UNCHANGED <<event, applied, acked, marked, faults, extra>>
    BY <1>1 DEF ReadBalance
  <2>2. \A q \in Procs : stage'[q] \in {"checked", "read"} <=> stage[q] \in {"checked", "read"}
    BY <1>1, <1>t DEF ReadBalance
  <2>3. /\ Bought(u)' = Bought(u) /\ Adding(u)' = Adding(u)
        /\ FirstTime(u)' = FirstTime(u) /\ Resent(u)' = Resent(u)
    BY <2>1, <2>2 DEF Bought, Adding, FirstTime, Resent, Handled
  <2>. QED
    BY <2>1, <2>3, SlackSame, Countable
<1>2. CASE WriteRow(p) \/ WriteUser(p) \/ PassOver(p)
  <2>1. /\ UNCHANGED <<event, acked, marked, faults, extra>>
        /\ applied \subseteq applied' /\ applied' \subseteq applied \cup {e}
        /\ e \in Events /\ Kind[e] # "credit"
        /\ \A q \in Procs : q # p => stage'[q] = stage[q]
    BY <1>2, <1>t DEF WriteRow, WriteUser, PassOver
  <2>2. ~ Purchase(e, u)
    BY <2>1 DEF Purchase
  <2>3. Bought(u)' = Bought(u)
    BY <2>1 DEF Bought
  <2>4. Adding(u)' = Adding(u)
    BY <2>1, <2>2 DEF Adding
  <2>5. FirstTime(u)' = FirstTime(u)
    BY <2>1, <2>2 DEF FirstTime
  <2>6. Resent(u)' = Resent(u)
    BY <2>1, <2>2 DEF Resent, Handled
  <2>. QED
    BY <2>1, <2>3, <2>4, <2>5, <2>6, SlackSame, Countable
<1>3. CASE Record(p)
  <2>1. /\ stage[p] = "applied" /\ acked' = acked \cup {e}
        /\ marked \subseteq marked' /\ marked' \subseteq marked \cup {e}
        /\ stage' = [stage EXCEPT ![p] = "idle"] /\ event' = [event EXCEPT ![p] = NoEvent]
        /\ UNCHANGED <<applied, extra>> /\ (faults' = faults \/ faults' = faults + 1)
    BY <1>3 DEF Record, Marks, Fault, Finish
  <2>2. Bought(u)' = Bought(u) /\ Adding(u)' = Adding(u) /\ FirstTime(u)' = FirstTime(u)
    BY <1>t, <2>1 DEF Bought, Adding, FirstTime
  <2>3. e \in Handled /\ Handled' \subseteq Handled \cup {NoEvent} /\ Handled \subseteq Handled' \cup {e}
    BY <1>t, <2>1 DEF Handled
  <2>4. Resent(u)' = Resent(u)
    BY <1>t, <2>1, <2>3 DEF Resent
  <2>5. faults' >= faults
    BY <2>1, Countable
  <2>. QED
    BY <2>1, <2>2, <2>4, <2>5, SlackSame
<1>. QED
  BY <1>1, <1>2, <1>3

(* The credit that is added is one of those the slack was waiting for.     *)
LEMMA SlackPaid ==
    ASSUME Inductive, Inductive', NEW u \in Accounts, NEW p \in Procs,
           WriteBalance(p), Account[event[p]] = u
    PROVE  Slack(u)' >= Slack(u) + 1
<1> DEFINE e == event[p]
<1>t. /\ stage \in [Procs -> Stages] /\ event \in [Procs -> Events \cup {NoEvent}]
      /\ e \in Events /\ Purchase(e, u) /\ applied \subseteq Events
      /\ stage[p] = "read" /\ stage' = [stage EXCEPT ![p] = "applied"]
      /\ applied' = applied \cup {e}
      /\ UNCHANGED <<event, marked, acked, faults, extra>>
  BY DEF Inductive, Underhand, TypeOK, WriteBalance, Purchase
<1>n. /\ Cardinality(Bought(u)) \in Nat /\ Cardinality(Adding(u)) \in Nat
      /\ Cardinality(FirstTime(u)) \in Nat /\ Cardinality(Resent(u)) \in Nat
      /\ faults \in Nat /\ extra \in Nat
  BY Countable
<1>c. \A S, T, x : IsFiniteSet(S) =>
          /\ T \subseteq S \cup {x} => Cardinality(T) <= Cardinality(S) + 1
          /\ x \in S => Cardinality(S \ {x}) = Cardinality(S) - 1
          /\ x \notin S => Cardinality(S \cup {x}) = Cardinality(S) + 1
  BY Counted
<1>f. IsFiniteSet(Bought(u)) /\ IsFiniteSet(Adding(u)) /\ IsFiniteSet(FirstTime(u))
  BY Countable
<1>1. p \in Adding(u) /\ Adding(u)' = Adding(u) \ {p}
  BY <1>t DEF Adding
<1>2. Bought(u)' = Bought(u) \cup {e}
  BY <1>t DEF Bought, Purchase
<1>3. FirstTime(u)' = FirstTime(u) \ {e}
  BY <1>t DEF FirstTime
<1>4. Resent(u)' = Resent(u)
  BY <1>t DEF Resent, Handled
<1>5. Cardinality(Adding(u)') = Cardinality(Adding(u)) - 1
  BY <1>1, <1>c, <1>f
<1>6. Cardinality(Bought(u)') - Cardinality(Bought(u)) >= Cardinality(FirstTime(u)) - Cardinality(FirstTime(u)')
  <2>1. CASE e \in applied
    <3>1. e \in Bought(u) /\ e \notin FirstTime(u)
      BY <1>t, <2>1 DEF Bought, FirstTime, Purchase
    <3>2. Bought(u)' = Bought(u) /\ FirstTime(u)' = FirstTime(u)
      BY <1>2, <1>3, <3>1
    <3>. QED
      BY <1>n, <3>2
  <2>2. CASE e \notin applied
    <3>1. e \notin Bought(u) /\ e \in FirstTime(u)
      BY <1>t, <2>2 DEF Bought, FirstTime
    <3>2. Cardinality(Bought(u)') = Cardinality(Bought(u)) + 1
      BY <1>2, <1>c, <1>f, <3>1
    <3>3. Cardinality(FirstTime(u)') = Cardinality(FirstTime(u)) - 1
      BY <1>3, <1>c, <1>f, <3>1
    <3>. QED
      BY <1>n, <3>2, <3>3
  <2>. QED
    BY <2>1, <2>2
<1>7. /\ Cardinality(Bought(u)') \in Nat /\ Cardinality(FirstTime(u)') \in Nat
  BY CountableNext
<1>. QED
  BY <1>n, <1>t, <1>4, <1>5, <1>6, <1>7 DEF Slack

(* A purchase of somebody else leaves the slack alone.                     *)
LEMMA SlackElsewhere ==
    ASSUME Inductive, NEW u \in Accounts, NEW p \in Procs,
           WriteBalance(p), Account[event[p]] # u
    PROVE  Slack(u)' = Slack(u)
<1>t. /\ stage \in [Procs -> Stages] /\ stage[p] = "read"
      /\ stage' = [stage EXCEPT ![p] = "applied"] /\ applied' = applied \cup {event[p]}
      /\ UNCHANGED <<event, marked, acked, faults, extra>>
  BY DEF WriteBalance, Inductive, TypeOK
<1>1. ~ Purchase(event[p], u)
  BY DEF Purchase
<1>2. Bought(u)' = Bought(u)
  BY <1>t DEF Bought
<1>3. Adding(u)' = Adding(u)
  BY <1>t, <1>1 DEF Adding
<1>4. FirstTime(u)' = FirstTime(u)
  BY <1>t, <1>1 DEF FirstTime
<1>5. Resent(u)' = Resent(u)
  BY <1>t, <1>1 DEF Resent, Handled
<1>. QED
  BY <1>t, <1>2, <1>3, <1>4, <1>5 DEF Slack

(* The other updates leave it alone, unless a fault adds to it.            *)
LEMMA SlackUpdate ==
    ASSUME Inductive, Inductive', NEW u \in Accounts, NEW t \in Updates,
           UpdateRead(t) \/ UpdateWrite(t) \/ UpdateBreaks(t)
    PROVE  Slack(u)' >= Slack(u)
<1>1. /\ UNCHANGED <<stage, event, marked, acked, applied, extra>>
      /\ faults' = faults \/ faults' = faults + 1
  BY DEF UpdateRead, UpdateWrite, UpdateBreaks, Fault, handlerVars
<1>2. /\ Bought(u)' = Bought(u) /\ Adding(u)' = Adding(u)
      /\ FirstTime(u)' = FirstTime(u) /\ Resent(u)' = Resent(u)
  BY <1>1 DEF Bought, Adding, FirstTime, Resent, Handled
<1>3. faults' >= faults
  BY <1>1, Countable
<1>. QED
  BY <1>1, <1>2, <1>3, SlackSame

LEMMA WithinSlackStep ==
    ASSUME Inductive, Inductive', NEW u \in Accounts, WithinSlack(u), [Next]_vars
    PROVE  WithinSlack(u)'
<1>n. /\ Slack(u) \in Int /\ Slack(u)' \in Int
      /\ Cardinality(Added(u)) \in Nat /\ Cardinality(Added(u)') \in Nat
      /\ credits[u] \in Nat /\ Held(u) \subseteq Nat
  BY Countable, CountableNext, Tallies, TalliesNext DEF Inductive
<1>h. credits[u] <= Allowed(u) /\ \A n \in Held(u) : n <= Allowed(u)
  BY DEF WithinSlack
<1>1. CASE ~Writes
  <2>1. /\ credits' = credits /\ Held(u)' \subseteq Held(u) \cup {credits[u]}
        /\ Added(u)' = Added(u)
    BY <1>1, QuietStep
  <2>2. Slack(u)' >= Slack(u)
    <3>1. ASSUME NEW e \in Events, NEW p \in Procs, Deliver(e, p) \/ Redeliver(e, p)
          PROVE  Slack(u)' >= Slack(u)
      BY <3>1, SlackBegin
    <3>2. ASSUME NEW p \in Procs,
                 WriteRow(p) \/ WriteUser(p) \/ ReadBalance(p) \/ PassOver(p) \/ Record(p)
          PROVE  Slack(u)' >= Slack(u)
      BY <3>2, SlackStep
    <3>3. ASSUME NEW p \in Procs, Raise(p) \/ Crash(p) PROVE Slack(u)' >= Slack(u)
      BY <3>3, SlackBreak
    <3>4. ASSUME NEW t \in Updates, UpdateRead(t) \/ UpdateBreaks(t)
          PROVE  Slack(u)' >= Slack(u)
      BY <3>4, SlackUpdate
    <3>5. CASE UNCHANGED vars
      <4>1. /\ Bought(u)' = Bought(u) /\ Adding(u)' = Adding(u)
            /\ FirstTime(u)' = FirstTime(u) /\ Resent(u)' = Resent(u)
            /\ UNCHANGED <<faults, extra>>
        BY <3>5 DEF vars, Bought, Adding, FirstTime, Resent, Handled
      <4>2. faults' >= faults
        BY <4>1, Countable
      <4>. QED
        BY <4>1, <4>2, SlackSame
    <3>. QED
      BY <1>1, <3>1, <3>2, <3>3, <3>4, <3>5 DEF Next, HandlerStep, Writes
  <2>3. Allowed(u)' >= Allowed(u)
    BY <1>n, <2>1, <2>2 DEF Allowed
  <2>4. Allowed(u) \in Int /\ Allowed(u)' \in Int
    BY <1>n DEF Allowed
  <2>5. credits'[u] <= Allowed(u)'
    BY <1>n, <1>h, <2>1, <2>3, <2>4
  <2>6. ASSUME NEW n \in Held(u)' PROVE n <= Allowed(u)'
    <3>1. n \in Nat /\ n <= Allowed(u)
      BY <1>n, <1>h, <2>1
    <3>. QED
      BY <2>3, <2>4, <3>1
  <2>. QED
    BY <2>5, <2>6 DEF WithinSlack
<1>2. ASSUME NEW p \in Procs, WriteBalance(p) PROVE WithinSlack(u)'
  <2>1. Held(u)' \subseteq Held(u) /\ Added(u)' = Added(u)
    BY <1>2, PurchaseStep
  <2>2. CASE Account[event[p]] # u
    <3>1. credits'[u] = credits[u] /\ Slack(u)' = Slack(u)
      BY <1>2, <2>2, PurchaseStep, SlackElsewhere
    <3>2. Allowed(u)' = Allowed(u)
      BY <2>1, <3>1 DEF Allowed
    <3>. QED
      BY <1>h, <2>1, <3>1, <3>2 DEF WithinSlack
  <2>3. CASE Account[event[p]] = u
    <3>1. Slack(u)' >= Slack(u) + 1
      BY <1>2, <2>3, SlackPaid
    <3>2. seen[p] \in Held(u) /\ credits'[u] = seen[p] + 1
      BY <1>2, <2>3, PurchaseStep
    <3>3. Allowed(u)' >= Allowed(u) + 1 /\ Allowed(u) \in Int /\ Allowed(u)' \in Int
      BY <1>n, <2>1, <3>1 DEF Allowed
    <3>4. credits'[u] <= Allowed(u)'
      BY <1>n, <1>h, <3>2, <3>3
    <3>5. \A n \in Held(u)' : n <= Allowed(u)'
      BY <1>n, <1>h, <2>1, <3>3
    <3>. QED
      BY <3>4, <3>5 DEF WithinSlack
  <2>. QED
    BY <2>2, <2>3
<1>3. ASSUME NEW t \in Updates, UpdateWrite(t) PROVE WithinSlack(u)'
  <2>1. Held(u)' \subseteq Held(u) /\ Slack(u)' >= Slack(u)
    BY <1>3, UpdateStep, SlackUpdate
  <2>2. CASE Of[t] # u
    <3>1. credits'[u] = credits[u] /\ Added(u)' = Added(u)
      BY <1>3, <2>2, UpdateStep
    <3>2. Allowed(u)' >= Allowed(u) /\ Allowed(u) \in Int /\ Allowed(u)' \in Int
      BY <1>n, <2>1, <3>1 DEF Allowed
    <3>3. credits'[u] <= Allowed(u)' /\ \A n \in Held(u)' : n <= Allowed(u)'
      BY <1>n, <1>h, <2>1, <3>1, <3>2
    <3>. QED
      BY <3>3 DEF WithinSlack
  <2>3. CASE Of[t] = u /\ Adds(t)
    <3>1. /\ found[t] \in Held(u) /\ credits'[u] = found[t] + 1
          /\ Cardinality(Added(u)') = Cardinality(Added(u)) + 1
      BY <1>3, <2>3, UpdateStep
    <3>2. Allowed(u)' >= Allowed(u) + 1 /\ Allowed(u) \in Int /\ Allowed(u)' \in Int
      BY <1>n, <2>1, <3>1 DEF Allowed
    <3>3. credits'[u] <= Allowed(u)'
      BY <1>n, <1>h, <3>1, <3>2
    <3>4. \A n \in Held(u)' : n <= Allowed(u)'
      BY <1>n, <1>h, <2>1, <3>2
    <3>. QED
      BY <3>3, <3>4 DEF WithinSlack
  <2>4. CASE Of[t] = u /\ ~Adds(t)
    <3>1. /\ found[t] \in Held(u)
          /\ credits'[u] = IF found[t] = 0 THEN 0 ELSE found[t] - 1
          /\ Added(u)' = Added(u)
      BY <1>3, <2>4, UpdateStep
    <3>2. Allowed(u)' >= Allowed(u) /\ Allowed(u) \in Int /\ Allowed(u)' \in Int
      BY <1>n, <2>1, <3>1 DEF Allowed
    <3>3. credits'[u] <= Allowed(u)'
      BY <1>n, <1>h, <3>1, <3>2
    <3>4. \A n \in Held(u)' : n <= Allowed(u)'
      BY <1>n, <1>h, <2>1, <3>2
    <3>. QED
      BY <3>3, <3>4 DEF WithinSlack
  <2>. QED
    BY <2>2, <2>3, <2>4
<1>. QED
  BY <1>1, <1>2, <1>3 DEF Writes

LEMMA WithinSlackInit ==
    ASSUME Init, NEW u \in Accounts PROVE WithinSlack(u)
<1>1. /\ Bought(u) = {} /\ Adding(u) = {} /\ FirstTime(u) = {} /\ Resent(u) = {}
      /\ Added(u) = {} /\ Held(u) = {}
  BY DEF Init, Bought, Adding, FirstTime, Resent, Added, Held
<1>2. credits[u] = 0 /\ faults = 0 /\ extra = 0
  BY DEF Init
<1>3. Cardinality({}) = 0
  BY FS_EmptySet
<1>. QED
  BY <1>1, <1>2, <1>3 DEF WithinSlack, Allowed, Slack

(* Every event about to be applied for the first time has a delivery.      *)
LEMMA FirstTimesHaveDeliveries ==
    ASSUME Inductive, NEW u
    PROVE  Cardinality(FirstTime(u)) <= Cardinality(Adding(u))
<1> DEFINE S == {p \in Adding(u) : event[p] \in FirstTime(u)}
           f == [p \in S |-> event[p]]
<1>1. S \subseteq Adding(u) /\ IsFiniteSet(Adding(u)) /\ Cardinality(Adding(u)) \in Nat
  BY Countable
<1>2. IsFiniteSet(S) /\ Cardinality(S) <= Cardinality(Adding(u)) /\ Cardinality(S) \in Nat
  BY <1>1, FS_Subset, FS_CardinalityType
<1>3. \A e \in FirstTime(u) : \E p \in S : f[p] = e
  BY DEF FirstTime, Adding
<1>4. f \in Surjection(S, FirstTime(u))
  BY <1>3 DEF Surjection
<1>5. Cardinality(FirstTime(u)) <= Cardinality(S)
  BY <1>2, <1>4, FS_Surjection
<1>. QED
  BY <1>1, <1>2, <1>5, Countable

(* However many processes, deliveries and updates cross: a balance exceeds *)
(* what was bought, handed back and granted by no more than the faults and *)
(* the duplicates there have been.                                         *)
THEOREM ReplaysBoundedCorrect == Spec => []ReplaysBounded
<1> DEFINE Within == \A u \in Accounts : WithinSlack(u)
<1>1. Init => Within
  BY WithinSlackInit
<1>2. Inductive /\ Inductive' /\ Within /\ [Next]_vars => Within'
  BY WithinSlackStep
<1>3. Inductive /\ Within => ReplaysBounded
  <2>1. SUFFICES ASSUME Inductive, Within, NEW u \in Accounts
                 PROVE  credits[u] <= Cardinality(Bought(u)) + Cardinality(Added(u))
                                          + faults + extra
    BY DEF ReplaysBounded
  <2>2. credits[u] <= Slack(u) + Cardinality(Added(u))
    BY <2>1 DEF WithinSlack, Allowed
  <2>3. credits[u] \in Nat /\ Cardinality(Added(u)) \in Nat
    BY <2>1, Tallies DEF Inductive
  <2>. QED
    BY <2>1, <2>2, <2>3, FirstTimesHaveDeliveries, Countable DEF Slack
<1>. QED
  BY <1>1, <1>2, <1>3, InductiveCorrect, PTL DEF Spec
=============================================================================
