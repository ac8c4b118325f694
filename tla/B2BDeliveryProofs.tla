------------------------- MODULE B2BDeliveryProofs -------------------------
(***************************************************************************)
(* Safety of B2BDelivery for any rows, invitations, sections, processes,    *)
(* months and bounds. The inductive invariant grows in parts: what the      *)
(* values are and what a job still holds (Sound), who may schedule (Led),   *)
(* what a claim has written (Claimed), and what the months before a due     *)
(* date owe to the jobs (Swept).                                            *)
(***************************************************************************)
EXTENDS B2BDelivery, FiniteSetTheorems, TLAPS

RowStates == [status : {"none", "active", "off"}, freq : Freqs, next : DueMonths]
JobStates ==
    [pc : {"idle", "loop", "requested", "processed"}, at : Months,
     cur : Subs \cup {Nobody}, left : SUBSET Subs, due : [Subs -> RowStates],
     open : SUBSET Sections]

\* A running job belongs to the current month, and so does what it has left.
Held(p) ==
    /\ Running(p) => /\ job[p].at = now
                     /\ \A s \in job[p].left : job[p].due[s].next <= now
    /\ job[p].pc \in {"requested", "processed"} => job[p].cur \in job[p].left

Sound ==
    /\ TypeOK
    /\ \A p \in Procs : Held(p)
    /\ claim # NoClaim => claim.invite \in Invites /\ claim.sub \in Subs
    /\ \A s \in Subs : \A m \in mailed[s] : m < now
-----------------------------------------------------------------------------
LEMMA Bounds ==
    /\ LastMonth \in Nat /\ MaxTurns \in Nat /\ MaxFaults \in Nat
    /\ Nobody \notin Subs /\ Nobody \notin Invites /\ Nobody \notin Procs
    /\ Checkouts \cap Invites = {} /\ Nobody \notin Checkouts /\ "cut" \notin Procs
    /\ Nobody # "cut"
BY ConstantsOK DEF Checkouts

LEMMA Nothing ==
    /\ NoRow \in RowStates /\ NoRow.status = "none"
    /\ NoJob \in JobStates /\ NoJob.pc = "idle" /\ NoJob.cur = Nobody
    /\ NoClaim \in [invite : Invites \cup {Nobody}, sub : Subs \cup {Nobody}]
    /\ NoClaim.invite = Nobody
    /\ 0 \in Months
<1>1. 0 \in Months /\ 0 \in DueMonths
  BY Bounds DEF Months, DueMonths
<1>2. NoRow \in RowStates /\ NoRow.status = "none"
  BY <1>1 DEF NoRow, RowStates, Freqs
<1> QED
  BY <1>1, <1>2 DEF NoJob, NoClaim, JobStates

\* The next due date: the first whole number of intervals past the job's month.
LEMMA NextDueDate ==
    ASSUME NEW due \in RowStates, NEW at \in Months, due.next <= at
    PROVE  /\ NextDelivery(due, at) \in DueMonths
           /\ NextDelivery(due, at) > at
           /\ NextDelivery(due, at) >= due.next + interval(due.freq)
           /\ NextDelivery(due, at) - interval(due.freq) <= at
<1> DEFINE k == interval(due.freq)
           first(n) == /\ n > at
                       /\ (n - due.next) % k = 0
                       /\ n - k <= at
<1>1. due.next \in Nat /\ at \in Nat /\ (k = 1 \/ k = 3) /\ at <= LastMonth /\ LastMonth \in Nat
  BY Bounds DEF RowStates, DueMonths, Months, interval
<1>2. \E n \in due.next + 1 .. at + 3 : first(n)
  <2>1. CASE k = 1
    <3>1. at + 1 \in due.next + 1 .. at + 3 /\ first(at + 1)
      BY <1>1, <2>1
    <3> QED
      BY <3>1
  <2>2. CASE k = 3
    <3> DEFINE r == (at - due.next) % 3
               n == at + 3 - r
    <3>1. r \in 0 .. 2 /\ r <= at - due.next
      BY <1>1
    <3>2. (n - due.next) % 3 = 0
      BY <1>1, <3>1
    <3>3. n \in due.next + 1 .. at + 3 /\ first(n)
      BY <1>1, <2>2, <3>1, <3>2
    <3> QED
      BY <3>3
  <2> QED
    BY <1>1, <2>1, <2>2
<1>3. NextDelivery(due, at) = CHOOSE n \in due.next + 1 .. at + 3 : first(n)
  BY DEF NextDelivery
<1> DEFINE n == NextDelivery(due, at)
<1>4. n \in due.next + 1 .. at + 3 /\ first(n)
  BY <1>2, <1>3
<1>5. n >= due.next + k
  BY <1>1, <1>4
<1> QED
  BY <1>1, <1>4, <1>5 DEF DueMonths
-----------------------------------------------------------------------------
(***************************************************************************)
(* Types, by the groups of variables that actions leave alone.              *)
(***************************************************************************)
ContractTyped ==
    /\ row \in [Subs -> RowStates]
    /\ origin \in [Subs -> [by : Invites \cup Checkouts \cup {Nobody}, in : Months]]
    /\ invite \in [Invites -> [status : {"none", "pending", "accepted", "revoked"},
                                lapsed : BOOLEAN, sub : Subs \cup {Nobody}]]
    /\ claim \in [invite : Invites \cup {Nobody}, sub : Subs \cup {Nobody}]
    /\ claim # NoClaim => claim.invite \in Invites /\ claim.sub \in Subs
LockTyped ==
    /\ proc \in [Procs -> {"down", "standby", "lead", "unaware", "leaving"}]
    /\ lock \in Procs \cup {"cut", Nobody}
JobTyped ==
    /\ job \in [Procs -> JobStates]
    /\ \A p \in Procs : Held(p)
ReportsTyped ==
    /\ fate \in [Subs -> [Covered -> Fates]]
    /\ mailed \in [Subs -> SUBSET Covered]
    /\ again \in [Subs -> SUBSET Covered]
    /\ leaked \subseteq Sections
    /\ \A s \in Subs : \A m \in mailed[s] : m < now
RestTyped ==
    /\ now \in Months
    /\ grants \subseteq Subs \X Sections
    /\ why \in [Subs -> SUBSET Causes]
    /\ torn \subseteq Invites
    /\ turns \in 0 .. MaxTurns /\ faults \in 0 .. MaxFaults

LEMMA Parts ==
    Sound <=> ContractTyped /\ LockTyped /\ JobTyped /\ ReportsTyped /\ RestTyped
BY DEF Sound, TypeOK, ContractTyped, LockTyped, JobTyped, ReportsTyped, RestTyped, RowStates,
       JobStates

LEMMA PartsNext ==
    Sound' <=> ContractTyped' /\ LockTyped' /\ JobTyped' /\ ReportsTyped' /\ RestTyped'
BY DEF Sound, TypeOK, ContractTyped, LockTyped, JobTyped, ReportsTyped, RestTyped, RowStates,
       JobStates

LEMMA SameContract == ASSUME ContractTyped, UNCHANGED contract PROVE ContractTyped'
BY DEF ContractTyped, contract
LEMMA SameLock == ASSUME LockTyped, UNCHANGED <<proc, lock>> PROVE LockTyped'
BY DEF LockTyped
LEMMA SameJobs == ASSUME JobTyped, UNCHANGED <<job, now>> PROVE JobTyped'
BY DEF JobTyped, Held, Running
LEMMA SameReports == ASSUME ReportsTyped, UNCHANGED <<reports, now>> PROVE ReportsTyped'
BY DEF ReportsTyped, reports
LEMMA SpentTyped ==
    ASSUME RestTyped, Turn \/ Fault \/ UNCHANGED budget
    PROVE  turns' \in 0 .. MaxTurns /\ faults' \in 0 .. MaxFaults
BY Bounds DEF RestTyped, Turn, Fault, budget
LEMMA SameRest ==
    ASSUME RestTyped, UNCHANGED <<now, grants, why, torn>>, Turn \/ Fault \/ UNCHANGED budget
    PROVE  RestTyped'
BY SpentTyped DEF RestTyped
LEMMA ExcuseTyped ==
    ASSUME RestTyped, NEW s \in Subs, NEW cause \in Causes, Excuse(s, cause)
    PROVE  /\ why' \in [Subs -> SUBSET Causes]
           /\ \A t \in Subs : why'[t] = IF t = s THEN why[t] \cup {cause} ELSE why[t]
BY DEF RestTyped, Excuse

\* What a subscription is written with, and what the job reads of it.
LEMMA RowTyped ==
    ASSUME RestTyped, NEW s \in Subs PROVE Written(s) \in RowStates
<1>1. Sold[s] \in Freqs /\ interval(Sold[s]) \in 1 .. 3
  BY ConstantsOK DEF Freqs, interval
<1> QED
  BY <1>1, Bounds DEF RestTyped, Written, RowStates, Months, DueMonths

LEMMA SoundInit == Init => Sound
<1> SUFFICES ASSUME Init PROVE Sound
  OBVIOUS
<1>1. ContractTyped
  <2>1. /\ row = [s \in Subs |-> NoRow]
        /\ origin = [s \in Subs |-> [by |-> Nobody, in |-> 0]]
        /\ invite = [i \in Invites |-> [status |-> "none", lapsed |-> FALSE, sub |-> Nobody]]
        /\ claim = NoClaim
    BY DEF Init
  <2> QED
    BY <2>1, Nothing DEF ContractTyped
<1>2. LockTyped
  BY DEF Init, LockTyped
<1>3. JobTyped
  <2>1. job = [p \in Procs |-> NoJob]
    BY DEF Init
  <2> QED
    BY <2>1, Nothing DEF JobTyped, Held, Running
<1>4. ReportsTyped
  BY DEF Init, ReportsTyped, Fates
<1>5. RestTyped
  BY Nothing, Bounds DEF Init, RestTyped
<1> QED
  BY <1>1, <1>2, <1>3, <1>4, <1>5, Parts
-----------------------------------------------------------------------------
LEMMA SoundInvites ==
    ASSUME Sound, NEW i \in Invites, Issue(i) \/ Resend(i) \/ Revoke(i) \/ Lapse(i)
    PROVE  Sound'
<1>p. ContractTyped /\ LockTyped /\ JobTyped /\ ReportsTyped /\ RestTyped
  BY Parts
<1>1. /\ UNCHANGED <<now, row, origin, claim, grants, schedule, reports, why, torn>>
      /\ Turn \/ Fault \/ UNCHANGED budget
  BY DEF Issue, Resend, Revoke, Lapse
<1>2. \/ invite' = [invite EXCEPT ![i].status = "pending"]
      \/ invite' = [invite EXCEPT ![i].status = "pending", ![i].lapsed = FALSE]
      \/ invite' = [invite EXCEPT ![i].status = "revoked"]
      \/ invite' = [invite EXCEPT ![i].lapsed = TRUE]
  BY DEF Issue, Resend, Revoke, Lapse
<1>n. invite \in [Invites -> [status : {"none", "pending", "accepted", "revoked"},
                               lapsed : BOOLEAN, sub : Subs \cup {Nobody}]]
  BY <1>p DEF ContractTyped
<1>3. ContractTyped'
  <2>1. invite' \in [Invites -> [status : {"none", "pending", "accepted", "revoked"},
                                 lapsed : BOOLEAN, sub : Subs \cup {Nobody}]]
    <3>1. CASE \E s \in {"pending", "revoked"} : invite' = [invite EXCEPT ![i].status = s]
      BY <1>n, <3>1
    <3>2. CASE \E b \in BOOLEAN : invite' = [invite EXCEPT ![i].lapsed = b]
      BY <1>n, <3>2
    <3>3. CASE invite' = [invite EXCEPT ![i].status = "pending", ![i].lapsed = FALSE]
      <4>1. invite' = [invite EXCEPT ![i] = [@ EXCEPT !.status = "pending", !.lapsed = FALSE]]
        BY <3>3
      <4> QED
        BY <1>n, <4>1
    <3> QED
      BY <1>2, <3>1, <3>2, <3>3
  <2> QED
    BY <1>p, <1>1, <2>1 DEF ContractTyped
<1>4. LockTyped' /\ JobTyped' /\ ReportsTyped' /\ RestTyped'
  BY <1>p, <1>1, SameLock, SameJobs, SameReports, SameRest DEF schedule
<1> QED
  BY <1>3, <1>4, PartsNext

LEMMA SoundClaims ==
    ASSUME Sound,
           \/ \E i \in Invites, s \in Subs : AcceptCreate(i, s)
           \/ AcceptMark \/ AcceptBreaks
    PROVE  Sound'
<1>p. ContractTyped /\ LockTyped /\ JobTyped /\ ReportsTyped /\ RestTyped
  BY Parts
<1>n. /\ row \in [Subs -> RowStates] /\ claim \in [invite : Invites \cup {Nobody}, sub : Subs \cup {Nobody}]
      /\ origin \in [Subs -> [by : Invites \cup Checkouts \cup {Nobody}, in : Months]]
      /\ invite \in [Invites -> [status : {"none", "pending", "accepted", "revoked"},
                                 lapsed : BOOLEAN, sub : Subs \cup {Nobody}]]
      /\ now \in Months
  BY <1>p DEF ContractTyped, RestTyped
<1>1. UNCHANGED <<now, grants, schedule, reports, why>> /\ (Turn \/ Fault \/ UNCHANGED budget)
  BY DEF AcceptCreate, AcceptMark, AcceptBreaks
<1>2. LockTyped' /\ JobTyped' /\ ReportsTyped'
  BY <1>p, <1>1, SameLock, SameJobs, SameReports DEF schedule
<1>3. ASSUME NEW i \in Invites, NEW s \in Subs, AcceptCreate(i, s)
      PROVE  ContractTyped' /\ RestTyped'
  <2>1. /\ row' = [row EXCEPT ![s] = Written(s)]
        /\ origin' = [origin EXCEPT ![s] = [by |-> i, in |-> now]]
        /\ claim' = [invite |-> i, sub |-> s] /\ UNCHANGED <<invite, torn>>
    BY <1>3 DEF AcceptCreate
  <2>2. Written(s) \in RowStates
    BY <1>p, RowTyped
  <2> QED
    BY <1>n, <1>p, <1>1, <2>1, <2>2, SameRest DEF ContractTyped
<1>4. ASSUME AcceptMark PROVE ContractTyped' /\ RestTyped'
  <2>1. /\ claim.invite \in Invites /\ claim.sub \in Subs
        /\ invite' = [invite EXCEPT ![claim.invite].status = "accepted",
                                    ![claim.invite].sub = claim.sub]
        /\ claim' = NoClaim /\ UNCHANGED <<row, origin, torn>>
    BY <1>p, <1>4 DEF AcceptMark, ContractTyped
  <2> QED
    BY <1>n, <1>p, <1>1, <2>1, Nothing, SameRest DEF ContractTyped
<1>5. ASSUME AcceptBreaks PROVE ContractTyped' /\ RestTyped'
  <2>1. /\ claim.invite \in Invites /\ torn' = torn \cup {claim.invite}
        /\ claim' = NoClaim /\ UNCHANGED <<row, origin, invite>>
    BY <1>p, <1>5 DEF AcceptBreaks, ContractTyped
  <2>2. ContractTyped'
    BY <1>n, <2>1, Nothing DEF ContractTyped
  <2> QED
    BY <1>p, <1>1, <2>1, <2>2, SpentTyped DEF RestTyped
<1> QED
  BY <1>2, <1>3, <1>4, <1>5, PartsNext

LEMMA SoundRows ==
    ASSUME Sound, NEW s \in Subs,
           CheckoutCompleted(s) \/ SetStatus(s) \/ SetFrequency(s) \/ SetNext(s)
    PROVE  Sound'
<1>p. ContractTyped /\ LockTyped /\ JobTyped /\ ReportsTyped /\ RestTyped
  BY Parts
<1>n. /\ row \in [Subs -> RowStates] /\ now \in Months
      /\ origin \in [Subs -> [by : Invites \cup Checkouts \cup {Nobody}, in : Months]]
  BY <1>p DEF ContractTyped, RestTyped
<1>1. UNCHANGED <<now, invite, claim, grants, schedule, reports, torn>>
      /\ (Turn \/ Fault \/ UNCHANGED budget)
  BY DEF CheckoutCompleted, SetStatus, SetFrequency, SetNext
<1>2. LockTyped' /\ JobTyped' /\ ReportsTyped'
  BY <1>p, <1>1, SameLock, SameJobs, SameReports DEF schedule
<1>3. RestTyped'
  <2>1. UNCHANGED why \/ \E cause \in Causes : Excuse(s, cause)
    BY DEF CheckoutCompleted, SetStatus, SetFrequency, SetNext, Causes
  <2>2. why' \in [Subs -> SUBSET Causes]
    BY <1>p, <2>1, ExcuseTyped DEF RestTyped
  <2> QED
    BY <1>p, <1>1, <2>2, SpentTyped DEF RestTyped
<1>4. origin' \in [Subs -> [by : Invites \cup Checkouts \cup {Nobody}, in : Months]]
  <2>1. \/ UNCHANGED origin
        \/ \E by \in Checkouts : origin' = [origin EXCEPT ![s] = [by |-> by, in |-> now]]
    BY DEF CheckoutCompleted, SetStatus, SetFrequency, SetNext
  <2> QED
    BY <1>n, <2>1
<1>5. row' \in [Subs -> RowStates]
  <2>1. CASE CheckoutCompleted(s)
    <3>1. row' = [row EXCEPT ![s] = Written(s)] /\ Written(s) \in RowStates
      BY <1>p, <2>1, RowTyped DEF CheckoutCompleted
    <3> QED
      BY <1>n, <3>1
  <2>2. CASE SetStatus(s)
    <3>1. row' = [row EXCEPT ![s].status = IF @ = "active" THEN "off" ELSE "active"]
      BY <2>2 DEF SetStatus
    <3> QED
      BY <1>n, <3>1 DEF RowStates
  <2>3. CASE SetFrequency(s)
    <3>1. row' = [row EXCEPT ![s].freq = IF @ = "monthly" THEN "quarterly" ELSE "monthly"]
      BY <2>3 DEF SetFrequency
    <3> QED
      BY <1>n, <3>1 DEF RowStates, Freqs
  <2>4. CASE SetNext(s)
    <3>1. PICK m \in Months : row' = [row EXCEPT ![s].next = m]
      BY <2>4 DEF SetNext
    <3>2. m \in DueMonths
      BY Bounds DEF Months, DueMonths
    <3> QED
      BY <1>n, <3>1, <3>2 DEF RowStates
  <2> QED
    BY <2>1, <2>2, <2>3, <2>4
<1>6. ContractTyped'
  BY <1>p, <1>1, <1>4, <1>5 DEF ContractTyped
<1> QED
  BY <1>2, <1>3, <1>6, PartsNext

LEMMA SoundGrants ==
    ASSUME Sound, NEW s \in Subs, NEW x \in Sections, Grant(s, x) \/ Revert(s, x)
    PROVE  Sound'
<1>p. ContractTyped /\ LockTyped /\ JobTyped /\ ReportsTyped /\ RestTyped
  BY Parts
<1>1. /\ UNCHANGED <<now, contract, schedule, reports, why, torn>>
      /\ Turn \/ Fault \/ UNCHANGED budget
      /\ grants' \subseteq Subs \X Sections
  BY <1>p DEF Grant, Revert, RestTyped
<1>2. ContractTyped' /\ LockTyped' /\ JobTyped' /\ ReportsTyped'
  BY <1>p, <1>1, SameContract, SameLock, SameJobs, SameReports DEF schedule
<1>3. RestTyped'
  BY <1>p, <1>1, SpentTyped DEF RestTyped
<1> QED
  BY <1>2, <1>3, PartsNext

LEMMA SoundLock ==
    ASSUME Sound,
           \/ \E p \in Procs : Start(p) \/ Stop(p) \/ LoseLock(p) \/ Leaves(p)
           \/ LockFreed
    PROVE  Sound'
<1>p. ContractTyped /\ LockTyped /\ JobTyped /\ ReportsTyped /\ RestTyped
  BY Parts
<1>1. /\ UNCHANGED <<now, contract, grants, job, reports, why, torn>>
      /\ Turn \/ Fault \/ UNCHANGED budget
  BY DEF Start, Stop, LoseLock, Leaves, LockFreed
<1>2. LockTyped'
  BY <1>p DEF LockTyped, Start, Stop, LoseLock, Leaves, LockFreed
<1>3. ContractTyped' /\ JobTyped' /\ ReportsTyped' /\ RestTyped'
  BY <1>p, <1>1, SameContract, SameJobs, SameReports, SameRest
<1> QED
  BY <1>2, <1>3, PartsNext

LEMMA SoundTick ==
    ASSUME Sound, Tick PROVE Sound'
<1>p. ContractTyped /\ LockTyped /\ JobTyped /\ ReportsTyped /\ RestTyped
  BY Parts
<1>1. /\ now < LastMonth /\ now' = now + 1 /\ \A p \in Procs : ~Running(p)
      /\ UNCHANGED <<contract, grants, schedule, reports, why, torn, budget>>
  BY DEF Tick
<1>2. now \in Nat /\ now' \in Months
  BY <1>p, <1>1, Bounds DEF RestTyped, Months
<1>3. ContractTyped' /\ LockTyped'
  BY <1>p, <1>1, SameContract, SameLock DEF schedule
<1>4. JobTyped'
  BY <1>p, <1>1 DEF JobTyped, Held, Running, schedule
<1>5. \A s \in Subs : \A m \in mailed[s] : m < now'
  <2> SUFFICES ASSUME NEW s \in Subs, NEW m \in mailed[s] PROVE m < now'
    OBVIOUS
  <2>1. m < now /\ m \in Int
    BY <1>p, Bounds DEF ReportsTyped, Covered
  <2> QED
    BY <1>1, <1>2, <2>1
<1>6. ReportsTyped'
  BY <1>p, <1>1, <1>5 DEF ReportsTyped, reports
<1>7. RestTyped'
  BY <1>p, <1>1, <1>2 DEF RestTyped, budget
<1> QED
  BY <1>3, <1>4, <1>6, <1>7, PartsNext
-----------------------------------------------------------------------------
(***************************************************************************)
(* The steps of a job.                                                      *)
(***************************************************************************)
\* What is in hand lies behind the current month, and within what is recorded.
LEMMA InHandBefore ==
    ASSUME Sound, NEW p \in Procs, NEW s \in job[p].left, Running(p)
    PROVE  /\ s \in Subs /\ job[p].due[s] \in RowStates /\ job[p].due[s].next <= now
           /\ Period(job[p].due[s]) \subseteq Covered
           /\ \A m \in Period(job[p].due[s]) : m < now
           /\ now \in Months /\ job[p].at = now
<1>p. job \in [Procs -> JobStates] /\ Held(p) /\ now \in Months
  BY Parts DEF JobTyped, RestTyped
<1> DEFINE due == job[p].due[s]
<1>1. s \in Subs /\ due \in RowStates
  BY <1>p DEF JobStates
<1>2. due.next <= now /\ job[p].at = now
  BY <1>p DEF Held
<1>3. due.next \in Nat /\ interval(due.freq) \in 1 .. 3 /\ now \in Nat /\ now <= LastMonth
  BY <1>p, <1>1, Bounds DEF RowStates, DueMonths, Months, interval
<1> HIDE DEF due
<1>4. \A m \in Period(due) : m \in Int /\ -3 <= m /\ m < due.next
  BY <1>3 DEF Period
<1>5. \A m \in Period(due) : m < now /\ m \in Covered
  BY <1>2, <1>3, <1>4, Bounds DEF Covered
<1> QED
  BY <1>p, <1>1, <1>2, <1>5 DEF due

LEMMA InHandKnown ==
    ASSUME Sound, NEW p \in Procs, job[p].pc \in {"requested", "processed"}
    PROVE  /\ job[p].cur \in job[p].left /\ job[p].cur \in Subs /\ Running(p)
           /\ InHand(p) \subseteq Covered /\ \A m \in InHand(p) : m < now
<1>1. Running(p) /\ job[p].cur \in job[p].left
  BY Parts DEF JobTyped, Held, Running
<1> QED
  BY <1>1, InHandBefore DEF InHand

LEMMA FateTyped ==
    ASSUME ReportsTyped, NEW s \in Subs, NEW months, NEW f \in Fates, SetFate(s, months, f)
    PROVE  /\ fate' \in [Subs -> [Covered -> Fates]]
           /\ \A t \in Subs, m \in Covered :
                 fate'[t][m] = IF t = s /\ m \in months THEN f ELSE fate[t][m]
BY DEF ReportsTyped, SetFate

\* A step of p that moves its job to another typed state.
LEMMA JobMoved ==
    ASSUME JobTyped, NEW p \in Procs, NEW j \in JobStates,
           UNCHANGED now, job' = [job EXCEPT ![p] = j],
           j.pc # "idle" => j.at = now /\ \A s \in j.left : j.due[s].next <= now,
           j.pc \in {"requested", "processed"} => j.cur \in j.left
    PROVE  JobTyped'
<1>t. job \in [Procs -> JobStates]
  BY DEF JobTyped
<1>1. job'[p] = j /\ \A q \in Procs \ {p} : job'[q] = job[q]
  BY <1>t
<1>2. job' \in [Procs -> JobStates]
  BY <1>t
<1>3. ASSUME NEW q \in Procs PROVE Held(q)'
  <2>1. CASE q = p
    BY <1>1, <2>1 DEF Held, Running
  <2>2. CASE q # p
    <3>1. Held(q)
      BY DEF JobTyped
    <3> QED
      BY <1>1, <2>2, <3>1 DEF Held, Running
  <2> QED
    BY <2>1, <2>2
<1> QED
  BY <1>2, <1>3 DEF JobTyped

LEMMA JobEndsTyped ==
    ASSUME Sound, NEW p \in Procs, JobEnds(p), UNCHANGED now
    PROVE  JobTyped' /\ why' \in [Subs -> SUBSET Causes]
<1>p. JobTyped /\ RestTyped
  BY Parts
<1>1. JobTyped'
  BY <1>p, JobMoved, Nothing DEF JobEnds
<1>2. why' \in [Subs -> SUBSET Causes]
  <2>1. CASE job[p].pc \in {"requested", "processed"}
    BY <1>p, <2>1, InHandKnown, ExcuseTyped DEF JobEnds, Causes
  <2>2. CASE job[p].pc \notin {"requested", "processed"}
    BY <1>p, <2>2 DEF JobEnds, RestTyped
  <2> QED
    BY <2>1, <2>2
<1> QED
  BY <1>1, <1>2

LEMMA SoundEnds ==
    ASSUME Sound, NEW p \in Procs, Crash(p) \/ JobRaises(p) PROVE Sound'
<1>p. ContractTyped /\ LockTyped /\ JobTyped /\ ReportsTyped /\ RestTyped
  BY Parts
<1>1. UNCHANGED <<now, contract, grants, reports, torn>> /\ Fault /\ JobEnds(p)
  BY DEF Crash, JobRaises
<1>2. LockTyped'
  BY <1>p DEF LockTyped, Crash, JobRaises
<1>3. ContractTyped' /\ ReportsTyped' /\ JobTyped' /\ why' \in [Subs -> SUBSET Causes]
  BY <1>p, <1>1, SameContract, SameReports, JobEndsTyped
<1>4. RestTyped'
  BY <1>p, <1>1, <1>3, SpentTyped DEF RestTyped
<1> QED
  BY <1>2, <1>3, <1>4, PartsNext

\* The job of p, as the step that starts it makes it.
Started ==
    [NoJob EXCEPT !.pc = "loop", !.at = now, !.left = {s \in Subs : Due(s)},
                  !.due = [s \in Subs |-> IF s \in {t \in Subs : Due(t)} THEN row[s] ELSE NoRow]]

LEMMA JobStarted ==
    ASSUME Sound, NEW p \in Procs, JobStart(p)
    PROVE  /\ Started \in JobStates /\ job' = [job EXCEPT ![p] = Started]
           /\ Started.pc = "loop" /\ Started.at = now /\ Started.cur = Nobody
           /\ Started.left = {s \in Subs : Due(s)}
           /\ \A s \in Started.left : Started.due[s] = row[s]
           /\ \A s \in Subs \ Started.left : Started.due[s] = NoRow
<1>p. row \in [Subs -> RowStates] /\ now \in Months
  BY Parts DEF ContractTyped, RestTyped
<1>1. job' = [job EXCEPT ![p] = Started]
  BY DEF JobStart, Started
<1>2. NoJob = [pc |-> "idle", at |-> 0, cur |-> Nobody, left |-> {},
               due |-> [s \in Subs |-> NoRow], open |-> {}]
  BY DEF NoJob
<1>3. Started = [pc |-> "loop", at |-> now, cur |-> Nobody, left |-> {s \in Subs : Due(s)},
                 due |-> [s \in Subs |-> IF s \in {t \in Subs : Due(t)} THEN row[s] ELSE NoRow],
                 open |-> {}]
  <2> DEFINE L == {s \in Subs : Due(s)}
             D == [s \in Subs |-> IF s \in {t \in Subs : Due(t)} THEN row[s] ELSE NoRow]
  <2>1. Started = [NoJob EXCEPT !.pc = "loop", !.at = now, !.left = L, !.due = D]
    BY DEF Started
  <2> HIDE DEF L, D
  <2>2. Started = [pc |-> "loop", at |-> now, cur |-> Nobody, left |-> L, due |-> D, open |-> {}]
    BY <1>2, <2>1
  <2> QED
    BY <2>2 DEF L, D
<1> QED
  BY <1>p, <1>1, <1>3, Nothing DEF JobStates

LEMMA SoundJob ==
    ASSUME Sound, NEW p \in Procs, JobStart(p) \/ JobStep(p) \/ Fail(p)
    PROVE  Sound'
<1>p. ContractTyped /\ LockTyped /\ JobTyped /\ ReportsTyped /\ RestTyped
  BY Parts
<1>n. /\ job \in [Procs -> JobStates] /\ job[p] \in JobStates /\ Held(p) /\ now \in Months
      /\ row \in [Subs -> RowStates]
  BY <1>p DEF JobTyped, ContractTyped, RestTyped
<1>1. ASSUME JobStart(p) PROVE Sound'
  <2>1. /\ UNCHANGED <<now, contract, grants, proc, lock, reports, torn, budget>>
        /\ \A s \in Subs : why'[s] = why[s] \/ why'[s] = why[s] \cup {"two jobs"}
        /\ DOMAIN why' = Subs /\ why' = [s \in Subs |-> why'[s]]
    BY <1>1 DEF JobStart
  <2>2. /\ Started \in JobStates /\ job' = [job EXCEPT ![p] = Started]
        /\ Started.pc = "loop" /\ Started.at = now
        /\ \A s \in Started.left : Started.due[s].next <= now
    BY <1>1, JobStarted DEF Due
  <2>3. JobTyped'
    BY <1>p, <2>1, <2>2, JobMoved
  <2>4. why' \in [Subs -> SUBSET Causes]
    BY <1>p, <2>1 DEF RestTyped, Causes
  <2>5. RestTyped'
    BY <1>p, <2>1, <2>4 DEF RestTyped, budget
  <2> QED
    BY <1>p, <2>1, <2>3, <2>5, SameContract, SameLock, SameReports, PartsNext
<1>2. ASSUME NEW s \in Subs, CreateRequest(p, s) PROVE Sound'
  <2>1. /\ UNCHANGED <<now, contract, grants, proc, lock, mailed, again, leaked, why, torn, budget>>
        /\ job' = [job EXCEPT ![p].pc = "requested", ![p].cur = s, ![p].open = allowed(s)]
        /\ SetFate(s, Period(job[p].due[s]), "processing")
        /\ job[p].pc = "loop" /\ s \in job[p].left
    BY <1>2 DEF CreateRequest
  <2> DEFINE j == [job[p] EXCEPT !.pc = "requested", !.cur = s, !.open = allowed(s)]
  <2>2. /\ j \in JobStates /\ j.pc = "requested" /\ j.cur = s /\ j.at = job[p].at
        /\ j.left = job[p].left /\ j.due = job[p].due
    BY <1>n DEF JobStates, allowed
  <2>3. job' = [job EXCEPT ![p] = j]
    BY <1>n, <2>1
  <2>4. Running(p)
    BY <2>1 DEF Running
  <2> HIDE DEF j
  <2>5. j.at = now /\ \A t \in j.left : j.due[t].next <= now
    BY <1>n, <2>2, <2>4 DEF Held
  <2>5a. JobTyped'
    BY <1>p, <2>1, <2>2, <2>3, <2>5, JobMoved
  <2>6. fate' \in [Subs -> [Covered -> Fates]]
    BY <1>p, <2>1, FateTyped DEF Fates
  <2>7. ReportsTyped'
    BY <1>p, <2>1, <2>6 DEF ReportsTyped
  <2> QED
    BY <1>p, <2>1, <2>5a, <2>7, SameContract, SameLock, SameRest, PartsNext
<1>3. ASSUME \/ \E s \in Subs : RequestRefused(p, s)
             \/ JobDone(p)
      PROVE Sound'
  <2>1. /\ UNCHANGED <<now, contract, grants, proc, lock, reports, why, torn, budget>>
        /\ job' = [job EXCEPT ![p] = NoJob]
    BY <1>3 DEF RequestRefused, JobDone
  <2>2. JobTyped'
    BY <1>p, <2>1, Nothing, JobMoved
  <2> QED
    BY <1>p, <2>1, <2>2, SameContract, SameLock, SameReports, SameRest, PartsNext
<1>6. ASSUME NEW s \in Subs, Skip(p, s) PROVE Sound'
  <2> DEFINE j == [job[p] EXCEPT !.left = @ \ {s}]
  <2>1. /\ UNCHANGED <<now, contract, grants, proc, lock, reports, why, torn, budget>>
        /\ job' = [job EXCEPT ![p].left = @ \ {s}] /\ job[p].pc = "loop"
    BY <1>6 DEF Skip
  <2>2. /\ j \in JobStates /\ j.pc = "loop" /\ j.at = job[p].at
        /\ j.left \subseteq job[p].left /\ j.due = job[p].due
    BY <1>n, <2>1 DEF JobStates
  <2>3. job' = [job EXCEPT ![p] = j]
    BY <1>n, <2>1
  <2> HIDE DEF j
  <2>4. j.at = now /\ \A t \in j.left : j.due[t].next <= now
    BY <1>n, <2>1, <2>2 DEF Held, Running
  <2>5. JobTyped'
    BY <1>p, <2>1, <2>2, <2>3, <2>4, JobMoved
  <2> QED
    BY <1>p, <2>1, <2>5, SameContract, SameLock, SameReports, SameRest, PartsNext
<1>4. ASSUME Deliver(p) \/ Hold(p) \/ Fail(p) PROVE Sound'
  <2>1. /\ job[p].pc = "requested" /\ Settle(p)
        /\ \/ Mail(p)
           \/ UNCHANGED <<mailed, again, leaked>>
        /\ Turn \/ Fault \/ UNCHANGED budget
    BY <1>4 DEF Deliver, Hold, Fail
  <2>2. /\ SetFate(job[p].cur, InHand(p), "settled")
        /\ job' = [job EXCEPT ![p].pc = "processed"]
        /\ UNCHANGED <<now, contract, grants, proc, lock, why, torn>>
    BY <2>1 DEF Settle
  <2>3. /\ job[p].cur \in job[p].left /\ job[p].cur \in Subs /\ Running(p)
        /\ InHand(p) \subseteq Covered /\ \A m \in InHand(p) : m < now
    BY <2>1, InHandKnown
  <2> DEFINE j == [job[p] EXCEPT !.pc = "processed"]
  <2>4. /\ j \in JobStates /\ j.pc = "processed" /\ j.cur = job[p].cur /\ j.at = job[p].at
        /\ j.left = job[p].left /\ j.due = job[p].due
    BY <1>n DEF JobStates
  <2>5. job' = [job EXCEPT ![p] = j]
    BY <1>n, <2>2
  <2> HIDE DEF j
  <2>6. JobTyped'
    BY <1>n, <1>p, <2>2, <2>3, <2>4, <2>5, JobMoved DEF Held
  <2>7. fate' \in [Subs -> [Covered -> Fates]]
    BY <1>p, <2>2, <2>3, FateTyped DEF Fates
  <2>8. /\ mailed' \in [Subs -> SUBSET Covered] /\ again' \in [Subs -> SUBSET Covered]
        /\ leaked' \subseteq Sections /\ \A s \in Subs : \A m \in mailed'[s] : m < now'
    <3>1. CASE UNCHANGED <<mailed, again, leaked>>
      BY <1>p, <2>2, <3>1 DEF ReportsTyped
    <3>2. CASE Mail(p)
      <4>1. /\ again' = [again EXCEPT ![job[p].cur] = @ \cup (InHand(p) \cap mailed[job[p].cur])]
            /\ mailed' = [mailed EXCEPT ![job[p].cur] = @ \cup InHand(p)]
            /\ leaked' = leaked \cup (Sections \ job[p].open)
        BY <3>2 DEF Mail
      <4>2. \A s \in Subs : mailed'[s] = IF s = job[p].cur THEN mailed[s] \cup InHand(p) ELSE mailed[s]
        BY <1>p, <4>1 DEF ReportsTyped
      <4> QED
        BY <1>p, <2>2, <2>3, <4>1, <4>2 DEF ReportsTyped
    <3> QED
      BY <2>1, <3>1, <3>2
  <2>9. ReportsTyped'
    BY <2>7, <2>8 DEF ReportsTyped
  <2> QED
    BY <1>p, <2>1, <2>2, <2>6, <2>9, SameContract, SameLock, SameRest, PartsNext
<1>5. ASSUME Advance(p) PROVE Sound'
  <2> DEFINE s == job[p].cur
             due == job[p].due[s]
             nxt == NextDelivery(due, job[p].at)
             j == [job[p] EXCEPT !.pc = "loop", !.left = @ \ {s}, !.cur = Nobody, !.open = {}]
  <2>1. /\ job[p].pc = "processed"
        /\ row' = [row EXCEPT ![s].next = nxt]
        /\ job' = [job EXCEPT ![p].pc = "loop", ![p].left = @ \ {s}, ![p].cur = Nobody,
                              ![p].open = {}]
        /\ Excuse(s, "late") \/ UNCHANGED why
        /\ UNCHANGED <<now, origin, invite, claim, grants, proc, lock, reports, torn, budget>>
    BY <1>5 DEF Advance
  <2>2. s \in job[p].left /\ s \in Subs /\ Running(p)
    BY <2>1, InHandKnown
  <2>3. due \in RowStates /\ due.next <= now /\ job[p].at = now
    BY <2>2, InHandBefore
  <2>4. nxt \in DueMonths
    BY <1>n, <2>3, NextDueDate
  <2>5. /\ j \in JobStates /\ j.pc = "loop" /\ j.at = job[p].at
        /\ j.left \subseteq job[p].left /\ j.due = job[p].due
    BY <1>n DEF JobStates
  <2>6. job' = [job EXCEPT ![p] = j]
    BY <1>n, <2>1
  <2> HIDE DEF j, nxt, due
  <2>7. JobTyped'
    <3>1. j.at = now /\ \A t \in j.left : j.due[t].next <= now
      BY <1>n, <2>2, <2>5 DEF Held
    <3> QED
      BY <1>p, <2>1, <2>5, <2>6, <3>1, JobMoved
  <2>8. row' \in [Subs -> RowStates]
    BY <1>n, <2>1, <2>2, <2>4 DEF RowStates
  <2>9. ContractTyped'
    BY <1>p, <2>1, <2>8 DEF ContractTyped
  <2>10. why' \in [Subs -> SUBSET Causes]
    BY <1>p, <2>1, <2>2, ExcuseTyped DEF RestTyped, Causes
  <2>11. RestTyped'
    BY <1>p, <2>1, <2>10 DEF RestTyped, budget
  <2> QED
    BY <1>p, <2>1, <2>7, <2>9, <2>11, SameLock, SameReports, PartsNext
<1> QED
  BY <1>1, <1>2, <1>3, <1>4, <1>5, <1>6 DEF JobStep

LEMMA SoundNext == ASSUME Sound, [Next]_vars PROVE Sound'
<1>1. CASE UNCHANGED vars
  <2>1. ContractTyped /\ LockTyped /\ JobTyped /\ ReportsTyped /\ RestTyped
    BY Parts
  <2> QED
    BY <1>1, <2>1, SameContract, SameLock, SameJobs, SameReports, SameRest, PartsNext
       DEF vars, schedule
<1> QED
  BY <1>1, SoundInvites, SoundClaims, SoundRows, SoundGrants, SoundLock, SoundTick, SoundEnds,
     SoundJob DEF Next

LEMMA SoundHolds == Spec => []Sound
<1>1. Sound /\ [Next]_vars => Sound'
  BY SoundNext
<1> QED
  BY <1>1, SoundInit, PTL DEF Spec

\* Rows, invitations, jobs and due dates keep their types: every due date lies
\* within a quarter of the current month, every period within its own.
THEOREM TypeCorrect == Spec => []TypeOK
<1>1. Sound => TypeOK
  BY DEF Sound
<1> QED
  BY <1>1, SoundHolds, PTL

\* Whatever moves a due date, only completed months are mailed.
THEOREM CompletedMonthsOnlyAlways == Spec => []CompletedMonthsOnly
<1>1. Sound => CompletedMonthsOnly
  BY DEF Sound, CompletedMonthsOnly
<1> QED
  BY <1>1, SoundHolds, PTL
-----------------------------------------------------------------------------
\* Who leads holds the lock, and a job runs where deliveries were scheduled.
Led ==
    \A p \in Procs : /\ proc[p] = "lead" => lock = p
                     /\ Running(p) => proc[p] \in {"lead", "unaware", "leaving"}

LEMMA LedNext == ASSUME Sound, Led, [Next]_vars PROVE Led'
<1>t. /\ proc \in [Procs -> {"down", "standby", "lead", "unaware", "leaving"}]
      /\ job \in [Procs -> JobStates]
  BY Parts DEF LockTyped, JobTyped
<1>n. NoJob.pc = "idle" /\ "cut" \notin Procs /\ Nobody \notin Procs
  BY Nothing, Bounds
<1>0. ASSUME UNCHANGED <<proc, lock, job>> PROVE Led'
  BY <1>0 DEF Led, Running
<1>1. ASSUME NEW p \in Procs, Start(p) PROVE Led'
  BY <1>t, <1>n, <1>1 DEF Start, Led, Running
<1>2. ASSUME NEW p \in Procs, Stop(p) PROVE Led'
  BY <1>t, <1>n, <1>2 DEF Stop, Led, Running
<1>3. ASSUME NEW p \in Procs, Leaves(p) PROVE Led'
  BY <1>t, <1>3 DEF Leaves, Led, Running
<1>4. ASSUME LockFreed PROVE Led'
  BY <1>n, <1>4 DEF LockFreed, Led, Running
<1>5. ASSUME NEW p \in Procs, Crash(p) PROVE Led'
  <2>1. /\ proc' = [proc EXCEPT ![p] = "down"] /\ job' = [job EXCEPT ![p] = NoJob]
        /\ lock' = lock \/ lock = p
    BY <1>5 DEF Crash, JobEnds
  <2> QED
    BY <1>t, <1>n, <2>1 DEF Led, Running
<1>6. ASSUME NEW p \in Procs, LoseLock(p) PROVE Led'
  BY <1>t, <1>6 DEF LoseLock, Led, Running
<1>7. ASSUME NEW p \in Procs, JobStart(p) PROVE Led'
  <2>1. /\ proc[p] \in {"lead", "unaware"} /\ UNCHANGED <<proc, lock>>
        /\ \A q \in Procs \ {p} : job'[q] = job[q]
    BY <1>t, <1>7 DEF JobStart
  <2> QED
    BY <2>1 DEF Led, Running
<1>8. ASSUME NEW p \in Procs, JobStep(p) \/ Fail(p) \/ JobRaises(p) PROVE Led'
  <2>1. /\ Running(p) /\ UNCHANGED <<proc, lock>>
        /\ \A q \in Procs \ {p} : job'[q] = job[q]
    <3>1. CASE \E s \in Subs : Skip(p, s) \/ CreateRequest(p, s) \/ RequestRefused(p, s)
      BY <1>t, <3>1 DEF Skip, CreateRequest, RequestRefused, Running
    <3>2. CASE Deliver(p) \/ Hold(p) \/ Fail(p)
      BY <1>t, <3>2 DEF Deliver, Hold, Fail, Settle, Running
    <3>3. CASE Advance(p)
      BY <1>t, <3>3 DEF Advance, Running
    <3>4. CASE JobDone(p) \/ JobRaises(p)
      BY <1>t, <3>4 DEF JobDone, JobRaises, JobEnds, Running
    <3> QED
      BY <1>8, <3>1, <3>2, <3>3, <3>4 DEF JobStep
  <2> QED
    BY <2>1 DEF Led, Running
<1>9. ASSUME \/ \E i \in Invites : Issue(i) \/ Resend(i) \/ Revoke(i) \/ Lapse(i)
             \/ \E i \in Invites, s \in Subs : AcceptCreate(i, s)
             \/ AcceptMark \/ AcceptBreaks
      PROVE Led'
  BY <1>0, <1>9 DEF Issue, Resend, Revoke, Lapse, AcceptCreate, AcceptMark, AcceptBreaks, schedule
<1>10. ASSUME \/ \E s \in Subs : CheckoutCompleted(s) \/ SetStatus(s) \/ SetFrequency(s) \/ SetNext(s)
              \/ \E s \in Subs, x \in Sections : Grant(s, x) \/ Revert(s, x)
       PROVE Led'
  BY <1>0, <1>10 DEF CheckoutCompleted, SetStatus, SetFrequency, SetNext, Grant, Revert, schedule
<1>11. ASSUME Tick \/ UNCHANGED vars PROVE Led'
  BY <1>0, <1>11 DEF Tick, vars, schedule
<1> QED
  BY <1>1, <1>2, <1>3, <1>4, <1>5, <1>6, <1>7, <1>8, <1>9, <1>10, <1>11 DEF Next

\* Two processes are at work at once only after one lost its lock connection,
\* or while one that shut down finishes its job.
THEOREM OneSchedulerAlways == Spec => []OneScheduler
<1>1. Init => Led
  BY Nothing DEF Init, Led, Running
<1>2. Sound /\ Led /\ [Next]_vars => Led'
  BY LedNext
<1>3. Led => OneScheduler
  BY DEF Led, OneScheduler, AtWork
<1> QED
  BY <1>1, <1>2, <1>3, SoundHolds, PTL DEF Spec
-----------------------------------------------------------------------------
\* Whose row an invitation's claim has written.
Claimed ==
    /\ \A s \in Subs : origin[s].by # Nobody => ~Fresh(s)
    /\ claim # NoClaim => /\ origin[claim.sub].by = claim.invite
                          /\ invite[claim.invite].status = "pending"
    /\ \A i \in Invites : invite[i].status = "accepted" =>
          invite[i].sub \in Subs /\ origin[invite[i].sub].by = i
    /\ \A i \in Invites \ torn, s \in Subs : origin[s].by = i =>
          \/ invite[i].status = "accepted" /\ invite[i].sub = s
          \/ claim.invite = i /\ claim.sub = s

\* No row is ever unwritten.
LEMMA StaysWritten ==
    ASSUME Sound, [Next]_vars PROVE \A s \in Subs : ~Fresh(s) => ~Fresh(s)'
<1>t. row \in [Subs -> RowStates]
  BY Parts DEF ContractTyped
<1>0. UNCHANGED row => \A s \in Subs : ~Fresh(s) => ~Fresh(s)'
  BY DEF Fresh
<1>1. ASSUME NEW r \in Subs, CheckoutCompleted(r) \/ \E i \in Invites : AcceptCreate(i, r)
      PROVE \A s \in Subs : ~Fresh(s) => ~Fresh(s)'
  <2>1. row' = [row EXCEPT ![r] = Written(r)] /\ Written(r).status = "active"
    BY <1>1 DEF CheckoutCompleted, AcceptCreate, Written
  <2> QED
    BY <1>t, <2>1 DEF Fresh
<1>2. ASSUME NEW r \in Subs, SetStatus(r) \/ SetFrequency(r) \/ SetNext(r)
      PROVE \A s \in Subs : ~Fresh(s) => ~Fresh(s)'
  BY <1>t, <1>2 DEF SetStatus, SetFrequency, SetNext, Fresh, RowStates
<1>3. ASSUME NEW p \in Procs, Advance(p) PROVE \A s \in Subs : ~Fresh(s) => ~Fresh(s)'
  <2>1. \E n : row' = [row EXCEPT ![job[p].cur].next = n]
    BY <1>3 DEF Advance
  <2> QED
    BY <1>t, <2>1 DEF Fresh, RowStates
<1>4. ASSUME NEW p \in Procs,
             \/ JobStart(p) \/ Deliver(p) \/ Hold(p) \/ JobDone(p) \/ Fail(p) \/ JobRaises(p)
             \/ \E s \in Subs : Skip(p, s) \/ CreateRequest(p, s) \/ RequestRefused(p, s)
      PROVE UNCHANGED row
  BY <1>4 DEF JobStart, Fail, JobRaises, Skip, CreateRequest, RequestRefused, Deliver, Hold, JobDone,
              Settle, contract
<1>5. ASSUME NEW p \in Procs, Start(p) \/ Stop(p) \/ Crash(p) \/ LoseLock(p) \/ Leaves(p)
      PROVE UNCHANGED row
  BY <1>5 DEF Start, Stop, Crash, LoseLock, Leaves, contract
<1>6. ASSUME \/ \E i \in Invites : Issue(i) \/ Resend(i) \/ Revoke(i) \/ Lapse(i)
             \/ AcceptMark \/ AcceptBreaks
             \/ \E s \in Subs, x \in Sections : Grant(s, x) \/ Revert(s, x)
             \/ LockFreed \/ Tick \/ UNCHANGED vars
      PROVE UNCHANGED row
  BY <1>6 DEF Issue, Resend, Revoke, Lapse, AcceptMark, AcceptBreaks, Grant, Revert, LockFreed,
              Tick, vars, contract
<1> QED
  BY <1>0, <1>1, <1>2, <1>3, <1>4, <1>5, <1>6 DEF Next, JobStep

LEMMA ClaimedInit == Init => Claimed
<1> SUFFICES ASSUME Init PROVE Claimed
  OBVIOUS
<1>1. /\ \A s \in Subs : origin[s].by = Nobody
      /\ \A i \in Invites : invite[i].status = "none"
      /\ claim = NoClaim
  BY DEF Init
<1> QED
  BY <1>1, Bounds DEF Claimed

LEMMA ClaimedNext == ASSUME Sound, Claimed, [Next]_vars PROVE Claimed'
<1>t. /\ origin \in [Subs -> [by : Invites \cup Checkouts \cup {Nobody}, in : Months]]
      /\ invite \in [Invites -> [status : {"none", "pending", "accepted", "revoked"},
                                 lapsed : BOOLEAN, sub : Subs \cup {Nobody}]]
      /\ claim # NoClaim => claim.invite \in Invites /\ claim.sub \in Subs
      /\ torn \subseteq Invites
  BY Parts DEF ContractTyped, RestTyped
<1>w. \A s \in Subs : ~Fresh(s) => ~Fresh(s)'
  BY StaysWritten
<1>n. NoClaim.invite = Nobody /\ Nobody \notin Invites
  BY Nothing, Bounds
<1>0. ASSUME UNCHANGED <<origin, invite, claim, torn>> PROVE Claimed'
  BY <1>w, <1>0 DEF Claimed
\* An invitation that is not accepted has no row while no claim is under way.
<1>u. ASSUME claim = NoClaim, NEW i \in Invites \ torn, invite[i].status # "accepted", NEW s \in Subs
      PROVE  origin[s].by # i
  BY <1>n, <1>u DEF Claimed
<1>1. ASSUME NEW i \in Invites, Issue(i) \/ Resend(i) \/ Revoke(i) \/ Lapse(i) PROVE Claimed'
  <2>1. /\ claim = NoClaim /\ UNCHANGED <<origin, claim, torn>>
        /\ \/ invite[i].status # "accepted" /\ invite'[i].status # "accepted"
           \/ invite'[i].status = invite[i].status /\ invite'[i].sub = invite[i].sub
        /\ \A j \in Invites \ {i} : invite'[j] = invite[j]
    BY <1>t, <1>1 DEF Issue, Resend, Revoke, Lapse, WebFree, effective_status, Claimable
  <2> QED
    BY <1>t, <1>w, <1>u, <1>n, <2>1 DEF Claimed
<1>2. ASSUME NEW i \in Invites, NEW r \in Subs, AcceptCreate(i, r) PROVE Claimed'
  <2>1. /\ claim = NoClaim /\ Fresh(r) /\ UNCHANGED <<invite, torn>>
        /\ row' = [row EXCEPT ![r] = Written(r)] /\ invite[i].status = "pending"
        /\ origin' = [origin EXCEPT ![r] = [by |-> i, in |-> now]]
        /\ claim' = [invite |-> i, sub |-> r]
    BY <1>2 DEF AcceptCreate, WebFree, Claimable, effective_status
  <2>2. ~Fresh(r)'
    <3>1. row \in [Subs -> RowStates] /\ Written(r).status = "active"
      BY Parts DEF ContractTyped, Written
    <3> QED
      BY <2>1, <3>1 DEF Fresh
  <2>3. /\ origin'[r].by = i /\ \A s \in Subs \ {r} : origin'[s] = origin[s]
        /\ origin[r].by = Nobody
    BY <1>t, <2>1 DEF Claimed
  <2>4. \A s \in Subs : origin'[s].by # Nobody => ~Fresh(s)'
    BY <1>w, <2>2, <2>3 DEF Claimed
  <2>5. \A j \in Invites : invite[j].status = "accepted" =>
            invite[j].sub \in Subs /\ origin'[invite[j].sub].by = j
    BY <1>n, <2>3 DEF Claimed
  <2>6. \A j \in Invites \ torn, s \in Subs : origin'[s].by = j =>
            \/ invite[j].status = "accepted" /\ invite[j].sub = s
            \/ claim'.invite = j /\ claim'.sub = s
    <3> SUFFICES ASSUME NEW j \in Invites \ torn, NEW s \in Subs, origin'[s].by = j
                 PROVE  \/ invite[j].status = "accepted" /\ invite[j].sub = s
                        \/ claim'.invite = j /\ claim'.sub = s
      OBVIOUS
    <3>1. CASE s = r
      BY <2>1, <2>3, <3>1
    <3>2. CASE s # r
      BY <1>n, <2>1, <2>3, <3>2 DEF Claimed
    <3> QED
      BY <3>1, <3>2
  <2> QED
    BY <2>1, <2>3, <2>4, <2>5, <2>6 DEF Claimed
<1>3. ASSUME AcceptMark PROVE Claimed'
  <2>1. /\ claim # NoClaim /\ claim' = NoClaim /\ UNCHANGED <<origin, torn>>
        /\ invite' = [invite EXCEPT ![claim.invite].status = "accepted",
                                    ![claim.invite].sub = claim.sub]
    BY <1>3 DEF AcceptMark
  <2>2. /\ claim.invite \in Invites /\ claim.sub \in Subs
        /\ invite'[claim.invite].status = "accepted" /\ invite'[claim.invite].sub = claim.sub
        /\ \A j \in Invites \ {claim.invite} : invite'[j] = invite[j]
    BY <1>t, <2>1
  <2>3. origin[claim.sub].by = claim.invite /\ invite[claim.invite].status = "pending"
    BY <2>1 DEF Claimed
  <2>4. \A j \in Invites : invite'[j].status = "accepted" =>
            invite'[j].sub \in Subs /\ origin[invite'[j].sub].by = j
    BY <2>2, <2>3 DEF Claimed
  <2>5. \A j \in Invites \ torn, s \in Subs : origin[s].by = j =>
            invite'[j].status = "accepted" /\ invite'[j].sub = s
    BY <2>2, <2>3 DEF Claimed
  <2>6. \A s \in Subs : origin'[s].by # Nobody => ~Fresh(s)'
    BY <1>w, <2>1 DEF Claimed
  <2>7. \A j \in Invites \ torn', s \in Subs : origin'[s].by = j =>
            \/ invite'[j].status = "accepted" /\ invite'[j].sub = s
            \/ claim'.invite = j /\ claim'.sub = s
    BY <2>1, <2>5
  <2>8. \A j \in Invites : invite'[j].status = "accepted" =>
            invite'[j].sub \in Subs /\ origin'[invite'[j].sub].by = j
    BY <2>1, <2>4
  <2> QED
    BY <2>1, <2>6, <2>7, <2>8 DEF Claimed
<1>4. ASSUME AcceptBreaks PROVE Claimed'
  <2>1. /\ claim' = NoClaim /\ UNCHANGED <<origin, invite>> /\ torn' = torn \cup {claim.invite}
    BY <1>4 DEF AcceptBreaks
  <2> QED
    BY <1>w, <2>1 DEF Claimed
<1>5. ASSUME NEW r \in Subs, CheckoutCompleted(r) PROVE Claimed'
  <2>1. claim = NoClaim /\ UNCHANGED <<invite, claim, torn>> /\ row' = [row EXCEPT ![r] = Written(r)]
    BY <1>5 DEF CheckoutCompleted, WebFree
  <2>2. CASE UNCHANGED origin
    BY <1>0, <2>1, <2>2
  <2>3. ASSUME NEW by \in Checkouts, Fresh(r),
               origin' = [origin EXCEPT ![r] = [by |-> by, in |-> now]]
        PROVE Claimed'
    <3>1. ~Fresh(r)'
      <4>1. row \in [Subs -> RowStates] /\ Written(r).status = "active"
        BY Parts DEF ContractTyped, Written
      <4> QED
        BY <2>1, <4>1 DEF Fresh
    <3>2. /\ origin'[r].by = by /\ by \notin Invites
          /\ \A s \in Subs \ {r} : origin'[s] = origin[s]
          /\ origin[r].by = Nobody
      BY <1>t, <2>3, Bounds DEF Claimed
    <3> QED
      BY <1>t, <1>w, <1>n, <2>1, <3>1, <3>2 DEF Claimed
  <2> QED
    BY <1>5, <2>2, <2>3 DEF CheckoutCompleted
<1>6. ASSUME \/ \E s \in Subs : SetStatus(s) \/ SetFrequency(s) \/ SetNext(s)
             \/ \E s \in Subs, x \in Sections : Grant(s, x) \/ Revert(s, x)
             \/ LockFreed \/ Tick \/ UNCHANGED vars
      PROVE Claimed'
  BY <1>0, <1>6 DEF SetStatus, SetFrequency, SetNext, Grant, Revert, LockFreed, Tick, vars, contract
<1>7. ASSUME NEW p \in Procs, Start(p) \/ Stop(p) \/ Crash(p) \/ LoseLock(p) \/ Leaves(p)
      PROVE Claimed'
  BY <1>0, <1>7 DEF Start, Stop, Crash, LoseLock, Leaves, contract
<1>8. ASSUME NEW p \in Procs, JobStart(p) \/ JobStep(p) \/ Fail(p) \/ JobRaises(p) PROVE Claimed'
  BY <1>0, <1>8 DEF JobStart, JobStep, Fail, JobRaises, Skip, CreateRequest, RequestRefused,
                    Deliver, Hold, Advance, JobDone, Settle, contract
<1> QED
  BY <1>1, <1>2, <1>3, <1>4, <1>5, <1>6, <1>7, <1>8 DEF Next

\* A claim is two commits, and only one that breaks off between them can be
\* repeated into a second subscription.
THEOREM ClaimedOnceAlways == Spec => []ClaimedOnce
<1>1. Claimed => ClaimedOnce
  <2> SUFFICES ASSUME Claimed, NEW i \in Invites
               PROVE  /\ Cardinality({s \in Subs : origin[s].by = i}) <= 1 \/ i \in torn
                      /\ invite[i].status = "accepted" =>
                            \E s \in Subs : invite[i].sub = s /\ origin[s].by = i
    BY DEF ClaimedOnce
  <2>1. invite[i].status = "accepted" => \E s \in Subs : invite[i].sub = s /\ origin[s].by = i
    BY DEF Claimed
  <2>2. ASSUME i \notin torn PROVE Cardinality({s \in Subs : origin[s].by = i}) <= 1
    <3> DEFINE S == {s \in Subs : origin[s].by = i}
    <3>1. \A s, u \in S : s = u
      BY <2>2, Nothing, Bounds DEF Claimed
    <3>2. S = {} \/ \E s : S = {s}
      BY <3>1
    <3> HIDE DEF S
    <3>3. Cardinality(S) = 0 \/ Cardinality(S) = 1
      BY <3>2, FS_EmptySet, FS_Singleton
    <3> QED
      BY <3>3 DEF S
  <2> QED
    BY <2>1, <2>2
<1>2. Init => Claimed
  BY ClaimedInit
<1>3. Sound /\ Claimed /\ [Next]_vars => Claimed'
  BY ClaimedNext
<1> QED
  BY <1>1, <1>2, <1>3, SoundHolds, PTL DEF Spec
-----------------------------------------------------------------------------
(***************************************************************************)
(* What the months before a due date owe to the jobs.                       *)
(***************************************************************************)
\* Nobody has moved the row's due date or frequency from outside.
Untouched(s) == why[s] \cap {"replay", "frequency", "rescheduled"} = {}
\* Nothing has happened to the row but, perhaps, a late job.
Quiet(s) == why[s] \ {"late"} = {}
\* A job has reported the row and not yet moved its due date.
Done(s) == \E p \in Procs : job[p].pc = "processed" /\ job[p].cur = s

Listed(p, s) == s \in Pending(p) => ~Fresh(s) /\ job[p].due[s].status = "active"
Shared(p, q, s) ==
    p # q /\ s \in Pending(p) /\ s \in Pending(q) => "two jobs" \in why[s]
\* What a job has read of the row still stands, or the job it shares the row with
\* has moved the due date to where this one will.
Same(p, s) ==
    s \in Pending(p) /\ Untouched(s) =>
        /\ row[s].freq = job[p].due[s].freq
        /\ \/ row[s].next = job[p].due[s].next
           \/ "two jobs" \in why[s] /\ row[s].next = NextDelivery(job[p].due[s], now)
Asked(p) ==
    job[p].pc \in {"requested", "processed"} =>
        \A m \in InHand(p) : fate[job[p].cur][m] # "none"
Gapless(s) ==
    ~Fresh(s) =>
        \/ why[s] \cap {"late", "replay", "frequency", "rescheduled"} # {}
        \/ \A m \in origin[s].in .. row[s].next - interval(row[s].freq) - 1 : fate[s][m] # "none"
Answered(s) ==
    \A m \in Covered : fate[s][m] = "processing" =>
        \/ \E p \in Procs : job[p].pc = "requested" /\ job[p].cur = s /\ m \in InHand(p)
        \/ "cut off" \in why[s]
Once(s) ==
    /\ Fresh(s) => mailed[s] = {}
    /\ Quiet(s) => again[s] = {}
    /\ Quiet(s) /\ ~Fresh(s) => \A m \in mailed[s] :
          m < row[s].next /\ (m < row[s].next - interval(row[s].freq) \/ Done(s))

Swept ==
    /\ \A p \in Procs, s \in Subs : Listed(p, s) /\ Same(p, s)
    /\ \A p, q \in Procs, s \in Subs : Shared(p, q, s)
    /\ \A p \in Procs : Asked(p)
    /\ \A s \in Subs : Gapless(s) /\ Answered(s) /\ Once(s)

LEMMA QuietRow ==
    ASSUME NEW s \in Subs, Quiet(s)
    PROVE  Untouched(s) /\ "two jobs" \notin why[s]
<1>1. \A c : c \in why[s] => c = "late"
  BY DEF Quiet
<1> QED
  BY <1>1 DEF Untouched

LEMMA SweptInit == Init => Swept
<1> SUFFICES ASSUME Init PROVE Swept
  OBVIOUS
<1>1. /\ \A p \in Procs : job[p] = NoJob
      /\ \A s \in Subs : row[s] = NoRow /\ mailed[s] = {} /\ again[s] = {}
      /\ \A s \in Subs : \A m \in Covered : fate[s][m] = "none"
  BY DEF Init
<1>2. \A p \in Procs : Pending(p) = {} /\ job[p].pc = "idle"
  BY <1>1, Nothing DEF Pending, Running
<1>3. \A s \in Subs : Fresh(s)
  BY <1>1, Nothing DEF Fresh
<1> QED
  BY <1>1, <1>2, <1>3
     DEF Swept, Listed, Same, Shared, Asked, Gapless, Answered, Once

LEMMA SweepTypes ==
    ASSUME Sound
    PROVE  /\ row \in [Subs -> RowStates] /\ job \in [Procs -> JobStates] /\ now \in Months
           /\ origin \in [Subs -> [by : Invites \cup Checkouts \cup {Nobody}, in : Months]]
           /\ fate \in [Subs -> [Covered -> Fates]]
           /\ mailed \in [Subs -> SUBSET Covered] /\ again \in [Subs -> SUBSET Covered]
           /\ why \in [Subs -> SUBSET Causes]
BY Parts DEF ContractTyped, JobTyped, ReportsTyped, RestTyped

\* Steps that leave the jobs and their reports alone: whoever changes due date or
\* frequency of a row is on record.
LEMMA SweptTouched ==
    ASSUME Sound, Swept, UNCHANGED <<now, origin, job, fate, mailed, again>>,
           \A t \in Subs : why[t] \subseteq why'[t] /\ Fresh(t)' = Fresh(t),
           \A t \in Subs : Untouched(t)' =>
               row'[t].freq = row[t].freq /\ row'[t].next = row[t].next
    PROVE  Swept'
<1>1. \A p \in Procs : Pending(p)' = Pending(p) /\ InHand(p)' = InHand(p)
  BY DEF Pending, Running, InHand
<1>2. \A s \in Subs : Done(s)' = Done(s)
  BY DEF Done
<1>3. \A s \in Subs : (Untouched(s)' => Untouched(s)) /\ (Quiet(s)' => Quiet(s) /\ Untouched(s)')
  BY DEF Untouched, Quiet
<1>4. ASSUME NEW p \in Procs, NEW s \in Subs PROVE Listed(p, s)' /\ Same(p, s)'
  <2>1. Listed(p, s) /\ Same(p, s)
    BY DEF Swept
  <2> QED
    BY <1>1, <1>3, <2>1 DEF Listed, Same
<1>5. ASSUME NEW p \in Procs, NEW q \in Procs, NEW s \in Subs PROVE Shared(p, q, s)'
  <2>1. Shared(p, q, s)
    BY DEF Swept
  <2> QED
    BY <1>1, <2>1 DEF Shared
<1>6. ASSUME NEW p \in Procs PROVE Asked(p)'
  <2>1. Asked(p)
    BY DEF Swept
  <2> QED
    BY <1>1, <2>1 DEF Asked
<1>7. ASSUME NEW s \in Subs PROVE Gapless(s)'
  <2>1. Gapless(s)
    BY DEF Swept
  <2>2. ~Untouched(s)' => why'[s] \cap {"late", "replay", "frequency", "rescheduled"} # {}
    BY DEF Untouched
  <2> QED
    BY <2>1, <2>2 DEF Gapless
<1>8. ASSUME NEW s \in Subs PROVE Answered(s)'
  <2>1. Answered(s)
    BY DEF Swept
  <2> QED
    BY <1>1, <2>1 DEF Answered
<1>9. ASSUME NEW s \in Subs PROVE Once(s)'
  <2>1. Once(s)
    BY DEF Swept
  <2> QED
    BY <1>2, <1>3, <2>1 DEF Once
<1> QED
  BY <1>4, <1>5, <1>6, <1>7, <1>8, <1>9 DEF Swept

\* A row is written: it is in no job's hands, and no month lies behind it.
LEMMA SweptWritten ==
    ASSUME Sound, Swept, NEW r \in Subs, Fresh(r),
           UNCHANGED <<now, job, fate, mailed, again, why>>,
           row' = [row EXCEPT ![r] = Written(r)],
           origin'[r].in = now, \A t \in Subs \ {r} : origin'[t] = origin[t]
    PROVE  Swept'
<1>t. /\ row \in [Subs -> RowStates] /\ now \in Months /\ Sold[r] \in Freqs
  BY SweepTypes, ConstantsOK DEF Freqs
<1>1. \A p \in Procs : Pending(p)' = Pending(p) /\ InHand(p)' = InHand(p)
  BY DEF Pending, Running, InHand
<1>2. \A s \in Subs : Done(s)' = Done(s) /\ Untouched(s)' = Untouched(s) /\ Quiet(s)' = Quiet(s)
  BY DEF Done, Untouched, Quiet
<1>3. /\ row'[r] = Written(r) /\ \A t \in Subs \ {r} : row'[t] = row[t]
      /\ row'[r].next = now + interval(Sold[r]) /\ row'[r].freq = Sold[r]
      /\ row'[r].status = "active" /\ ~Fresh(r)'
  BY <1>t DEF Written, Fresh
<1>4. \A p \in Procs : r \notin Pending(p)
  BY DEF Swept, Listed
<1>5. \A p \in Procs, s \in Subs : Listed(p, s)' /\ Same(p, s)'
  <2> SUFFICES ASSUME NEW p \in Procs, NEW s \in Subs PROVE Listed(p, s)' /\ Same(p, s)'
    OBVIOUS
  <2>1. Listed(p, s) /\ Same(p, s)
    BY DEF Swept
  <2>2. CASE s = r
    BY <1>1, <1>4, <2>2 DEF Listed, Same
  <2>3. CASE s # r
    BY <1>1, <1>2, <1>3, <2>1, <2>3 DEF Listed, Same, Fresh
  <2> QED
    BY <2>2, <2>3
<1>6. \A p, q \in Procs, s \in Subs : Shared(p, q, s)'
  BY <1>1 DEF Swept, Shared
<1>7. \A p \in Procs : Asked(p)'
  BY <1>1 DEF Swept, Asked
<1>8. ASSUME NEW s \in Subs PROVE Gapless(s)' /\ Answered(s)' /\ Once(s)'
  <2>1. Gapless(s) /\ Answered(s) /\ Once(s)
    BY DEF Swept
  <2>2. Answered(s)'
    BY <1>1, <2>1 DEF Answered
  <2>3. CASE s = r
    <3>1. now \in Int /\ interval(Sold[r]) \in Int
      BY <1>t, Bounds DEF Months, interval
    <3>2. \A m \in origin'[r].in .. row'[r].next - interval(row'[r].freq) - 1 : FALSE
      BY <1>3, <3>1
    <3>3. Gapless(s)'
      BY <2>3, <3>2 DEF Gapless
    <3>4. Once(s)'
      BY <1>2, <1>3, <2>1, <2>3 DEF Once
    <3> QED
      BY <2>2, <3>3, <3>4
  <2>4. CASE s # r
    <3>1. row'[s] = row[s] /\ origin'[s] = origin[s] /\ Fresh(s)' = Fresh(s)
      BY <1>3, <2>4 DEF Fresh
    <3>2. Gapless(s)'
      BY <2>1, <3>1 DEF Gapless
    <3>3. Once(s)'
      BY <1>2, <2>1, <3>1 DEF Once
    <3> QED
      BY <2>2, <3>2, <3>3
  <2> QED
    BY <2>3, <2>4
<1> QED
  BY <1>5, <1>6, <1>7, <1>8 DEF Swept

\* Time passes while no job runs.
LEMMA SweptTick == ASSUME Sound, Swept, Tick PROVE Swept'
<1>1. /\ \A p \in Procs : ~Running(p)
      /\ UNCHANGED <<row, origin, job, fate, mailed, again, why>>
  BY DEF Tick, contract, schedule, reports
<1>2. \A p \in Procs : Pending(p)' = {} /\ InHand(p)' = InHand(p)
  BY <1>1 DEF Pending, Running, InHand
<1>3. \A s \in Subs : Done(s)' = Done(s) /\ Quiet(s)' = Quiet(s) /\ Fresh(s)' = Fresh(s)
  BY <1>1 DEF Done, Quiet, Fresh
<1>4. /\ \A p \in Procs, s \in Subs : Listed(p, s)' /\ Same(p, s)'
      /\ \A p, q \in Procs, s \in Subs : Shared(p, q, s)'
  BY <1>2 DEF Listed, Same, Shared
<1>5. \A p \in Procs : Asked(p)'
  BY <1>1, <1>2 DEF Swept, Asked
<1>6. ASSUME NEW s \in Subs PROVE Gapless(s)' /\ Answered(s)' /\ Once(s)'
  <2>1. Gapless(s) /\ Answered(s) /\ Once(s)
    BY DEF Swept
  <2> QED
    BY <1>1, <1>2, <1>3, <2>1 DEF Gapless, Answered, Once
<1> QED
  BY <1>4, <1>5, <1>6 DEF Swept
-----------------------------------------------------------------------------
LEMMA OnlyJob ==
    ASSUME Sound, NEW p \in Procs, NEW j, job' = [job EXCEPT ![p] = j]
    PROVE  /\ job'[p] = j
           /\ Pending(p)' = IF j.pc # "idle" THEN j.left ELSE {}
           /\ InHand(p)' = Period(j.due[j.cur])
           /\ \A q \in Procs \ {p} : /\ job'[q] = job[q]
                                     /\ Pending(q)' = Pending(q) /\ InHand(q)' = InHand(q)
<1>1. job'[p] = j /\ \A q \in Procs \ {p} : job'[q] = job[q]
  BY SweepTypes
<1> QED
  BY <1>1 DEF Pending, Running, InHand

\* A job that ends where it stands is on record as cut off, if it had asked.
LEMMA SweptEnded ==
    ASSUME Sound, Swept, NEW p \in Procs, job' = [job EXCEPT ![p] = NoJob],
           UNCHANGED <<now, row, origin, fate, mailed, again>>,
           \A t \in Subs : why'[t] = why[t] \/ why'[t] = why[t] \cup {"cut off"},
           job[p].pc \in {"requested", "processed"} => "cut off" \in why'[job[p].cur]
    PROVE  Swept'
<1>1. /\ Pending(p)' = {} /\ job'[p].pc = "idle"
      /\ \A q \in Procs \ {p} : /\ job'[q] = job[q]
                                /\ Pending(q)' = Pending(q) /\ InHand(q)' = InHand(q)
  BY OnlyJob, Nothing
<1>2. \A s \in Subs : /\ Untouched(s)' = Untouched(s) /\ Fresh(s)' = Fresh(s)
                      /\ Quiet(s)' => Quiet(s) /\ "cut off" \notin why'[s]
                      /\ why[s] \subseteq why'[s]
  BY DEF Untouched, Fresh, Quiet
<1>3. ASSUME NEW q \in Procs, NEW s \in Subs PROVE Listed(q, s)' /\ Same(q, s)'
  <2>1. CASE q = p
    BY <1>1, <2>1 DEF Listed, Same
  <2>2. CASE q # p
    <3>1. Listed(q, s) /\ Same(q, s)
      BY DEF Swept
    <3> QED
      BY <1>1, <1>2, <2>2, <3>1 DEF Listed, Same
  <2> QED
    BY <2>1, <2>2
<1>4. ASSUME NEW q \in Procs, NEW u \in Procs, NEW s \in Subs PROVE Shared(q, u, s)'
  <2>1. Shared(q, u, s)
    BY DEF Swept
  <2> QED
    BY <1>1, <1>2, <2>1 DEF Shared
<1>5. ASSUME NEW q \in Procs PROVE Asked(q)'
  <2>1. Asked(q)
    BY DEF Swept
  <2> QED
    BY <1>1, <2>1 DEF Asked
<1>6. ASSUME NEW s \in Subs PROVE Gapless(s)' /\ Answered(s)' /\ Once(s)'
  <2>1. Gapless(s) /\ Answered(s) /\ Once(s)
    BY DEF Swept
  <2>2. Gapless(s)'
    BY <1>2, <2>1 DEF Gapless
  <2>3. Answered(s)'
    <3> SUFFICES ASSUME NEW m \in Covered, fate[s][m] = "processing", "cut off" \notin why'[s]
                 PROVE  \E q \in Procs : job'[q].pc = "requested" /\ job'[q].cur = s /\ m \in InHand(q)'
      BY DEF Answered
    <3>1. PICK q \in Procs : job[q].pc = "requested" /\ job[q].cur = s /\ m \in InHand(q)
      BY <1>2, <2>1 DEF Answered
    <3>2. q # p
      BY <3>1
    <3> QED
      BY <1>1, <3>1, <3>2
  <2>4. Quiet(s)' /\ Done(s) => Done(s)'
    BY <1>1, <1>2 DEF Done
  <2>5. Once(s)'
    BY <1>2, <2>1, <2>4 DEF Once
  <2> QED
    BY <2>2, <2>3, <2>5
<1> QED
  BY <1>3, <1>4, <1>5, <1>6 DEF Swept

\* A job starts: what it reads is what stands, and what it shares is on record.
LEMMA SweptStarts == ASSUME Sound, Swept, NEW p \in Procs, JobStart(p) PROVE Swept'
<1>t. /\ row \in [Subs -> RowStates] /\ why \in [Subs -> SUBSET Causes]
  BY SweepTypes
<1>1. /\ UNCHANGED <<now, row, origin, fate, mailed, again>> /\ ~Running(p)
      /\ job' = [job EXCEPT ![p] = Started]
      /\ Started.pc = "loop" /\ Started.left = {s \in Subs : Due(s)}
      /\ \A s \in Started.left : Started.due[s] = row[s]
  BY JobStarted DEF JobStart, contract, reports
<1>2. /\ Pending(p)' = {s \in Subs : Due(s)} /\ job'[p].pc = "loop" /\ job[p].pc = "idle"
      /\ \A s \in Pending(p)' : job'[p].due[s] = row[s]
      /\ \A q \in Procs \ {p} : /\ job'[q] = job[q]
                                /\ Pending(q)' = Pending(q) /\ InHand(q)' = InHand(q)
  BY <1>1, OnlyJob DEF Running
<1>3. \A s \in Subs : /\ why'[s] = why[s] \/ why'[s] = why[s] \cup {"two jobs"}
                      /\ Due(s) /\ (\E q \in Procs \ {p} : s \in Pending(q)) => "two jobs" \in why'[s]
  <2>1. why' = [s \in Subs |->
                   IF s \in {t \in Subs : Due(t)} \cap UNION {Pending(q) : q \in Procs \ {p}}
                     THEN why[s] \cup {"two jobs"} ELSE why[s]]
    BY DEF JobStart
  <2> QED
    BY <2>1
<1>4. \A s \in Subs : /\ Untouched(s)' = Untouched(s) /\ Fresh(s)' = Fresh(s)
                      /\ Quiet(s)' => Quiet(s)
                      /\ why[s] \subseteq why'[s]
  BY <1>1, <1>3 DEF Untouched, Fresh, Quiet
<1>5. ASSUME NEW q \in Procs, NEW s \in Subs PROVE Listed(q, s)' /\ Same(q, s)'
  <2>1. CASE q = p
    BY <1>1, <1>2, <2>1 DEF Listed, Same, Due, Fresh
  <2>2. CASE q # p
    <3>1. Listed(q, s) /\ Same(q, s)
      BY DEF Swept
    <3> QED
      BY <1>1, <1>2, <1>4, <2>2, <3>1 DEF Listed, Same
  <2> QED
    BY <2>1, <2>2
<1>6. ASSUME NEW q \in Procs, NEW u \in Procs, NEW s \in Subs PROVE Shared(q, u, s)'
  <2>1. Shared(q, u, s)
    BY DEF Swept
  <2>2. CASE q # p /\ u # p
    BY <1>2, <1>4, <2>1, <2>2 DEF Shared
  <2>3. CASE q = p /\ u # p
    <3>1. s \in Pending(p)' /\ s \in Pending(u)' => "two jobs" \in why'[s]
      <4>1. s \in Pending(p)' => Due(s)
        BY <1>2
      <4>2. Pending(u)' = Pending(u) /\ u \in Procs \ {p}
        BY <1>2, <2>3
      <4>3. s \in Pending(u)' => \E v \in Procs \ {p} : s \in Pending(v)
        BY <4>2
      <4> QED
        BY <1>3, <4>1, <4>3
    <3> QED
      BY <2>3, <3>1 DEF Shared
  <2>4. CASE u = p /\ q # p
    <3>1. s \in Pending(p)' /\ s \in Pending(q)' => "two jobs" \in why'[s]
      <4>1. s \in Pending(p)' => Due(s)
        BY <1>2
      <4>2. Pending(q)' = Pending(q) /\ q \in Procs \ {p}
        BY <1>2, <2>4
      <4>3. s \in Pending(q)' => \E v \in Procs \ {p} : s \in Pending(v)
        BY <4>2
      <4> QED
        BY <1>3, <4>1, <4>3
    <3> QED
      BY <2>4, <3>1 DEF Shared
  <2>5. CASE q = p /\ u = p
    BY <2>5 DEF Shared
  <2> QED
    BY <2>2, <2>3, <2>4, <2>5
<1>7. ASSUME NEW q \in Procs PROVE Asked(q)'
  <2>1. Asked(q)
    BY DEF Swept
  <2> QED
    BY <1>1, <1>2, <2>1 DEF Asked
<1>8. ASSUME NEW s \in Subs PROVE Gapless(s)' /\ Answered(s)' /\ Once(s)'
  <2>1. Gapless(s) /\ Answered(s) /\ Once(s)
    BY DEF Swept
  <2>2. Gapless(s)'
    BY <1>1, <1>4, <2>1 DEF Gapless
  <2>3. Answered(s)'
    <3> SUFFICES ASSUME NEW m \in Covered, fate[s][m] = "processing", "cut off" \notin why'[s]
                 PROVE  \E q \in Procs : job'[q].pc = "requested" /\ job'[q].cur = s /\ m \in InHand(q)'
      BY <1>1 DEF Answered
    <3>1. PICK q \in Procs : job[q].pc = "requested" /\ job[q].cur = s /\ m \in InHand(q)
      BY <1>4, <2>1 DEF Answered
    <3>2. q # p
      BY <1>2, <3>1
    <3> QED
      BY <1>2, <3>1, <3>2
  <2>4. Done(s) => Done(s)'
    BY <1>2 DEF Done
  <2>5. Once(s)'
    BY <1>1, <1>4, <2>1, <2>4 DEF Once
  <2> QED
    BY <2>2, <2>3, <2>5
<1> QED
  BY <1>5, <1>6, <1>7, <1>8 DEF Swept

\* The months that lie behind a due date are all recorded.
LEMMA Behind ==
    ASSUME Sound, NEW s \in Subs
    PROVE  origin[s].in .. row[s].next - interval(row[s].freq) - 1 \subseteq Covered
<1>1. /\ row[s].next \in 0 .. LastMonth + 3 /\ interval(row[s].freq) \in 1 .. 3
      /\ origin[s].in \in 0 .. LastMonth /\ LastMonth \in Nat
  BY SweepTypes, Bounds DEF RowStates, DueMonths, Months, interval
<1> QED
  BY <1>1 DEF Covered

\* A row is passed over: it leaves the list, and nothing else moves.
LEMMA SweptSkips ==
    ASSUME Sound, Swept, NEW p \in Procs, NEW s \in Subs, Skip(p, s) PROVE Swept'
<1>t. job \in [Procs -> JobStates]
  BY SweepTypes
<1>1. /\ UNCHANGED <<now, row, origin, fate, mailed, again, why>>
      /\ job[p].pc = "loop" /\ job' = [job EXCEPT ![p].left = @ \ {s}]
  BY DEF Skip, contract, reports
<1> DEFINE j == [job[p] EXCEPT !.left = @ \ {s}]
<1>2. j.pc = "loop" /\ j.left \subseteq job[p].left /\ j.due = job[p].due /\ job' = [job EXCEPT ![p] = j]
  BY <1>t, <1>1 DEF JobStates
<1> HIDE DEF j
<1>3. /\ job'[p].pc = "loop"
      /\ \A q \in Procs : Pending(q)' \subseteq Pending(q) /\ job'[q].due = job[q].due
      /\ \A q \in Procs \ {p} : job'[q] = job[q] /\ InHand(q)' = InHand(q)
  <2>1. /\ job'[p] = j /\ Pending(p)' = j.left
        /\ \A q \in Procs \ {p} : /\ job'[q] = job[q]
                                  /\ Pending(q)' = Pending(q) /\ InHand(q)' = InHand(q)
    BY <1>2, OnlyJob
  <2>2. Pending(p) = job[p].left
    BY <1>1 DEF Pending, Running
  <2> QED
    BY <1>2, <2>1, <2>2
<1>4. \A t \in Subs : /\ Untouched(t)' = Untouched(t) /\ Fresh(t)' = Fresh(t)
                      /\ Quiet(t)' = Quiet(t)
  BY <1>1 DEF Untouched, Fresh, Quiet
<1>5. ASSUME NEW q \in Procs, NEW t \in Subs PROVE Listed(q, t)' /\ Same(q, t)'
  <2>1. Listed(q, t) /\ Same(q, t)
    BY DEF Swept
  <2>2. Pending(q)' \subseteq Pending(q) /\ job'[q].due = job[q].due
    BY <1>3
  <2> QED
    BY <1>1, <1>4, <2>1, <2>2 DEF Listed, Same
<1>6. \A q, u \in Procs, t \in Subs : Shared(q, u, t)'
  BY <1>1, <1>3 DEF Swept, Shared
<1>7. \A q \in Procs : Asked(q)'
  BY <1>1, <1>3 DEF Swept, Asked
<1>8. ASSUME NEW t \in Subs PROVE Gapless(t)' /\ Answered(t)' /\ Once(t)'
  <2>1. Gapless(t) /\ Answered(t) /\ Once(t)
    BY DEF Swept
  <2>2. Gapless(t)'
    BY <1>1, <1>4, <2>1 DEF Gapless
  <2>3. Answered(t)'
    <3> SUFFICES ASSUME NEW m \in Covered, fate[t][m] = "processing", "cut off" \notin why[t]
                 PROVE  \E q \in Procs : job'[q].pc = "requested" /\ job'[q].cur = t /\ m \in InHand(q)'
      BY <1>1 DEF Answered
    <3>1. PICK q \in Procs : job[q].pc = "requested" /\ job[q].cur = t /\ m \in InHand(q)
      BY <2>1 DEF Answered
    <3>2. q # p
      BY <1>1, <3>1
    <3> QED
      BY <1>3, <3>1, <3>2
  <2>4. Done(t) => Done(t)'
    BY <1>1, <1>3 DEF Done
  <2>5. Once(t)'
    BY <1>1, <1>4, <2>1, <2>4 DEF Once
  <2> QED
    BY <2>2, <2>3, <2>5
<1> QED
  BY <1>5, <1>6, <1>7, <1>8 DEF Swept

\* A request is made: the months of the row in hand are on record.
LEMMA SweptAsks ==
    ASSUME Sound, Swept, NEW p \in Procs, NEW s \in Subs, CreateRequest(p, s) PROVE Swept'
<1>t. job \in [Procs -> JobStates] /\ fate \in [Subs -> [Covered -> Fates]]
  BY SweepTypes
<1>1. /\ UNCHANGED <<now, row, origin, mailed, again, why>>
      /\ job[p].pc = "loop" /\ s \in job[p].left /\ Running(p)
      /\ SetFate(s, Period(job[p].due[s]), "processing")
      /\ job' = [job EXCEPT ![p].pc = "requested", ![p].cur = s, ![p].open = allowed(s)]
  BY DEF CreateRequest, contract, Running
<1> DEFINE j == [job[p] EXCEPT !.pc = "requested", !.cur = s, !.open = allowed(s)]
<1>2. j.pc = "requested" /\ j.cur = s /\ j.left = job[p].left /\ j.due = job[p].due
  BY <1>t DEF JobStates
<1>3. job' = [job EXCEPT ![p] = j]
  BY <1>t, <1>1
<1> HIDE DEF j
<1>4. /\ \A q \in Procs : Pending(q)' = Pending(q) /\ job'[q].due = job[q].due
      /\ job'[p].pc = "requested" /\ job'[p].cur = s /\ InHand(p)' = Period(job[p].due[s])
      /\ \A q \in Procs \ {p} : job'[q] = job[q] /\ InHand(q)' = InHand(q)
  <2>1. /\ job'[p] = j /\ Pending(p)' = j.left /\ InHand(p)' = Period(j.due[j.cur])
        /\ \A q \in Procs \ {p} : /\ job'[q] = job[q]
                                  /\ Pending(q)' = Pending(q) /\ InHand(q)' = InHand(q)
    BY <1>2, <1>3, OnlyJob
  <2>2. Pending(p) = job[p].left
    BY <1>1 DEF Pending
  <2> QED
    BY <1>2, <2>1, <2>2
<1>5. \A t \in Subs : /\ Untouched(t)' = Untouched(t) /\ Fresh(t)' = Fresh(t)
                      /\ Quiet(t)' = Quiet(t)
  BY <1>1 DEF Untouched, Fresh, Quiet
<1>6. /\ Period(job[p].due[s]) \subseteq Covered
      /\ \A t \in Subs, m \in Covered :
            fate'[t][m] = IF t = s /\ m \in Period(job[p].due[s]) THEN "processing" ELSE fate[t][m]
  BY <1>1, InHandBefore, Parts, FateTyped DEF Fates
<1>7. ASSUME NEW q \in Procs, NEW t \in Subs PROVE Listed(q, t)' /\ Same(q, t)'
  <2>1. Listed(q, t) /\ Same(q, t)
    BY DEF Swept
  <2>2. Pending(q)' = Pending(q) /\ job'[q].due = job[q].due
    BY <1>4
  <2> QED
    BY <1>1, <1>5, <2>1, <2>2 DEF Listed, Same
<1>8. \A q, u \in Procs, t \in Subs : Shared(q, u, t)'
  BY <1>1, <1>4 DEF Swept, Shared
<1>9. ASSUME NEW q \in Procs PROVE Asked(q)'
  <2>1. CASE q = p
    BY <1>4, <1>6, <2>1 DEF Asked
  <2>2. CASE q # p
    <3> SUFFICES ASSUME job'[q].pc \in {"requested", "processed"}, NEW m \in InHand(q)'
                 PROVE  fate'[job'[q].cur][m] # "none"
      BY DEF Asked
    <3>1. job[q].pc \in {"requested", "processed"} /\ m \in InHand(q) /\ job'[q].cur = job[q].cur
      BY <1>4, <2>2
    <3>2. m \in Covered /\ job[q].cur \in Subs /\ fate[job[q].cur][m] # "none"
      BY <3>1, InHandKnown DEF Swept, Asked
    <3> QED
      BY <1>6, <3>1, <3>2
  <2> QED
    BY <2>1, <2>2
<1>10. ASSUME NEW t \in Subs PROVE Gapless(t)' /\ Answered(t)' /\ Once(t)'
  <2>1. Gapless(t) /\ Answered(t) /\ Once(t)
    BY DEF Swept
  <2>2. Gapless(t)'
    BY <1>1, <1>5, <1>6, <2>1, Behind DEF Gapless
  <2>3. Answered(t)'
    <3> SUFFICES ASSUME NEW m \in Covered, fate'[t][m] = "processing", "cut off" \notin why[t]
                 PROVE  \E q \in Procs : job'[q].pc = "requested" /\ job'[q].cur = t /\ m \in InHand(q)'
      BY <1>1 DEF Answered
    <3>1. CASE t = s /\ m \in Period(job[p].due[s])
      BY <1>4, <3>1
    <3>2. CASE ~(t = s /\ m \in Period(job[p].due[s]))
      <4>1. PICK q \in Procs : job[q].pc = "requested" /\ job[q].cur = t /\ m \in InHand(q)
        BY <1>6, <2>1, <3>2 DEF Answered
      <4>2. q # p
        BY <1>1, <4>1
      <4> QED
        BY <1>4, <4>1, <4>2
    <3> QED
      BY <3>1, <3>2
  <2>4. Done(t) => Done(t)'
    BY <1>1, <1>4 DEF Done
  <2>5. Once(t)'
    BY <1>1, <1>5, <2>1, <2>4 DEF Once
  <2> QED
    BY <2>2, <2>3, <2>5
<1> QED
  BY <1>7, <1>8, <1>9, <1>10 DEF Swept

\* A request is settled, with or without a mail. With nothing on record against
\* the row, what is mailed lies behind everything mailed before.
LEMMA SweptSettles ==
    ASSUME Sound, Swept, NEW p \in Procs, Deliver(p) \/ Hold(p) \/ Fail(p) PROVE Swept'
<1>t. /\ job \in [Procs -> JobStates] /\ fate \in [Subs -> [Covered -> Fates]]
      /\ mailed \in [Subs -> SUBSET Covered] /\ again \in [Subs -> SUBSET Covered]
      /\ row \in [Subs -> RowStates]
  BY SweepTypes
<1>p. job[p].pc \in {"requested", "processed"}
  BY DEF Deliver, Hold, Fail
<1>s. PICK s \in Subs : s = job[p].cur
  BY <1>p, InHandKnown
<1> DEFINE due == job[p].due[s]
           j == [job[p] EXCEPT !.pc = "processed"]
<1>1. /\ UNCHANGED <<now, row, origin, why>>
      /\ job[p].pc = "requested" /\ Running(p)
      /\ SetFate(s, InHand(p), "settled")
      /\ job' = [job EXCEPT ![p].pc = "processed"]
      /\ Mail(p) \/ UNCHANGED <<mailed, again>>
  BY <1>s DEF Deliver, Hold, Fail, Settle, contract, Running
<1>2. /\ s \in job[p].left /\ s \in Subs /\ InHand(p) \subseteq Covered
      /\ s \in Pending(p)
  BY <1>1, <1>s, InHandKnown DEF Pending
<1>3. /\ j.pc = "processed" /\ j.cur = s /\ j.left = job[p].left /\ j.due = job[p].due
      /\ job' = [job EXCEPT ![p] = j]
  BY <1>t, <1>s, <1>1 DEF JobStates
<1> HIDE DEF j
<1>4. /\ \A q \in Procs : /\ Pending(q)' = Pending(q) /\ job'[q].due = job[q].due
                          /\ InHand(q)' = InHand(q) /\ job'[q].cur = job[q].cur
      /\ job'[p].pc = "processed" /\ job'[p].cur = s
      /\ \A q \in Procs \ {p} : job'[q] = job[q]
  <2>1. /\ job'[p] = j /\ Pending(p)' = j.left /\ InHand(p)' = Period(j.due[j.cur])
        /\ \A q \in Procs \ {p} : /\ job'[q] = job[q]
                                  /\ Pending(q)' = Pending(q) /\ InHand(q)' = InHand(q)
    BY <1>3, OnlyJob
  <2>2. Pending(p) = job[p].left /\ InHand(p) = Period(job[p].due[s])
    BY <1>s, <1>1 DEF Pending, InHand
  <2> QED
    BY <1>s, <1>3, <2>1, <2>2
<1>5. \A t \in Subs : /\ Untouched(t)' = Untouched(t) /\ Fresh(t)' = Fresh(t)
                      /\ Quiet(t)' = Quiet(t)
  BY <1>1 DEF Untouched, Fresh, Quiet
<1>6. \A t \in Subs, m \in Covered :
          fate'[t][m] = IF t = s /\ m \in InHand(p) THEN "settled" ELSE fate[t][m]
  BY <1>1, <1>2, Parts, FateTyped DEF Fates
<1>7. ASSUME NEW q \in Procs, NEW t \in Subs PROVE Listed(q, t)' /\ Same(q, t)'
  <2>1. Listed(q, t) /\ Same(q, t)
    BY DEF Swept
  <2>2. Pending(q)' = Pending(q) /\ job'[q].due = job[q].due
    BY <1>4
  <2> QED
    BY <1>1, <1>5, <2>1, <2>2 DEF Listed, Same
<1>8. \A q, u \in Procs, t \in Subs : Shared(q, u, t)'
  BY <1>1, <1>4 DEF Swept, Shared
<1>9. ASSUME NEW q \in Procs PROVE Asked(q)'
  <2> SUFFICES ASSUME job'[q].pc \in {"requested", "processed"}, NEW m \in InHand(q)
               PROVE  fate'[job[q].cur][m] # "none"
    BY <1>4 DEF Asked
  <2>1. job[q].pc \in {"requested", "processed"}
    BY <1>1, <1>4
  <2>2. m \in Covered /\ job[q].cur \in Subs /\ fate[job[q].cur][m] # "none"
    BY <2>1, InHandKnown DEF Swept, Asked
  <2> QED
    BY <1>6, <2>2
<1>10. ASSUME NEW t \in Subs PROVE Gapless(t)' /\ Answered(t)'
  <2>1. Gapless(t) /\ Answered(t)
    BY DEF Swept
  <2>2. Gapless(t)'
    BY <1>1, <1>5, <1>6, <2>1, Behind DEF Gapless
  <2>3. Answered(t)'
    <3> SUFFICES ASSUME NEW m \in Covered, fate'[t][m] = "processing", "cut off" \notin why[t]
                 PROVE  \E q \in Procs : job'[q].pc = "requested" /\ job'[q].cur = t /\ m \in InHand(q)'
      BY <1>1 DEF Answered
    <3>1. fate[t][m] = "processing" /\ ~(t = s /\ m \in InHand(p))
      BY <1>6
    <3>2. PICK q \in Procs : job[q].pc = "requested" /\ job[q].cur = t /\ m \in InHand(q)
      BY <2>1, <3>1 DEF Answered
    <3>3. q # p
      BY <1>s, <3>1, <3>2
    <3> QED
      BY <1>4, <3>2, <3>3
  <2> QED
    BY <2>2, <2>3
<1>11. ASSUME NEW t \in Subs, t # s PROVE Once(t)'
  <2>1. Once(t)
    BY DEF Swept
  <2>2. mailed'[t] = mailed[t] /\ again'[t] = again[t]
    BY <1>t, <1>s, <1>1, <1>11 DEF Mail
  <2>3. Done(t) => Done(t)'
    BY <1>1, <1>4 DEF Done
  <2> QED
    BY <1>1, <1>5, <2>1, <2>2, <2>3 DEF Once
<1>12. Once(s)'
  <2>1. Once(s) /\ Same(p, s) /\ Listed(p, s) /\ Done(s)'
    BY <1>2, <1>4 DEF Swept, Done
  <2>2. ~Fresh(s)
    BY <1>2, <2>1 DEF Listed
  <2>3. SUFFICES ASSUME Quiet(s)
                 PROVE  again'[s] = {} /\ \A m \in mailed'[s] : m < row[s].next
    <3>1. row'[s] = row[s] /\ ~Fresh(s)' /\ Quiet(s)' = Quiet(s)
      BY <1>1, <1>5, <2>2
    <3> QED
      BY <2>1, <3>1 DEF Once
  <2>4. row[s].freq = due.freq /\ row[s].next = due.next
    BY <1>2, <2>1, <2>3, QuietRow DEF Same
  <2>5. ~Done(s)
    <3> SUFFICES ASSUME NEW q \in Procs, job[q].pc = "processed", job[q].cur = s PROVE FALSE
      BY DEF Done
    <3>1. q # p /\ s \in Pending(q)
      BY <1>1, InHandKnown DEF Pending
    <3>2. "two jobs" \in why[s]
      BY <1>2, <3>1 DEF Swept, Shared
    <3> QED
      BY <2>3, <3>2, QuietRow
  <2>6. again[s] = {} /\ \A m \in mailed[s] : m < row[s].next /\ m < row[s].next - interval(row[s].freq)
    BY <2>1, <2>2, <2>3, <2>5 DEF Once
  <2>7. row[s].next \in Nat /\ interval(row[s].freq) \in 1 .. 3 /\ mailed[s] \subseteq Int
    BY <1>t, <1>2, Bounds DEF RowStates, DueMonths, interval, Covered
  <2>8. InHand(p) = (row[s].next - interval(row[s].freq)) .. (row[s].next - 1)
    BY <1>s, <2>4 DEF InHand, Period
  <2>9. InHand(p) \cap mailed[s] = {} /\ \A m \in InHand(p) : m < row[s].next
    BY <2>6, <2>7, <2>8
  <2>10. CASE UNCHANGED <<mailed, again>>
    BY <2>6, <2>10
  <2>11. CASE Mail(p)
    <3>1. /\ again'[s] = again[s] \cup (InHand(p) \cap mailed[s])
          /\ mailed'[s] = mailed[s] \cup InHand(p)
      BY <1>t, <1>s, <1>2, <2>11 DEF Mail
    <3> QED
      BY <2>6, <2>9, <3>1
  <2> QED
    BY <1>1, <2>10, <2>11
<1>13. \A t \in Subs : Once(t)'
  BY <1>11, <1>12
<1> QED
  BY <1>7, <1>8, <1>9, <1>10, <1>13 DEF Swept

\* The due date moves on: everything behind the new one has been asked for.
LEMMA SweptAdvances == ASSUME Sound, Swept, NEW p \in Procs, Advance(p) PROVE Swept'
<1>t. /\ job \in [Procs -> JobStates] /\ row \in [Subs -> RowStates]
      /\ mailed \in [Subs -> SUBSET Covered] /\ why \in [Subs -> SUBSET Causes]
      /\ origin \in [Subs -> [by : Invites \cup Checkouts \cup {Nobody}, in : Months]]
  BY SweepTypes
<1>p. job[p].pc \in {"requested", "processed"}
  BY DEF Advance
<1>c. PICK s \in Subs : s = job[p].cur
  BY <1>p, InHandKnown
<1> DEFINE due == job[p].due[s]
           nxt == NextDelivery(due, job[p].at)
           k == interval(due.freq)
           j == [job[p] EXCEPT !.pc = "loop", !.left = @ \ {s}, !.cur = Nobody, !.open = {}]
<1>1. /\ UNCHANGED <<now, origin, fate, mailed, again>>
      /\ job[p].pc = "processed" /\ Running(p)
      /\ row' = [row EXCEPT ![s].next = nxt]
      /\ job' = [job EXCEPT ![p].pc = "loop", ![p].left = @ \ {s}, ![p].cur = Nobody,
                            ![p].open = {}]
      /\ IF nxt > due.next + k THEN Excuse(s, "late") ELSE UNCHANGED why
  BY <1>c DEF Advance, reports, Running
<1>2. s \in job[p].left /\ s \in Subs /\ s \in Pending(p)
  BY <1>1, <1>c, InHandKnown DEF Pending
<1>3. due \in RowStates /\ due.next <= now /\ job[p].at = now /\ now \in Months
  BY <1>1, <1>2, InHandBefore
<1>4. nxt = NextDelivery(due, now) /\ nxt \in DueMonths /\ nxt > now /\ nxt >= due.next + k
  BY <1>3, NextDueDate
<1>5. /\ due.next \in Nat /\ nxt \in Nat /\ k \in 1 .. 3 /\ now \in Nat
  BY <1>3, <1>4, Bounds DEF RowStates, DueMonths, Months, interval
<1>6. j.pc = "loop" /\ j.left = job[p].left \ {s} /\ j.due = job[p].due /\ job' = [job EXCEPT ![p] = j]
  BY <1>t, <1>1 DEF JobStates
<1>7. /\ row'[s].next = nxt /\ row'[s].freq = row[s].freq
      /\ \A t \in Subs \ {s} : row'[t] = row[t]
      /\ \A t \in Subs : Fresh(t)' = Fresh(t)
  BY <1>t, <1>1, <1>2 DEF RowStates, Fresh
<1>8. \A t \in Subs : /\ why'[t] = why[t] \/ (t = s /\ why'[t] = why[t] \cup {"late"})
                      /\ Untouched(t)' = Untouched(t) /\ Quiet(t)' = Quiet(t)
                      /\ why[t] \subseteq why'[t]
  BY <1>t, <1>1, <1>2 DEF Excuse, Untouched, Quiet
<1> HIDE DEF j, nxt, due, k
<1>9. /\ Pending(p)' = Pending(p) \ {s} /\ job'[p].pc = "loop" /\ job'[p].due = job[p].due
      /\ \A q \in Procs \ {p} : /\ job'[q] = job[q]
                                /\ Pending(q)' = Pending(q) /\ InHand(q)' = InHand(q)
  <2>1. /\ job'[p] = j /\ Pending(p)' = j.left
        /\ \A q \in Procs \ {p} : /\ job'[q] = job[q]
                                  /\ Pending(q)' = Pending(q) /\ InHand(q)' = InHand(q)
    BY <1>6, OnlyJob
  <2>2. Pending(p) = job[p].left
    BY <1>1 DEF Pending
  <2> QED
    BY <1>6, <2>1, <2>2
<1>10. ASSUME NEW q \in Procs, NEW t \in Subs PROVE Listed(q, t)'
  <2>1. Listed(q, t)
    BY DEF Swept
  <2>2. t \in Pending(q)' => t \in Pending(q) /\ job'[q].due = job[q].due
    BY <1>9
  <2> QED
    BY <1>7, <2>1, <2>2 DEF Listed
<1>s. Same(p, s) /\ Listed(p, s)
  BY <1>2 DEF Swept
<1>11. ASSUME NEW q \in Procs, NEW t \in Subs PROVE Same(q, t)'
  <2> SUFFICES ASSUME t \in Pending(q)', Untouched(t)'
               PROVE  /\ row'[t].freq = job'[q].due[t].freq
                      /\ \/ row'[t].next = job'[q].due[t].next
                         \/ "two jobs" \in why'[t]
                            /\ row'[t].next = NextDelivery(job'[q].due[t], now)
    BY <1>1 DEF Same
  <2>1. /\ t \in Pending(q) /\ Untouched(t) /\ job'[q].due = job[q].due
        /\ Same(q, t) /\ Listed(q, t) /\ (t = s => q # p)
    BY <1>8, <1>9 DEF Swept
  <2>2. /\ row[t].freq = job[q].due[t].freq
        /\ \/ row[t].next = job[q].due[t].next
           \/ "two jobs" \in why[t] /\ row[t].next = NextDelivery(job[q].due[t], now)
    BY <2>1 DEF Same
  <2>3. CASE t # s
    BY <1>7, <1>8, <2>1, <2>2, <2>3
  <2>4. CASE t = s
    <3>1. "two jobs" \in why[s] /\ "two jobs" \in why'[s]
      BY <1>2, <1>8, <2>1, <2>4 DEF Swept, Shared
    <3>2. /\ row[s].freq = due.freq
          /\ row[s].next = due.next \/ row[s].next = nxt
      BY <1>2, <1>s, <1>4, <2>1, <2>4 DEF Same, due
    <3>o. PICK other : other = job[q].due[s]
      OBVIOUS
    <3>3. other \in RowStates /\ other.next <= now
      <4>1. Running(q) /\ s \in job[q].left
        BY <2>1, <2>4 DEF Pending
      <4> QED
        BY <3>o, <4>1, InHandBefore
    <3>4. NextDelivery(other, now) > now
      BY <1>3, <3>3, NextDueDate
    <3>5. due.status = "active" /\ other.status = "active"
      BY <1>2, <1>s, <2>1, <2>4, <3>o DEF Listed, due
    <3>6. row'[s].freq = other.freq
      BY <1>7, <2>2, <2>4, <3>o
    <3>p. row[s].next = other.next \/ row[s].next = NextDelivery(other, now)
      BY <2>2, <2>4, <3>o
    <3>7. row'[s].next = NextDelivery(other, now)
      <4>1. CASE row[s].next = due.next
        <5>1. row[s].next = other.next
          BY <1>3, <1>5, <3>p, <3>3, <3>4, <4>1
        <5>2. other = due
          <6>1. other.freq = due.freq /\ other.next = due.next /\ other.status = due.status
            BY <1>7, <3>2, <3>5, <3>6, <4>1, <5>1
          <6> QED
            BY <1>3, <3>3, <6>1 DEF RowStates
        <5> QED
          BY <1>4, <1>7, <5>2
      <4>2. CASE row[s].next = nxt
        <5>1. row[s].next # other.next
          <6>1. other.next \in Nat
            BY <3>3, Bounds DEF RowStates, DueMonths
          <6> QED
            BY <1>4, <1>5, <3>3, <4>2, <6>1
        <5> QED
          BY <1>7, <3>p, <4>2, <5>1
      <4> QED
        BY <3>2, <4>1, <4>2
    <3> QED
      BY <2>1, <2>4, <3>o, <3>1, <3>6, <3>7
  <2> QED
    BY <2>3, <2>4
<1>12. ASSUME NEW q \in Procs, NEW u \in Procs, NEW t \in Subs PROVE Shared(q, u, t)'
  <2>1. Shared(q, u, t)
    BY DEF Swept
  <2>2. (t \in Pending(q)' => t \in Pending(q)) /\ (t \in Pending(u)' => t \in Pending(u))
    BY <1>9
  <2> QED
    BY <1>8, <2>1, <2>2 DEF Shared
<1>13. ASSUME NEW q \in Procs PROVE Asked(q)'
  <2>1. Asked(q)
    BY DEF Swept
  <2> QED
    BY <1>1, <1>9, <2>1 DEF Asked
<1>14. ASSUME NEW t \in Subs PROVE Answered(t)'
  <2> SUFFICES ASSUME NEW m \in Covered, fate[t][m] = "processing", "cut off" \notin why'[t]
               PROVE  \E q \in Procs : job'[q].pc = "requested" /\ job'[q].cur = t /\ m \in InHand(q)'
    BY <1>1 DEF Answered
  <2>1. PICK q \in Procs : job[q].pc = "requested" /\ job[q].cur = t /\ m \in InHand(q)
    BY <1>8 DEF Swept, Answered
  <2>2. q # p
    BY <1>1, <2>1
  <2> QED
    BY <1>9, <2>1, <2>2
<1>15. ASSUME NEW t \in Subs PROVE Gapless(t)'
  <2>1. Gapless(t)
    BY DEF Swept
  <2>2. CASE t # s
    BY <1>1, <1>7, <1>8, <2>1, <2>2 DEF Gapless
  <2>3. CASE t = s
    <3> SUFFICES ASSUME ~Fresh(s),
                        why'[s] \cap {"late", "replay", "frequency", "rescheduled"} = {},
                        NEW m \in origin[s].in .. nxt - interval(row[s].freq) - 1
                 PROVE  fate[s][m] # "none"
      BY <1>1, <1>7, <2>3 DEF Gapless
    <3>1. ~(nxt > due.next + k)
      BY <1>t, <1>1, <1>2 DEF Excuse
    <3>2. nxt = due.next + k
      BY <1>4, <1>5, <3>1
    <3>3. why[s] \cap {"late", "replay", "frequency", "rescheduled"} = {} /\ Untouched(s)
      <4>1. why[s] \subseteq why'[s]
        BY <1>8
      <4> QED
        BY <4>1 DEF Untouched
    <3>4. \A i \in origin[s].in .. row[s].next - interval(row[s].freq) - 1 : fate[s][i] # "none"
      BY <2>1, <2>3, <3>3 DEF Gapless
    <3>5. row[s].freq = due.freq /\ (row[s].next = due.next \/ row[s].next = nxt)
      BY <1>2, <1>4, <1>s, <3>3 DEF Same, due
    <3>6. \A i \in due.next - k .. due.next - 1 : fate[s][i] # "none"
      BY <1>1, <1>c DEF Swept, Asked, InHand, Period, due, k
    <3>7. origin[s].in \in Int
      BY <1>t, <1>2 DEF Months
    <3>8. interval(row[s].freq) = k
      BY <3>5 DEF k
    <3>9. m \in origin[s].in .. due.next - 1
      BY <1>5, <3>2, <3>7, <3>8
    <3>10. CASE row[s].next = nxt
      BY <3>4, <3>10
    <3>11. CASE row[s].next = due.next
      <4>1. m \in origin[s].in .. row[s].next - interval(row[s].freq) - 1
            \/ m \in due.next - k .. due.next - 1
        BY <1>5, <3>7, <3>8, <3>9, <3>11
      <4> QED
        BY <3>4, <3>6, <4>1
    <3> QED
      BY <3>5, <3>10, <3>11
  <2> QED
    BY <2>2, <2>3
<1>16. ASSUME NEW t \in Subs PROVE Once(t)'
  <2>1. Once(t)
    BY DEF Swept
  <2>2. CASE t # s
    <3>1. Done(t) => Done(t)'
      BY <1>c, <1>1, <1>9, <2>2 DEF Done
    <3> QED
      BY <1>1, <1>7, <1>8, <2>1, <2>2, <3>1 DEF Once
  <2>3. CASE t = s
    <3>1. ~Fresh(s)
      BY <1>2, <1>s DEF Listed
    <3>2. SUFFICES ASSUME Quiet(s), NEW m \in mailed[s]
                   PROVE  m < nxt /\ m < nxt - interval(row[s].freq)
      BY <1>1, <1>7, <1>8, <2>1, <2>3, <3>1 DEF Once
    <3>3. row[s].freq = due.freq /\ row[s].next = due.next
      BY <1>2, <1>s, <3>2, QuietRow DEF Same, due
    <3>4. m < row[s].next
      BY <2>1, <2>3, <3>1, <3>2 DEF Once
    <3>5. m \in Int
      BY <1>t, <1>2 DEF Covered
    <3>6. interval(row[s].freq) = k
      BY <3>3 DEF k
    <3> QED
      BY <1>4, <1>5, <3>3, <3>4, <3>5, <3>6
  <2> QED
    BY <2>2, <2>3
<1> QED
  BY <1>10, <1>11, <1>12, <1>13, <1>14, <1>15, <1>16 DEF Swept

LEMMA SweptNext == ASSUME Sound, Claimed, Swept, [Next]_vars PROVE Swept'
<1>t. row \in [Subs -> RowStates] /\ why \in [Subs -> SUBSET Causes]
  BY SweepTypes
<1>0. ASSUME UNCHANGED <<now, row, origin, job, fate, mailed, again, why>> PROVE Swept'
  BY <1>0, SweptTouched DEF Fresh
<1>1. ASSUME \/ \E i \in Invites : Issue(i) \/ Resend(i) \/ Revoke(i) \/ Lapse(i)
             \/ AcceptMark \/ AcceptBreaks
             \/ \E s \in Subs, x \in Sections : Grant(s, x) \/ Revert(s, x)
             \/ \E p \in Procs : Start(p) \/ Stop(p) \/ LoseLock(p) \/ Leaves(p)
             \/ LockFreed \/ UNCHANGED vars
      PROVE Swept'
  <2>1. UNCHANGED <<now, row, origin, job, fate, mailed, again, why>>
    BY <1>1 DEF Issue, Resend, Revoke, Lapse, AcceptMark, AcceptBreaks, Grant, Revert, Start, Stop,
                LoseLock, Leaves, LockFreed, vars, contract, schedule, reports
  <2> QED
    BY <1>0, <2>1
<1>2. ASSUME NEW i \in Invites, NEW s \in Subs, AcceptCreate(i, s) PROVE Swept'
  <2>1. /\ Fresh(s) /\ row' = [row EXCEPT ![s] = Written(s)]
        /\ origin' = [origin EXCEPT ![s] = [by |-> i, in |-> now]]
        /\ UNCHANGED <<now, job, fate, mailed, again, why>>
    BY <1>2 DEF AcceptCreate, schedule, reports
  <2>2. origin'[s].in = now /\ \A t \in Subs \ {s} : origin'[t] = origin[t]
    BY <2>1, SweepTypes
  <2> QED
    BY <2>1, <2>2, SweptWritten
<1>3. ASSUME NEW s \in Subs, CheckoutCompleted(s) PROVE Swept'
  <2>1. /\ row' = [row EXCEPT ![s] = Written(s)]
        /\ UNCHANGED <<now, job, fate, mailed, again>>
    BY <1>3 DEF CheckoutCompleted, schedule, reports
  <2>2. ASSUME NEW by \in Checkouts, Fresh(s), UNCHANGED why,
               origin' = [origin EXCEPT ![s] = [by |-> by, in |-> now]]
        PROVE  Swept'
    <3>1. origin'[s].in = now /\ \A t \in Subs \ {s} : origin'[t] = origin[t]
      BY <2>2, SweepTypes
    <3> QED
      BY <2>1, <2>2, <3>1, SweptWritten
  <2>3. CASE origin[s].by \in Checkouts /\ Excuse(s, "replay") /\ UNCHANGED origin
    <3>1. ~Fresh(s)
      BY <2>3, Bounds DEF Claimed
    <3>2. row'[s].status = "active" /\ \A t \in Subs \ {s} : row'[t] = row[t]
      BY <1>t, <2>1 DEF Written
    <3>3. \A t \in Subs : why[t] \subseteq why'[t] /\ Fresh(t)' = Fresh(t)
      BY <1>t, <2>3, <3>1, <3>2 DEF Excuse, Fresh
    <3>4. "replay" \in why'[s]
      BY <1>t, <2>3 DEF Excuse
    <3>5. \A t \in Subs : Untouched(t)' => row'[t].freq = row[t].freq /\ row'[t].next = row[t].next
      BY <3>2, <3>4 DEF Untouched
    <3> QED
      BY <2>1, <2>3, <3>3, <3>5, SweptTouched
  <2> QED
    BY <1>3, <2>2, <2>3 DEF CheckoutCompleted
<1>4. ASSUME NEW s \in Subs, SetStatus(s) PROVE Swept'
  <2>1. /\ UNCHANGED <<now, origin, job, fate, mailed, again, why>> /\ ~Fresh(s)
        /\ row' = [row EXCEPT ![s].status = IF @ = "active" THEN "off" ELSE "active"]
    BY <1>4 DEF SetStatus, schedule, reports
  <2>2. \A t \in Subs : /\ Fresh(t)' = Fresh(t)
                        /\ row'[t].freq = row[t].freq /\ row'[t].next = row[t].next
    BY <1>t, <2>1 DEF Fresh, RowStates
  <2> QED
    BY <2>1, <2>2, SweptTouched
<1>5. ASSUME NEW s \in Subs, SetFrequency(s) \/ SetNext(s) PROVE Swept'
  <2>1. PICK c \in {"frequency", "rescheduled"} : Excuse(s, c)
    BY <1>5 DEF SetFrequency, SetNext
  <2>2. UNCHANGED <<now, origin, job, fate, mailed, again>>
    BY <1>5 DEF SetFrequency, SetNext, schedule, reports
  <2>3. /\ row'[s].status = row[s].status /\ \A t \in Subs \ {s} : row'[t] = row[t]
    BY <1>t, <1>5 DEF SetFrequency, SetNext, RowStates
  <2>4. \A t \in Subs : why[t] \subseteq why'[t] /\ Fresh(t)' = Fresh(t)
    BY <1>t, <2>1, <2>3 DEF Excuse, Fresh
  <2>5. c \in why'[s]
    BY <1>t, <2>1 DEF Excuse
  <2>6. \A t \in Subs : Untouched(t)' => row'[t].freq = row[t].freq /\ row'[t].next = row[t].next
    BY <2>3, <2>5 DEF Untouched
  <2> QED
    BY <2>2, <2>4, <2>6, SweptTouched
<1>6. ASSUME NEW p \in Procs, Crash(p) \/ JobRaises(p) PROVE Swept'
  <2>1. JobEnds(p) /\ UNCHANGED <<now, row, origin, fate, mailed, again>>
    BY <1>6 DEF Crash, JobRaises, contract, reports
  <2>2. job[p].pc \in {"requested", "processed"} => job[p].cur \in Subs
    BY InHandKnown
  <2>3. /\ \A t \in Subs : why'[t] = why[t] \/ why'[t] = why[t] \cup {"cut off"}
        /\ job[p].pc \in {"requested", "processed"} => "cut off" \in why'[job[p].cur]
    BY <1>t, <2>1, <2>2 DEF JobEnds, Excuse
  <2> QED
    BY <2>1, <2>3, SweptEnded DEF JobEnds
<1>7. ASSUME NEW p \in Procs, JobDone(p) \/ \E s \in Subs : RequestRefused(p, s) PROVE Swept'
  <2>1. /\ UNCHANGED <<now, row, origin, fate, mailed, again, why>>
        /\ job[p].pc = "loop" /\ job' = [job EXCEPT ![p] = NoJob]
    BY <1>7 DEF JobDone, RequestRefused, contract, reports
  <2> QED
    BY <2>1, SweptEnded
<1>8. ASSUME NEW p \in Procs, JobStart(p) \/ JobStep(p) \/ Fail(p) PROVE Swept'
  BY <1>7, <1>8, SweptStarts, SweptSkips, SweptAsks, SweptSettles, SweptAdvances DEF JobStep
<1> QED
  BY <1>1, <1>2, <1>3, <1>4, <1>5, <1>6, <1>8, SweptTick DEF Next

LEMMA SweptHolds == Spec => []Swept
<1>1. Sound /\ Claimed /\ Swept /\ [Next]_vars => Swept'
  BY SweptNext
<1>2. Sound /\ Claimed /\ [Next]_vars => Claimed'
  BY ClaimedNext
<1> QED
  BY <1>1, <1>2, SoundHolds, ClaimedInit, SweptInit, PTL DEF Spec

\* Every second mail of a month has a cause on record: a job cut off between the
\* mail and the new due date, two jobs with one due date, a replayed checkout, or
\* a frequency or due date changed by hand.
THEOREM RepeatHasCauseAlways == Spec => []RepeatHasCause
<1>1. Swept => RepeatHasCause
  BY DEF Swept, Once, Quiet, RepeatHasCause
<1> QED
  BY <1>1, SweptHolds, PTL

\* No month between the first and the next due period is passed over in silence,
\* unless the job came late or the row was changed from outside.
THEOREM NoSilentGapAlways == Spec => []NoSilentGap
<1>1. Swept => NoSilentGap
  BY DEF Swept, Gapless, NoSilentGap
<1> QED
  BY <1>1, SweptHolds, PTL

\* A request left in "processing" is in a job's hands, or its job was cut off.
THEOREM ProcessingIsRunningAlways == Spec => []ProcessingIsRunning
<1>1. Swept => ProcessingIsRunning
  BY DEF Swept, Answered, ProcessingIsRunning
<1> QED
  BY <1>1, SweptHolds, PTL
-----------------------------------------------------------------------------
(***************************************************************************)
(* What a sweep leaves behind.                                              *)
(***************************************************************************)
\* Of the rows a running job has read, those it has dealt with are no longer due.
Ahead(s) == row[s].next > now \/ Orphan(s) \/ "rescheduled" \in why[s]
Dealt(p) ==
    Running(p) => \A s \in Subs \ job[p].left : job[p].due[s] # NoRow => Ahead(s)

LEMMA DealtNext == ASSUME Sound, \A p \in Procs : Dealt(p), [Next]_vars
                   PROVE  \A p \in Procs : Dealt(p)'
<1>t. /\ job \in [Procs -> JobStates] /\ row \in [Subs -> RowStates]
      /\ why \in [Subs -> SUBSET Causes] /\ now \in Nat
      /\ origin \in [Subs -> [by : Invites \cup Checkouts \cup {Nobody}, in : Months]]
  BY SweepTypes, Bounds DEF Months
<1>0. ASSUME NEW q \in Procs, job'[q].due = job[q].due, job'[q].left = job[q].left,
             Running(q)' => Running(q), \A s \in Subs : Ahead(s) => Ahead(s)'
      PROVE  Dealt(q)'
  BY <1>0 DEF Dealt
\* A step that moves no job: whoever brings a due date back is on record.
<1>1. ASSUME UNCHANGED job, \A s \in Subs : Ahead(s) => Ahead(s)'
      PROVE  \A q \in Procs : Dealt(q)'
  BY <1>0, <1>1 DEF Running
<1>2. ASSUME UNCHANGED <<now, row, origin, job, why>> PROVE \A q \in Procs : Dealt(q)'
  BY <1>1, <1>2 DEF Ahead, Orphan
<1>3. ASSUME \/ \E i \in Invites : Issue(i) \/ Resend(i) \/ Revoke(i) \/ Lapse(i)
             \/ AcceptMark \/ AcceptBreaks
             \/ \E s \in Subs, x \in Sections : Grant(s, x) \/ Revert(s, x)
             \/ \E p \in Procs : Start(p) \/ Stop(p) \/ LoseLock(p) \/ Leaves(p)
             \/ LockFreed \/ UNCHANGED vars
      PROVE  \A q \in Procs : Dealt(q)'
  <2>1. UNCHANGED <<now, row, origin, job, why>>
    BY <1>3 DEF Issue, Resend, Revoke, Lapse, AcceptMark, AcceptBreaks, Grant, Revert, Start, Stop,
                LoseLock, Leaves, LockFreed, vars, contract, schedule, reports
  <2> QED
    BY <1>2, <2>1
<1>4. ASSUME \/ \E i \in Invites, s \in Subs : AcceptCreate(i, s)
             \/ \E s \in Subs : CheckoutCompleted(s)
      PROVE  \A q \in Procs : Dealt(q)'
  <2>0. PICK s \in Subs :
            /\ row' = [row EXCEPT ![s] = Written(s)]
            /\ \/ UNCHANGED origin
               \/ \E by : origin' = [origin EXCEPT ![s] = [by |-> by, in |-> now]]
    BY <1>4 DEF AcceptCreate, CheckoutCompleted
  <2>1. row' = [row EXCEPT ![s] = Written(s)]
    BY <2>0
  <2>2. UNCHANGED <<now, job>> /\ \A u \in Subs : why[u] \subseteq why'[u]
    BY <1>t, <1>4 DEF AcceptCreate, CheckoutCompleted, Excuse, schedule
  <2>3. interval(Sold[s]) \in 1 .. 3
    BY DEF interval
  <2>4. row'[s].next > now /\ \A u \in Subs \ {s} : row'[u] = row[u]
    BY <1>t, <2>1, <2>3 DEF Written
  <2>5. \A u \in Subs \ {s} : origin'[u] = origin[u]
    <3>1. \/ UNCHANGED origin
          \/ \E by : origin' = [origin EXCEPT ![s] = [by |-> by, in |-> now]]
      BY <2>0
    <3> QED
      BY <1>t, <3>1
  <2> QED
    BY <1>1, <2>2, <2>4, <2>5 DEF Ahead, Orphan
<1>5. ASSUME NEW s \in Subs, SetStatus(s) \/ SetFrequency(s) PROVE \A q \in Procs : Dealt(q)'
  <2>1. UNCHANGED <<now, origin, job>> /\ \A u \in Subs : why[u] \subseteq why'[u]
    BY <1>t, <1>5 DEF SetStatus, SetFrequency, Excuse, schedule
  <2>2. \A u \in Subs : row'[u].next = row[u].next
    BY <1>t, <1>5 DEF SetStatus, SetFrequency, RowStates
  <2> QED
    BY <1>1, <2>1, <2>2 DEF Ahead, Orphan
<1>6. ASSUME NEW s \in Subs, SetNext(s) PROVE \A q \in Procs : Dealt(q)'
  <2>1. UNCHANGED <<now, origin, job>> /\ "rescheduled" \in why'[s] /\ \A u \in Subs : why[u] \subseteq why'[u]
    BY <1>t, <1>6 DEF SetNext, Excuse, schedule
  <2>2. \A u \in Subs \ {s} : row'[u] = row[u]
    BY <1>t, <1>6 DEF SetNext
  <2> QED
    BY <1>1, <2>1, <2>2 DEF Ahead, Orphan
<1>7. ASSUME NEW p \in Procs, job' = [job EXCEPT ![p] = NoJob], UNCHANGED <<now, row, origin>>,
             \A u \in Subs : why[u] \subseteq why'[u]
      PROVE  \A q \in Procs : Dealt(q)'
  <2>1. ~Running(p)' /\ \A q \in Procs \ {p} : job'[q] = job[q]
    BY <1>t, <1>7, Nothing DEF Running
  <2>2. \A s \in Subs : Ahead(s) => Ahead(s)'
    BY <1>7 DEF Ahead, Orphan
  <2>3. ASSUME NEW q \in Procs, q # p PROVE Dealt(q)'
    BY <1>0, <2>1, <2>2, <2>3 DEF Running
  <2> QED
    BY <2>1, <2>3 DEF Dealt
<1>8. ASSUME NEW p \in Procs, Crash(p) \/ JobRaises(p) PROVE \A q \in Procs : Dealt(q)'
  <2>1. \A u \in Subs : why[u] \subseteq why'[u]
    BY <1>t, <1>8 DEF Crash, JobRaises, JobEnds, Excuse
  <2> QED
    BY <1>7, <1>8, <2>1 DEF Crash, JobRaises, JobEnds, contract
<1>9. ASSUME NEW p \in Procs, JobDone(p) \/ \E s \in Subs : RequestRefused(p, s)
      PROVE  \A q \in Procs : Dealt(q)'
  BY <1>7, <1>9 DEF JobDone, RequestRefused, contract
<1>10. ASSUME NEW p \in Procs, JobStart(p) PROVE \A q \in Procs : Dealt(q)'
  <2>1. /\ UNCHANGED <<now, row, origin>> /\ job' = [job EXCEPT ![p] = Started]
        /\ Started.left = {s \in Subs : Due(s)}
        /\ \A s \in Subs \ Started.left : Started.due[s] = NoRow
    BY <1>10, JobStarted DEF JobStart, contract
  <2>2. \A u \in Subs : why[u] \subseteq why'[u]
    BY <1>t, <1>10 DEF JobStart
  <2>3. job'[p] = Started /\ \A q \in Procs \ {p} : job'[q] = job[q]
    BY <1>t, <2>1
  <2>4. \A s \in Subs : Ahead(s) => Ahead(s)'
    BY <2>1, <2>2 DEF Ahead, Orphan
  <2>5. ASSUME NEW q \in Procs, q # p PROVE Dealt(q)'
    BY <1>0, <2>3, <2>4, <2>5 DEF Running
  <2> QED
    BY <2>1, <2>3, <2>5 DEF Dealt
<1>11. ASSUME NEW p \in Procs, NEW s \in Subs, CreateRequest(p, s) PROVE \A q \in Procs : Dealt(q)'
  <2>1. UNCHANGED <<now, row, origin, why>> /\ Running(p)
    BY <1>11 DEF CreateRequest, contract, Running
  <2>2. \A q \in Procs : job'[q].due = job[q].due /\ job'[q].left = job[q].left
                         /\ (Running(q)' => Running(q))
    BY <1>t, <1>11, <2>1 DEF CreateRequest, Running, JobStates
  <2> QED
    BY <1>0, <2>1, <2>2 DEF Ahead, Orphan
<1>12. ASSUME NEW p \in Procs, Deliver(p) \/ Hold(p) \/ Fail(p) PROVE \A q \in Procs : Dealt(q)'
  <2>1. UNCHANGED <<now, row, origin, why>> /\ Running(p) /\ job' = [job EXCEPT ![p].pc = "processed"]
    BY <1>12 DEF Deliver, Hold, Fail, Settle, contract, Running
  <2>2. \A q \in Procs : job'[q].due = job[q].due /\ job'[q].left = job[q].left
                         /\ (Running(q)' => Running(q))
    BY <1>t, <2>1 DEF Running, JobStates
  <2> QED
    BY <1>0, <2>1, <2>2 DEF Ahead, Orphan
<1>13. ASSUME NEW p \in Procs, Advance(p) PROVE \A q \in Procs : Dealt(q)'
  <2>1. job[p].pc = "processed" /\ Running(p)
    BY <1>13 DEF Advance, Running
  <2>2. PICK s \in Subs : s = job[p].cur /\ s \in job[p].left
    BY <2>1, InHandKnown
  <2>3. /\ row' = [row EXCEPT ![s].next = NextDelivery(job[p].due[s], job[p].at)]
        /\ UNCHANGED <<now, origin>>
        /\ job' = [job EXCEPT ![p].pc = "loop", ![p].left = @ \ {s}, ![p].cur = Nobody,
                              ![p].open = {}]
        /\ \A u \in Subs : why[u] \subseteq why'[u]
    BY <1>t, <1>13, <2>2 DEF Advance, Excuse
  <2>4. NextDelivery(job[p].due[s], job[p].at) > now
    BY <2>1, <2>2, InHandBefore, NextDueDate
  <2>5. row'[s].next > now /\ \A u \in Subs \ {s} : row'[u] = row[u]
    BY <1>t, <2>3, <2>4 DEF RowStates
  <2>6. Ahead(s)' /\ \A u \in Subs : Ahead(u) => Ahead(u)'
    BY <2>3, <2>5 DEF Ahead, Orphan
  <2>7. /\ job'[p].due = job[p].due /\ job'[p].left = job[p].left \ {s}
        /\ \A q \in Procs \ {p} : job'[q] = job[q]
    BY <1>t, <2>3 DEF JobStates
  <2>8. ASSUME NEW q \in Procs, q # p PROVE Dealt(q)'
    BY <1>0, <2>6, <2>7, <2>8 DEF Running
  <2>9. Dealt(p)'
    BY <2>1, <2>6, <2>7 DEF Dealt
  <2> QED
    BY <2>8, <2>9
<1>15. ASSUME NEW p \in Procs, NEW s \in Subs, Skip(p, s) PROVE \A q \in Procs : Dealt(q)'
  <2>1. /\ UNCHANGED <<now, row, origin, why>> /\ Orphan(s) /\ Running(p)
        /\ job' = [job EXCEPT ![p].left = @ \ {s}]
    BY <1>15 DEF Skip, contract, Running
  <2>2. /\ job'[p].due = job[p].due /\ job'[p].left = job[p].left \ {s}
        /\ \A q \in Procs \ {p} : job'[q] = job[q]
    BY <1>t, <2>1 DEF JobStates
  <2>3. Ahead(s)' /\ \A u \in Subs : Ahead(u) => Ahead(u)'
    BY <2>1 DEF Ahead, Orphan
  <2>4. ASSUME NEW q \in Procs, q # p PROVE Dealt(q)'
    BY <1>0, <2>2, <2>3, <2>4 DEF Running
  <2>5. Dealt(p)'
    BY <2>1, <2>2, <2>3 DEF Dealt
  <2> QED
    BY <2>4, <2>5
<1>14. ASSUME Tick PROVE \A q \in Procs : Dealt(q)'
  BY <1>14 DEF Tick, schedule, Dealt, Running
<1> QED
  BY <1>3, <1>4, <1>5, <1>6, <1>8, <1>9, <1>10, <1>11, <1>12, <1>13, <1>14,
     <1>15 DEF Next, JobStep

\* A job that ends, and neither died nor met a wholly withheld product, leaves no
\* row it read at a due date already past, unless the row has no user to mail or
\* an administrator put it there.
THEOREM SweepCompleteAlways == Spec => SweepComplete
<1> DEFINE Sweep == \A p \in Procs : Running(p) /\ ~Running(p)' =>
              \/ faults' > faults
              \/ \E t \in job[p].left : ~Orphan(t) /\ allowed(t) = {}
              \/ \A s \in Subs : job[p].due[s] # NoRow =>
                     row[s].next > job[p].at \/ Orphan(s) \/ "rescheduled" \in why[s]
           Kept == \A p \in Procs : Dealt(p)
<1>1. Init => Kept
  BY Nothing DEF Init, Dealt, Running
<1>2. Sound /\ Kept /\ [Next]_vars => Kept'
  BY DealtNext
<1>3. Sound /\ Kept /\ [Next]_vars => [Sweep]_vars
  <2> SUFFICES ASSUME Sound, Kept, Next, NEW p \in Procs, Running(p), ~Running(p)'
               PROVE  \/ faults' > faults
                      \/ \E t \in job[p].left : ~Orphan(t) /\ allowed(t) = {}
                      \/ \A s \in Subs : job[p].due[s] # NoRow =>
                             row[s].next > job[p].at \/ Orphan(s) \/ "rescheduled" \in why[s]
    OBVIOUS
  <2>t. job \in [Procs -> JobStates] /\ faults \in Nat
    BY SweepTypes, Parts, Bounds DEF RestTyped
  <2>1. job # job'
    BY DEF Running
  <2>2. ASSUME NEW q \in Procs, Crash(q) \/ JobRaises(q) PROVE faults' > faults
    BY <2>t, <2>2 DEF Crash, JobRaises, Fault
  <2>3. ASSUME NEW q \in Procs, NEW s \in Subs, RequestRefused(q, s)
        PROVE  \E t \in job[p].left : ~Orphan(t) /\ allowed(t) = {}
    <3>1. q = p
      BY <2>t, <2>3 DEF RequestRefused, Running
    <3> QED
      BY <2>3, <3>1 DEF RequestRefused
  <2>4. ASSUME NEW q \in Procs, JobDone(q)
        PROVE  \A s \in Subs : job[p].due[s] # NoRow =>
                   row[s].next > job[p].at \/ Orphan(s) \/ "rescheduled" \in why[s]
    <3>1. q = p /\ job[p].left = {}
      BY <2>t, <2>4 DEF JobDone, Running
    <3>2. job[p].at = now
      BY DEF Sound, Held
    <3> QED
      BY <3>1, <3>2 DEF Dealt, Ahead
  <2>5. ASSUME NEW q \in Procs,
               \/ JobStart(q) \/ \E s \in Subs : Skip(q, s) \/ CreateRequest(q, s)
               \/ Deliver(q) \/ Hold(q) \/ Fail(q) \/ Advance(q)
        PROVE  FALSE
    <3>1. job'[q].pc # "idle" /\ \A u \in Procs \ {q} : job'[u] = job[u]
      <4>1. CASE JobStart(q)
        BY <2>t, <4>1, JobStarted
      <4>2. CASE \E s \in Subs : Skip(q, s) \/ CreateRequest(q, s)
        BY <2>t, <4>2 DEF Skip, CreateRequest, JobStates
      <4>3. CASE Deliver(q) \/ Hold(q) \/ Fail(q)
        BY <2>t, <4>3 DEF Deliver, Hold, Fail, Settle, JobStates
      <4>4. CASE Advance(q)
        BY <2>t, <4>4 DEF Advance, JobStates
      <4> QED
        BY <2>5, <4>1, <4>2, <4>3, <4>4
    <3> QED
      BY <3>1 DEF Running
  <2>6. ASSUME \/ \E i \in Invites : Issue(i) \/ Resend(i) \/ Revoke(i) \/ Lapse(i)
               \/ \E i \in Invites, s \in Subs : AcceptCreate(i, s)
               \/ AcceptMark \/ AcceptBreaks
               \/ \E s \in Subs : CheckoutCompleted(s) \/ SetStatus(s) \/ SetFrequency(s) \/ SetNext(s)
               \/ \E s \in Subs, x \in Sections : Grant(s, x) \/ Revert(s, x)
               \/ \E q \in Procs : Start(q) \/ Stop(q) \/ LoseLock(q) \/ Leaves(q)
               \/ LockFreed \/ Tick
        PROVE  job' = job
    BY <2>6 DEF Issue, Resend, Revoke, Lapse, AcceptCreate, AcceptMark, AcceptBreaks,
                CheckoutCompleted, SetStatus, SetFrequency, SetNext, Grant, Revert, Start, Stop,
                LoseLock, Leaves, LockFreed, Tick, schedule
  <2> QED
    BY <2>1, <2>2, <2>3, <2>4, <2>5, <2>6 DEF Next, JobStep
<1>4. SweepComplete <=> [][Sweep]_vars
  BY DEF SweepComplete
<1> HIDE DEF Sweep, Kept
<1> QED
  BY <1>1, <1>2, <1>3, <1>4, SoundHolds, PTL DEF Spec
=============================================================================
