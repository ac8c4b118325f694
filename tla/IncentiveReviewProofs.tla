----------------------- MODULE IncentiveReviewProofs -----------------------
(***************************************************************************)
(* That the invariants of IncentiveReview hold for any programmes, pages,   *)
(* changes and bounds. The inductive invariant says, in parts proved one    *)
(* after the other, what the values are (Typed, Sane), whose row a change,  *)
(* a scrape and a decision point at (Filed), what a written column owes to  *)
(* its change (Kept), what an approved change has done (Applied), what      *)
(* scrapes still hold (Asked) and what a gate was opened for (Gated).       *)
(***************************************************************************)
EXTENDS IncentiveReview, StatutoryFigureProofs, TLAPS

Sources == {p.src : p \in Pages} \cup {Nobody}
ChangeRows ==
    [status : {"none", "pending", "approved", "rejected"}, row : 0 .. MaxRow,
     prog : Programs \cup {Nobody}, src : Sources, field : Fields, to : Values]
ScanStates ==
    [pc : {"idle", "diff", "insert"}, row : 0 .. MaxRow, page : Pages \cup {Nobody},
     left : SUBSET Fields, field : Fields]
Decisions ==
    [pc : {"idle", "write", "mark"}, change : Changes \cup {Nobody}, row : 0 .. MaxRow]

Typed ==
    /\ last \in 0 .. MaxRow /\ rows \subseteq 1 .. last
    /\ prog \in [Rows -> Programs \cup {Nobody}]
    /\ src \in [Rows -> Sources]
    /\ val \in [Rows -> [Fields -> Values]]
    /\ engine \in [Rows -> Engines]
    /\ gate \in [Rows -> {"blocked", "ready"}]
    /\ change \in [Changes -> ChangeRows]
    /\ scan \in [Scans -> ScanStates]
    /\ decide \in Decisions
    /\ author \in [Rows -> [Fields -> Changes \cup {Nobody}]]
    /\ wrote \in [Changes -> SUBSET (Programs \cup {Nobody})]
    /\ homeless \subseteq Changes /\ lost \subseteq Changes
    /\ excuse \in [Rows -> SUBSET {"forced", "engine edited"}]
    /\ overlap \in BOOLEAN
    /\ turns \in 0 .. MaxTurns /\ faults \in 0 .. MaxFaults

Sane ==
    /\ \A r \in rows : prog[r] \in Programs /\ val[r]["status"] \in Statuses
    /\ \A c \in Changes : change[c].row <= last
    /\ \A c \in Changes : change[c].status # "none" =>
          /\ change[c].prog \in Programs
          /\ change[c].field = "status" => change[c].to \in Statuses
    /\ \A w \in Scans : scan[w].row <= last /\ (scan[w].pc # "idle" => scan[w].page \in Pages)
    /\ decide.pc # "idle" => /\ decide.change \in Changes /\ decide.row \in 1 .. last
                             /\ change[decide.change].status # "none"
    /\ decide.pc = "idle" => decide = NoDecision

\* What every step leaves of the rows on record: ids only grow, and neither a
\* name nor a source changes.
Appended ==
    /\ last <= last' /\ last' \in 0 .. MaxRow
    /\ rows' \subseteq 1 .. last'
    /\ prog' \in [Rows -> Programs \cup {Nobody}] /\ src' \in [Rows -> Sources]
    /\ \A q \in Rows : q <= last => prog'[q] = prog[q] /\ src'[q] = src[q]
    /\ \A q \in rows' : q \in rows \/ (q > last /\ prog'[q] \in Programs)
-----------------------------------------------------------------------------
LEMMA PageTypes ==
    ASSUME NEW p \in Pages
    PROVE  /\ p.prog \in Programs /\ p.src \in Sources
           /\ \A f \in Fields : p[f] \in Values /\ (f = "status" => p[f] \in Statuses)
BY ConstantsOK DEF Sources, Fields, Values

LEMMA QueuedTyped ==
    ASSUME NEW s \in {"none", "pending", "approved", "rejected"}, NEW r \in 0 .. MaxRow,
           NEW p \in Pages, NEW f \in Fields
    PROVE  /\ Queued(s, r, p, f) \in ChangeRows
           /\ Queued(s, r, p, f).status = s
           /\ Queued(s, r, p, f).row = r
           /\ Queued(s, r, p, f).prog = p.prog
           /\ Queued(s, r, p, f).field = f
           /\ Queued(s, r, p, f).to = p[f]
BY PageTypes DEF Queued, ChangeRows

LEMMA NothingTyped ==
    /\ NoChange \in ChangeRows /\ NoChange.status = "none" /\ NoChange.row = 0
    /\ NoScan \in ScanStates /\ NoScan.pc = "idle" /\ NoScan.row = 0
    /\ NoDecision \in Decisions /\ NoDecision.pc = "idle" /\ NoDecision.change = Nobody
BY ConstantsOK DEF NoChange, NoScan, NoDecision, ChangeRows, ScanStates, Decisions, Fields,
                   Sources, Values

LEMMA Bounds ==
    /\ MaxRow \in Nat /\ MaxTurns \in Nat /\ MaxFaults \in Nat
    /\ Nobody \notin Changes /\ Nobody \notin Programs /\ Legacy \subseteq Changes
    /\ EngineChoices \subseteq Engines
BY ConstantsOK

LEMMA OnRecordAtFirst ==
    /\ Len(Known) \in 0 .. MaxRow /\ Catalogued = 1 .. Len(Known)
    /\ \A r \in Catalogued : Known[r] \in Pages
BY ConstantsOK DEF Catalogued

LEMMA TypedInit == Init => Typed /\ Sane
<1> SUFFICES ASSUME Init PROVE Typed /\ Sane
  OBVIOUS
<1>1. /\ last = Len(Known) /\ rows = 1 .. last /\ last \in 0 .. MaxRow
      /\ \A r \in rows : Known[r] \in Pages
  BY OnRecordAtFirst DEF Init
<1>2. PICK p \in Pages :
        change = [c \in Changes |->
                     IF c \in Legacy THEN Queued("approved", 0, p, "rate") ELSE NoChange]
  BY DEF Init
<1>3. /\ change \in [Changes -> ChangeRows]
      /\ \A c \in Changes : change[c].row = 0
      /\ \A c \in Changes : change[c].status # "none" =>
            change[c].prog \in Programs /\ change[c].field = "rate"
  <2>1. 0 \in 0 .. MaxRow /\ "rate" \in Fields
    BY Bounds DEF Fields
  <2> DEFINE q == Queued("approved", 0, p, "rate")
  <2>2. q \in ChangeRows /\ q.prog \in Programs /\ q.field = "rate" /\ q.row = 0
    BY <2>1, QueuedTyped, PageTypes
  <2>3. change = [c \in Changes |-> IF c \in Legacy THEN q ELSE NoChange]
    BY <1>2
  <2> HIDE DEF q
  <2> QED
    BY <2>2, <2>3, NothingTyped
<1>4. prog \in [Rows -> Programs \cup {Nobody}] /\ src \in [Rows -> Sources]
      /\ val \in [Rows -> [Fields -> Values]]
      /\ \A r \in rows : prog[r] \in Programs /\ val[r]["status"] \in Statuses
  <2>1. Nobody \in Sources /\ Unknown \in Values
    BY DEF Sources, Values
  <2>2. \A r \in rows : /\ Known[r].prog \in Programs /\ Known[r].src \in Sources
                        /\ \A f \in Fields : Known[r][f] \in Values
                        /\ Known[r]["status"] \in Statuses
    BY <1>1, PageTypes DEF Fields
  <2>3. rows \subseteq Rows /\ "status" \in Fields
    BY <1>1, Bounds DEF Rows, Fields
  <2>4. /\ prog = [r \in Rows |-> IF r \in rows THEN Known[r].prog ELSE Nobody]
        /\ src  = [r \in Rows |-> IF r \in rows THEN Known[r].src ELSE Nobody]
        /\ val  = [r \in Rows |-> [f \in Fields |-> IF r \in rows THEN Known[r][f] ELSE Unknown]]
    BY DEF Init
  <2> QED
    BY <2>1, <2>2, <2>3, <2>4
<1>5. engine \in [Rows -> Engines]
  <2>1. "" \in Engines
    BY DEF Engines
  <2>2. PICK e \in EngineChoices \cup {""} :
          engine = [r \in Rows |-> IF r \in Catalogued THEN e ELSE ""]
    BY DEF Init
  <2> QED
    BY <2>1, <2>2, Bounds
<1>6. /\ rows \subseteq 1 .. last
      /\ turns \in 0 .. MaxTurns /\ faults \in 0 .. MaxFaults
  <2>1. turns = 0 /\ faults = 0
    BY DEF Init
  <2> QED
    BY <1>1, <2>1, Bounds
<1>7. scan \in [Scans -> ScanStates] /\ \A w \in Scans : scan[w].pc = "idle" /\ scan[w].row = 0
  BY NothingTyped DEF Init
<1> QED
  <2>1. Typed
    BY <1>1, <1>3, <1>4, <1>5, <1>6, <1>7, NothingTyped DEF Init, Typed
  <2>2. decide = NoDecision
    BY DEF Init
  <2>3. Sane
    BY <1>1, <1>3, <1>4, <1>7, <2>2, NothingTyped DEF Sane
  <2> QED
    BY <2>1, <2>3

LEMMA RowIds == ASSUME Typed PROVE rows \subseteq Rows /\ \A q \in rows : q <= last
<1>1. last \in 0 .. MaxRow /\ rows \subseteq 1 .. last
  BY DEF Typed
<1> QED
  BY <1>1, Bounds DEF Rows

\* A step that adds no row and renames none.
LEMMA Untouched ==
    ASSUME Typed, rows' \subseteq rows, UNCHANGED <<last, prog, src>> PROVE Appended
<1>1. /\ last \in 0 .. MaxRow /\ rows \subseteq 1 .. last
      /\ prog \in [Rows -> Programs \cup {Nobody}] /\ src \in [Rows -> Sources]
  BY DEF Typed
<1> QED
  BY <1>1, Bounds DEF Appended

\* Where an approval puts a change: in a row on record, or in the next one.
LEMMA Placed ==
    ASSUME Typed, Sane, NEW c \in Changes, NEW r \in Rows, Place(c, r),
           change[c].status # "none"
    PROVE  /\ Appended /\ r \in 1 .. last'
           /\ homeless \subseteq homeless' /\ homeless' \subseteq Changes
           /\ change[c].row # 0 =>
                 r = change[c].row /\ UNCHANGED <<rows, last, prog, src, homeless>>
           /\ change[c].row = 0 =>
                 r \in rows' /\ (prog'[r] = change[c].prog \/ c \in homeless')
<1>t. /\ last \in 0 .. MaxRow /\ rows \subseteq 1 .. last
      /\ prog \in [Rows -> Programs \cup {Nobody}] /\ src \in [Rows -> Sources]
  BY DEF Typed
<1>0. UNCHANGED <<rows, last, prog, src>> => Appended
  BY Untouched
<1>1. CASE change[c].row # 0
  <2>1. r = change[c].row /\ r \in 1 .. last
    BY <1>t, <1>1, Bounds DEF Place, Sane, Rows
  <2> QED
    BY <1>0, <1>1, <2>1 DEF Place, Typed
<1>2. CASE change[c].row = 0 /\ Accepted(c) # {}
  <2>1. Accepted(c) \subseteq rows
    BY DEF Accepted, RowOf, Latest, SameSource
  <2>2. RowOf(change[c].prog) # {} => \A q \in Accepted(c) : prog[q] = change[c].prog
    BY DEF Accepted, RowOf
  <2> QED
    BY <1>0, <1>t, <1>2, <2>1, <2>2 DEF Place, Typed
<1>3. CASE change[c].row = 0 /\ Accepted(c) = {}
  <2>1. /\ r = last + 1 /\ rows' = rows \cup {r} /\ last' = r
        /\ prog' = [prog EXCEPT ![r] = change[c].prog]
        /\ src'  = [src EXCEPT ![r] = change[c].src]
        /\ homeless' = IF RowOf(change[c].prog) = {} THEN homeless \cup {c} ELSE homeless
    BY <1>3 DEF Place
  <2>2. change[c].prog \in Programs /\ change[c].src \in Sources
    BY DEF Sane, Typed, ChangeRows
  <2>3. prog'[r] = change[c].prog
    BY <2>1 DEF Typed
  <2>4. rows' \subseteq 1 .. last' /\ last' \in 0 .. MaxRow /\ last <= last'
    BY <1>t, <2>1, Bounds DEF Rows
  <2>5. \A q \in Rows : q <= last => prog'[q] = prog[q] /\ src'[q] = src[q]
    BY <1>t, <2>1, Bounds DEF Rows
  <2>6. prog' \in [Rows -> Programs \cup {Nobody}] /\ src' \in [Rows -> Sources]
    BY <1>t, <2>1, <2>2
  <2>7. \A q \in rows' : q \in rows \/ (q > last /\ prog'[q] \in Programs)
    BY <1>t, <2>1, <2>2, <2>3, Bounds
  <2>8. homeless' \subseteq Changes
    BY <2>1 DEF Typed
  <2> QED
    BY <1>t, <1>3, <2>1, <2>3, <2>4, <2>5, <2>6, <2>7, <2>8 DEF Appended
<1> QED
  BY <1>1, <1>2, <1>3

\* Whatever is on record after such a step bears the name of a programme.
LEMMA Named ==
    ASSUME Typed, Sane, Appended PROVE \A q \in rows' : prog'[q] \in Programs
<1>1. rows \subseteq Rows /\ \A q \in rows : q <= last
  BY RowIds
<1> QED
  BY <1>1 DEF Sane, Appended

\* A change is written to a row on record, which keeps its types.
LEMMA Written ==
    ASSUME Typed, NEW c \in Changes, NEW r \in Rows, NEW before, Write(c, r, before),
           before \in [Rows -> [Fields -> Values]],
           prog' \in [Rows -> Programs \cup {Nobody}],
           change[c].field = "status" => change[c].to \in Statuses
    PROVE  /\ val' \in [Rows -> [Fields -> Values]]
           /\ author' \in [Rows -> [Fields -> Changes \cup {Nobody}]]
           /\ wrote' \in [Changes -> SUBSET (Programs \cup {Nobody})]
           /\ \A q \in Rows : before[q]["status"] \in Statuses => val'[q]["status"] \in Statuses
<1>1. /\ change[c].field \in Fields /\ change[c].to \in Values
      /\ author \in [Rows -> [Fields -> Changes \cup {Nobody}]]
      /\ wrote \in [Changes -> SUBSET (Programs \cup {Nobody})]
  BY DEF Typed, ChangeRows
<1>2. CASE r \in rows'
  <2>1. /\ val' = [before EXCEPT ![r][change[c].field] = change[c].to]
        /\ author' = [author EXCEPT ![r][change[c].field] = c]
        /\ wrote' = [wrote EXCEPT ![c] = @ \cup {prog'[r]}]
    BY <1>2 DEF Write
  <2>2. val' \in [Rows -> [Fields -> Values]]
    BY <1>1, <2>1
  <2>3. author' \in [Rows -> [Fields -> Changes \cup {Nobody}]]
    BY <1>1, <2>1
  <2>4. wrote' \in [Changes -> SUBSET (Programs \cup {Nobody})]
    BY <1>1, <2>1
  <2>5. \A q \in Rows : before[q]["status"] \in Statuses => val'[q]["status"] \in Statuses
    BY <1>1, <2>1 DEF Fields
  <2> QED
    BY <2>2, <2>3, <2>4, <2>5
<1>3. CASE r \notin rows'
  BY <1>1, <1>3 DEF Write
<1> QED
  BY <1>2, <1>3

LEMMA BlankTyped ==
    ASSUME Typed, Sane, NEW r \in Rows, r \in rows'
    PROVE  /\ Blank(r) \in [Rows -> [Fields -> Values]]
           /\ \A q \in rows \cup {r} : Blank(r)[q]["status"] \in Statuses
           /\ \A q \in Rows \ {r} : Blank(r)[q] = val[q]
           /\ r \in rows => Blank(r) = val
<1>1. val \in [Rows -> [Fields -> Values]] /\ \A q \in rows : q \in Rows /\ val[q]["status"] \in Statuses
  BY RowIds DEF Typed, Sane
<1>2. [rate |-> Unknown, status |-> "active"] \in [Fields -> Values]
  BY DEF Fields, Values, Statuses
<1>3. "active" \in Statuses
  BY DEF Statuses
<1> QED
  BY <1>1, <1>2, <1>3 DEF Blank

LEMMA BudgetTyped ==
    ASSUME Typed, Turn \/ Fault \/ UNCHANGED budget
    PROVE  turns' \in 0 .. MaxTurns /\ faults' \in 0 .. MaxFaults
<1>1. turns \in 0 .. MaxTurns /\ faults \in 0 .. MaxFaults
  BY DEF Typed
<1> QED
  BY <1>1, Bounds DEF Turn, Fault, budget
-----------------------------------------------------------------------------
\* The steps of a scrape leave the rows alone.
LEMMA ScanStep ==
    ASSUME Typed, Sane, NEW w \in Scans,
           \/ \E p \in Pages : ScanFind(w, p)
           \/ \E f \in Fields : ScanSkip(w, f) \/ ScanCheck(w, f)
           \/ \E c \in Changes : ScanInsert(w, c)
           \/ ScanEnd(w) \/ ScanFails(w)
    PROVE  (Typed /\ Sane)' /\ Appended
<1>1. UNCHANGED <<table, gate, decide, author, wrote, homeless, lost, excuse>>
  BY DEF ScanFind, ScanSkip, ScanCheck, ScanInsert, ScanEnd, ScanFails, history
<1>2. UNCHANGED <<rows, last, prog, src, val, engine>>
  BY <1>1 DEF table
<1>3. turns' \in 0 .. MaxTurns /\ faults' \in 0 .. MaxFaults
  BY BudgetTyped DEF ScanFind, ScanSkip, ScanCheck, ScanInsert, ScanEnd, ScanFails
<1>4. Appended
  BY <1>2, Untouched
<1>t. /\ scan \in [Scans -> ScanStates] /\ change \in [Changes -> ChangeRows]
      /\ overlap \in BOOLEAN
      /\ \A v \in Scans : scan[v].row <= last /\ (scan[v].pc # "idle" => scan[v].page \in Pages)
      /\ \A c \in Changes : change[c].row <= last
      /\ last \in 0 .. MaxRow
  BY DEF Typed, Sane
<1>5. /\ overlap' \in BOOLEAN
      /\ scan' \in [Scans -> ScanStates] /\ change' \in [Changes -> ChangeRows]
      /\ \A v \in Scans : scan'[v].row <= last /\ (scan'[v].pc # "idle" => scan'[v].page \in Pages)
      /\ \A c \in Changes : change'[c].row <= last
      /\ \A c \in Changes :
            \/ change'[c] = change[c]
            \/ /\ change[c].status = "none" /\ change'[c].status = "pending"
               /\ change'[c].prog \in Programs
               /\ change'[c].field = "status" => change'[c].to \in Statuses
  <2>1. CASE \E p \in Pages : ScanFind(w, p)
    <3>1. PICK p \in Pages : ScanFind(w, p)
      BY <2>1
    <3>0. \A q \in rows : q <= last
      BY RowIds
    <3>2. /\ IdOf(p.prog) \in 0 .. MaxRow /\ IdOf(p.prog) <= last
          /\ Differs(IdOf(p.prog), p) \in SUBSET Fields
      BY <1>t, <3>0, RowIds, Bounds DEF IdOf, RowOf, Differs, Rows
    <3>3. [pc |-> "diff", row |-> IdOf(p.prog), page |-> p,
           left |-> Differs(IdOf(p.prog), p), field |-> "rate"] \in ScanStates
      BY <3>2 DEF ScanStates, Fields
    <3>4. UNCHANGED change
      BY <3>1 DEF ScanFind
    <3>5. overlap' \in BOOLEAN
      BY <3>1 DEF ScanFind
    <3> QED
      BY <1>t, <3>1, <3>2, <3>3, <3>4, <3>5 DEF ScanFind
  <2>2. CASE \E f \in Fields : ScanSkip(w, f) \/ ScanCheck(w, f)
    <3>1. UNCHANGED <<change, overlap>>
      BY <2>2 DEF ScanSkip, ScanCheck, history
    <3> QED
      BY <1>t, <2>2, <3>1 DEF ScanSkip, ScanCheck, ScanStates
  <2>3. CASE \E c \in Changes : ScanInsert(w, c)
    <3>1. PICK c \in Changes : ScanInsert(w, c)
      BY <2>3
    <3> DEFINE new == Queued("pending", scan[w].row, scan[w].page, scan[w].field)
    <3>2. scan[w].page \in Pages /\ scan[w].row \in 0 .. MaxRow /\ scan[w].field \in Fields
      BY <1>t, <3>1 DEF ScanInsert, ScanStates
    <3>3. /\ new \in ChangeRows /\ new.status = "pending" /\ new.row <= last /\ new.prog \in Programs
          /\ new.field = "status" => new.to \in Statuses
      BY <1>t, <3>2, QueuedTyped, PageTypes
    <3>4. change' = [change EXCEPT ![c] = new] /\ change[c] = NoChange
      BY <3>1 DEF ScanInsert
    <3>5. overlap' = overlap
      BY <3>1 DEF ScanInsert, history
    <3>6. scan' \in [Scans -> ScanStates]
          /\ \A v \in Scans : scan'[v].page = scan[v].page /\ scan'[v].row = scan[v].row
          /\ scan'[w].pc = "diff" /\ \A u \in Scans \ {w} : scan'[u] = scan[u]
      <4>1. scan' = [scan EXCEPT ![w].pc = "diff", ![w].left = @ \ {scan[w].field},
                                 ![w].field = "rate"]
        BY <3>1 DEF ScanInsert
      <4>2. scan[w] \in ScanStates
        BY <1>t
      <4>3. scan' = [scan EXCEPT ![w] = [scan[w] EXCEPT !.pc = "diff",
                        !.left = @ \ {scan[w].field}, !.field = "rate"]]
        BY <1>t, <4>1, <4>2 DEF ScanStates
      <4>4. [scan[w] EXCEPT !.pc = "diff", !.left = @ \ {scan[w].field}, !.field = "rate"]
                \in ScanStates
        BY <4>2 DEF ScanStates, Fields
      <4>5. [scan[w] EXCEPT !.pc = "diff", !.left = @ \ {scan[w].field}, !.field = "rate"].page
                = scan[w].page
            /\ [scan[w] EXCEPT !.pc = "diff", !.left = @ \ {scan[w].field}, !.field = "rate"].row
                = scan[w].row
        BY <4>2 DEF ScanStates
      <4>6. [scan[w] EXCEPT !.pc = "diff", !.left = @ \ {scan[w].field}, !.field = "rate"].pc = "diff"
        BY <4>2 DEF ScanStates
      <4> QED
        BY <1>t, <4>3, <4>4, <4>5, <4>6
    <3> HIDE DEF new
    <3> QED
      BY <1>t, <3>2, <3>3, <3>4, <3>5, <3>6, NothingTyped
  <2>4. CASE ScanEnd(w) \/ ScanFails(w)
    <3>1. UNCHANGED <<change, overlap>>
      BY <2>4 DEF ScanEnd, ScanFails, history
    <3> QED
      BY <1>t, <2>4, <3>1, NothingTyped DEF ScanEnd, ScanFails
  <2> QED
    BY <2>1, <2>2, <2>3, <2>4
<1>6. Typed'
  BY <1>1, <1>2, <1>3, <1>5 DEF Typed
<1>7. decide.pc # "idle" => decide.change \in Changes /\ change[decide.change].status # "none"
  BY DEF Sane
<1>8. Sane'
  BY <1>1, <1>2, <1>5, <1>7 DEF Sane
<1> QED
  BY <1>4, <1>6, <1>8
-----------------------------------------------------------------------------
\* Decisions: a row is found or made, then written, then the change is marked.
LEMMA ApproveStep ==
    ASSUME Typed, Sane, NEW c \in Changes, NEW r \in Rows, ApproveStart(c, r)
    PROVE  (Typed /\ Sane)' /\ Appended
<1>1. change[c].status # "none" /\ Place(c, r)
      /\ UNCHANGED <<engine, gate, change, scan, author, wrote, lost, excuse, overlap>>
      /\ val' = (IF r \in rows' THEN Blank(r) ELSE val)
      /\ decide' = [pc |-> "write", change |-> c, row |-> r]
  BY DEF ApproveStart, Offered
<1>2. Appended /\ homeless' \subseteq Changes
  BY <1>1, Placed
<1>3. turns' \in 0 .. MaxTurns /\ faults' \in 0 .. MaxFaults
  BY BudgetTyped DEF ApproveStart, Offered
<1>4. /\ val' \in [Rows -> [Fields -> Values]]
      /\ \A q \in rows' : val'[q]["status"] \in Statuses
  <2>1. val \in [Rows -> [Fields -> Values]] /\ \A q \in rows : val[q]["status"] \in Statuses
    BY DEF Typed, Sane
  <2>2. rows' \subseteq rows \cup {r}
    BY <1>1 DEF Place
  <2> QED
    BY <1>1, <2>1, <2>2, BlankTyped
<1>5. r \in 1 .. last' /\ r \in 0 .. MaxRow
  BY <1>1, Placed, Bounds DEF Rows
<1>6. Typed'
  BY <1>1, <1>2, <1>3, <1>4, <1>5 DEF Typed, Appended, Decisions
<1>7. Sane'
  <2>1. last \in 0 .. MaxRow /\ last' \in 0 .. MaxRow /\ last <= last'
        /\ change \in [Changes -> ChangeRows] /\ scan \in [Scans -> ScanStates]
    BY <1>2 DEF Typed, Appended
  <2>2. \A d \in Changes : change[d].row <= last'
    BY <2>1 DEF Sane, ChangeRows
  <2>3. \A w \in Scans : scan[w].row <= last'
    BY <2>1 DEF Sane, ScanStates
  <2>4. \A q \in rows' : prog'[q] \in Programs
    BY <1>2, Named
  <2> QED
    BY <1>1, <1>4, <1>5, <2>2, <2>3, <2>4 DEF Sane
<1> QED
  BY <1>2, <1>6, <1>7

LEMMA DecisionStep ==
    ASSUME Typed, Sane, ApproveWrite \/ ApproveMark \/ ApproveBreaks \/ \E c \in Changes : Reject(c)
    PROVE  (Typed /\ Sane)' /\ Appended
<1>1. UNCHANGED <<rows, last, prog, src, engine, gate, scan, homeless, excuse, overlap>>
  BY DEF ApproveWrite, ApproveMark, ApproveBreaks, Reject, table, history
<1>2. turns' \in 0 .. MaxTurns /\ faults' \in 0 .. MaxFaults
  BY BudgetTyped DEF ApproveWrite, ApproveMark, ApproveBreaks, Reject, Offered
<1>3. Appended
  BY <1>1, Untouched
<1>t. /\ val \in [Rows -> [Fields -> Values]] /\ \A q \in rows : val[q]["status"] \in Statuses
      /\ change \in [Changes -> ChangeRows] /\ decide \in Decisions /\ lost \subseteq Changes
      /\ author \in [Rows -> [Fields -> Changes \cup {Nobody}]]
      /\ wrote \in [Changes -> SUBSET (Programs \cup {Nobody})]
      /\ last \in 0 .. MaxRow /\ \A c \in Changes : change[c].row <= last
      /\ decide.pc # "idle" => /\ decide.change \in Changes /\ decide.row \in 1 .. last
                               /\ change[decide.change].status # "none"
      /\ decide.pc = "idle" => decide = NoDecision
      /\ \A c \in Changes : change[c].status # "none" =>
            /\ change[c].prog \in Programs
            /\ change[c].field = "status" => change[c].to \in Statuses
  BY DEF Typed, Sane
<1>4. /\ val' \in [Rows -> [Fields -> Values]] /\ \A q \in rows : val'[q]["status"] \in Statuses
      /\ author' \in [Rows -> [Fields -> Changes \cup {Nobody}]]
      /\ wrote' \in [Changes -> SUBSET (Programs \cup {Nobody})]
  <2>1. CASE ApproveWrite
    <3>1. /\ decide.change \in Changes /\ decide.row \in Rows
          /\ Write(decide.change, decide.row, val)
          /\ change[decide.change].field = "status" => change[decide.change].to \in Statuses
      BY <1>t, <2>1, Bounds DEF ApproveWrite, Rows
    <3>2. prog' \in [Rows -> Programs \cup {Nobody}]
      BY <1>3 DEF Appended
    <3> QED
      BY <1>t, <3>1, <3>2, Written, RowIds
  <2>2. CASE ~ApproveWrite
    BY <1>t, <2>2 DEF ApproveMark, ApproveBreaks, Reject, table, history
  <2> QED
    BY <2>1, <2>2
<1>5. /\ change' \in [Changes -> ChangeRows] /\ decide' \in Decisions /\ lost' \subseteq Changes
      /\ decide'.pc # "idle" => /\ decide'.change \in Changes /\ decide'.row \in 1 .. last
                                /\ change'[decide'.change].status # "none"
      /\ decide'.pc = "idle" => decide' = NoDecision
      /\ \A c \in Changes : /\ change'[c].prog = change[c].prog /\ change'[c].field = change[c].field
                            /\ change'[c].to = change[c].to /\ change'[c].row <= last
                            /\ change'[c].status # "none" => change[c].status # "none"
  <2>1. CASE ApproveWrite
    <3>1. UNCHANGED <<change, lost>> /\ decide' = [decide EXCEPT !.pc = "mark"] /\ decide.pc = "write"
      BY <2>1 DEF ApproveWrite
    <3> QED
      BY <1>t, <3>1 DEF Decisions
  <2>2. CASE ApproveMark
    <3>1. /\ change' = [change EXCEPT ![decide.change].status = "approved",
                                      ![decide.change].row = decide.row]
          /\ decide' = NoDecision /\ decide.pc = "mark" /\ UNCHANGED lost
      BY <2>2 DEF ApproveMark, history
    <3>2. decide.row \in 0 .. MaxRow
      BY <1>t DEF Decisions
    <3> QED
      BY <1>t, <3>1, <3>2, NothingTyped DEF ChangeRows
  <2>3. CASE ApproveBreaks
    <3>1. UNCHANGED change /\ decide' = NoDecision /\ decide # NoDecision
          /\ lost' = lost \cup {decide.change}
      BY <2>3 DEF ApproveBreaks
    <3> QED
      BY <1>t, <3>1, NothingTyped
  <2>4. CASE \E c \in Changes : Reject(c)
    <3>1. PICK c \in Changes : Reject(c)
      BY <2>4
    <3>2. /\ change[c].status # "none" /\ change' = [change EXCEPT ![c].status = "rejected"]
          /\ lost' \subseteq lost \cup {c} /\ decide' = decide
      BY <3>1 DEF Reject, Offered
    <3> QED
      BY <1>t, <3>2 DEF ChangeRows
  <2> QED
    BY <2>1, <2>2, <2>3, <2>4
<1>6. Typed'
  BY <1>1, <1>2, <1>4, <1>5 DEF Typed
<1>7. Sane'
  BY <1>1, <1>t, <1>4, <1>5 DEF Sane
<1> QED
  BY <1>3, <1>6, <1>7

LEMMA MaterializeStep ==
    ASSUME Typed, Sane, NEW c \in Changes, NEW r \in Rows, Materialize(c, r)
    PROVE  (Typed /\ Sane)' /\ Appended
<1>1. /\ change[c].status = "approved" /\ change[c].row = 0
      /\ Place(c, r) /\ Write(c, r, Blank(r))
      /\ change' = [change EXCEPT ![c].row = r]
      /\ UNCHANGED <<engine, gate, scan, decide, lost, excuse, overlap, turns, faults>>
  BY DEF Materialize, budget
<1>2. Appended /\ homeless' \subseteq Changes /\ r \in rows' /\ r \in 1 .. last'
  BY <1>1, Placed
<1>3. /\ change[c].field = "status" => change[c].to \in Statuses
      /\ change \in [Changes -> ChangeRows] /\ scan \in [Scans -> ScanStates]
      /\ decide \in Decisions
      /\ last \in 0 .. MaxRow /\ last' \in 0 .. MaxRow /\ last <= last'
  BY <1>1, <1>2 DEF Sane, Typed, Appended
<1>4. /\ val' \in [Rows -> [Fields -> Values]]
      /\ author' \in [Rows -> [Fields -> Changes \cup {Nobody}]]
      /\ wrote' \in [Changes -> SUBSET (Programs \cup {Nobody})]
      /\ \A q \in rows' : val'[q]["status"] \in Statuses
  <2>1. Blank(r) \in [Rows -> [Fields -> Values]]
        /\ \A q \in rows \cup {r} : Blank(r)[q]["status"] \in Statuses
    BY <1>2, BlankTyped
  <2>2. rows' \subseteq rows \cup {r}
    BY <1>1 DEF Place
  <2>3. prog' \in [Rows -> Programs \cup {Nobody}]
    BY <1>2 DEF Appended
  <2> QED
    BY <1>1, <1>3, <2>1, <2>2, <2>3, Written, RowIds
<1>5. /\ change' \in [Changes -> ChangeRows]
      /\ \A d \in Changes : /\ change'[d].prog = change[d].prog /\ change'[d].to = change[d].to
                            /\ change'[d].field = change[d].field
                            /\ change'[d].status = change[d].status
                            /\ change'[d].row <= last'
  <2>1. r \in 0 .. MaxRow /\ r <= last'
    BY <1>2, <1>3, Bounds
  <2>2. \A d \in Changes : change[d].row <= last'
    BY <1>3 DEF Sane, ChangeRows
  <2> QED
    BY <1>1, <1>3, <2>1, <2>2 DEF ChangeRows
<1>6. Typed'
  BY <1>1, <1>2, <1>4, <1>5 DEF Typed, Appended
<1>7. Sane'
  <2>1. \A q \in rows' : prog'[q] \in Programs
    BY <1>2, Named
  <2>2. \A w \in Scans : scan[w].row <= last'
    BY <1>3 DEF Sane, ScanStates
  <2>3. decide.pc # "idle" => decide.row \in 1 .. last'
    BY <1>3, Bounds DEF Sane, Decisions
  <2> QED
    BY <1>1, <1>4, <1>5, <2>1, <2>2, <2>3 DEF Sane
<1> QED
  BY <1>2, <1>6, <1>7
-----------------------------------------------------------------------------
\* Administrators' edits and the gate.
LEMMA EditStep ==
    ASSUME Typed, Sane,
           \/ \E p \in Pages : Create(p)
           \/ \E r \in Rows :
                 \/ \E f \in Fields, v \in Values : Edit(r, f, v)
                 \/ \E e \in EngineChoices : EditEngine(r, e)
                 \/ Delete(r)
                 \/ \E s \in {"blocked", "ready"}, force \in BOOLEAN : SetGate(r, s, force)
    PROVE  (Typed /\ Sane)' /\ Appended
<1>1. UNCHANGED <<change, scan, decide, wrote, homeless, lost, overlap>>
  BY DEF Create, Edit, EditEngine, Delete, SetGate, history
<1>2. turns' \in 0 .. MaxTurns /\ faults' \in 0 .. MaxFaults
  BY BudgetTyped DEF Create, Edit, EditEngine, Delete, SetGate
<1>t. /\ last \in 0 .. MaxRow /\ rows \subseteq 1 .. last
      /\ prog \in [Rows -> Programs \cup {Nobody}] /\ src \in [Rows -> Sources]
      /\ val \in [Rows -> [Fields -> Values]] /\ engine \in [Rows -> Engines]
      /\ gate \in [Rows -> {"blocked", "ready"}]
      /\ author \in [Rows -> [Fields -> Changes \cup {Nobody}]]
      /\ excuse \in [Rows -> SUBSET {"forced", "engine edited"}]
      /\ \A q \in rows : q \in Rows /\ val[q]["status"] \in Statuses
  BY RowIds DEF Typed, Sane
<1>3. /\ Appended
      /\ val' \in [Rows -> [Fields -> Values]] /\ engine' \in [Rows -> Engines]
      /\ gate' \in [Rows -> {"blocked", "ready"}]
      /\ author' \in [Rows -> [Fields -> Changes \cup {Nobody}]]
      /\ excuse' \in [Rows -> SUBSET {"forced", "engine edited"}]
      /\ \A q \in rows' : val'[q]["status"] \in Statuses
  <2>1. CASE \E p \in Pages : Create(p)
    <3>1. PICK p \in Pages : Create(p)
      BY <2>1
    <3>2. /\ last < MaxRow /\ last' = last + 1 /\ rows' = rows \cup {last'}
          /\ prog' = [prog EXCEPT ![last'] = p.prog]
          /\ src'  = [src EXCEPT ![last'] = p.src]
          /\ val'  = [val EXCEPT ![last'] = [rate |-> p.rate, status |-> p.status]]
          /\ UNCHANGED <<engine, gate, author, excuse>>
      BY <3>1 DEF Create, history
    <3>3. [rate |-> p.rate, status |-> p.status] \in [Fields -> Values]
          /\ p.status \in Statuses /\ p.prog \in Programs /\ p.src \in Sources
      BY PageTypes DEF Fields
    <3>4. last' \in Rows /\ last' \in 0 .. MaxRow /\ last <= last' /\ rows' \subseteq 1 .. last'
      <4>1. last \in 0 .. MaxRow /\ rows \subseteq 1 .. last
        BY <1>t
      <4> QED
        BY <4>1, <3>2, Bounds DEF Rows
    <3>5. Appended
      <4>0. last \in 0 .. MaxRow
        BY <1>t
      <4>1. \A q \in Rows : q <= last => q # last'
        BY <4>0, <3>2 DEF Rows
      <4>2. last' > last
        BY <4>0, <3>2
      <4>3. prog \in [Rows -> Programs \cup {Nobody}] /\ src \in [Rows -> Sources]
        BY <1>t
      <4>4. prog'[last'] = p.prog /\ \A q \in Rows : q # last' => prog'[q] = prog[q] /\ src'[q] = src[q]
        BY <4>3, <3>2, <3>4
      <4>5. prog' \in [Rows -> Programs \cup {Nobody}] /\ src' \in [Rows -> Sources]
        BY <4>3, <3>2, <3>3, <3>4
      <4> QED
        BY <3>2, <3>3, <3>4, <4>1, <4>2, <4>4, <4>5 DEF Appended
    <3>6. /\ val' \in [Rows -> [Fields -> Values]]
          /\ \A q \in rows' : val'[q]["status"] \in Statuses
      <4>1. /\ val \in [Rows -> [Fields -> Values]]
            /\ \A q \in rows : q \in Rows /\ val[q]["status"] \in Statuses
        BY <1>t
      <4>2. val'[last']["status"] = p.status
        BY <4>1, <3>2, <3>4
      <4> QED
        BY <4>1, <4>2, <3>2, <3>3, <3>4
    <3> QED
      BY <1>t, <3>2, <3>5, <3>6
  <2>2. CASE \E r \in Rows, f \in Fields, v \in Values : Edit(r, f, v)
    <3>1. PICK r \in Rows, f \in Fields, v \in Values : Edit(r, f, v)
      BY <2>2
    <3>2. /\ val' = [val EXCEPT ![r][f] = v]
          /\ author' = [author EXCEPT ![r][f] = Nobody]
          /\ v \in (IF f = "rate" THEN Rates ELSE Statuses)
          /\ UNCHANGED <<rows, last, prog, src, engine, gate, excuse>>
      BY <3>1 DEF Edit
    <3>3. Appended
      BY <3>2, Untouched
    <3>4. \A q \in rows : val'[q]["status"] \in Statuses
      BY <1>t, <3>2 DEF Fields
    <3> QED
      BY <1>t, <3>2, <3>3, <3>4
  <2>3. CASE \E r \in Rows, e \in EngineChoices : EditEngine(r, e)
    <3>1. PICK r \in Rows, e \in EngineChoices : EditEngine(r, e)
      BY <2>3
    <3>2. /\ engine' = [engine EXCEPT ![r] = e]
          /\ excuse' = [excuse EXCEPT ![r] = @ \cup {"engine edited"}]
          /\ UNCHANGED <<rows, last, prog, src, val, gate, author>>
      BY <3>1 DEF EditEngine
    <3>3. Appended
      BY <3>2, Untouched
    <3> QED
      BY <1>t, <3>2, <3>3, Bounds
  <2>4. CASE \E r \in Rows : Delete(r)
    <3>1. PICK r \in Rows : Delete(r)
      BY <2>4
    <3>2. /\ rows' = rows \ {r}
          /\ UNCHANGED <<last, prog, src, val, engine, gate, author, excuse>>
      BY <3>1 DEF Delete, history
    <3>3. Appended
      BY <3>2, Untouched
    <3> QED
      BY <1>t, <3>2, <3>3
  <2>5. CASE \E r \in Rows, s \in {"blocked", "ready"}, force \in BOOLEAN : SetGate(r, s, force)
    <3>1. PICK r \in Rows, s \in {"blocked", "ready"}, force \in BOOLEAN : SetGate(r, s, force)
      BY <2>5
    <3>2. /\ gate' = [gate EXCEPT ![r] = s]
          /\ excuse' = [excuse EXCEPT ![r] = IF force THEN {"forced"} ELSE {}]
          /\ UNCHANGED <<rows, last, prog, src, val, engine, author>>
      BY <3>1 DEF SetGate, table
    <3>3. Appended
      BY <3>2, Untouched
    <3> QED
      BY <1>t, <3>2, <3>3
  <2> QED
    BY <2>1, <2>2, <2>3, <2>4, <2>5
<1>4. Typed'
  BY <1>1, <1>2, <1>3 DEF Typed, Appended
<1>5. Sane'
  <2>1. \A q \in rows' : prog'[q] \in Programs
    BY <1>3, Named
  <2>2. last \in 0 .. MaxRow /\ last' \in 0 .. MaxRow /\ last <= last'
    BY <1>t, <1>3 DEF Appended
  <2>3. /\ \A w \in Scans : scan[w].row <= last'
        /\ \A c \in Changes : change[c].row <= last'
        /\ decide.pc # "idle" => decide.row \in 1 .. last'
    <3>1. /\ scan \in [Scans -> ScanStates] /\ change \in [Changes -> ChangeRows]
          /\ decide \in Decisions
          /\ \A w \in Scans : scan[w].row <= last
          /\ \A c \in Changes : change[c].row <= last
          /\ decide.pc # "idle" => decide.row \in 1 .. last
      BY DEF Typed, Sane
    <3>2. \A w \in Scans : scan[w].row <= last'
      BY <2>2, <3>1 DEF ScanStates
    <3>3. \A c \in Changes : change[c].row <= last'
      BY <2>2, <3>1 DEF ChangeRows
    <3>4. decide.pc # "idle" => decide.row \in 1 .. last'
      BY <2>2, <3>1
    <3> QED
      BY <3>2, <3>3, <3>4
  <2> QED
    BY <1>1, <1>3, <2>1, <2>3 DEF Sane
<1> QED
  BY <1>3, <1>4, <1>5

LEMMA TypedNext ==
    ASSUME Typed, Sane, [Next]_vars PROVE (Typed /\ Sane)' /\ Appended
<1>1. CASE Next
  BY <1>1, ScanStep, ApproveStep, DecisionStep, MaterializeStep, EditStep DEF Next
<1>2. CASE UNCHANGED vars
  <2>1. UNCHANGED <<rows, last, prog, src>>
    BY <1>2 DEF vars, table
  <2> QED
    BY <1>2, <2>1, Untouched DEF vars, table, history, budget, Typed, Sane
<1> QED
  BY <1>1, <1>2

LEMMA TypesHold == Spec => [](Typed /\ Sane)
<1>1. Typed /\ Sane /\ [Next]_vars => (Typed /\ Sane)'
  BY TypedNext
<1> QED
  BY <1>1, TypedInit, PTL DEF Spec

\* Every column, change, scrape and decision keeps its type.
THEOREM TypeCorrect == Spec => []TypeOK
<1>1. ASSUME Typed, Sane PROVE TypeOK
  BY <1>1, RowIds DEF Typed, Sane, TypeOK, ChangeRows, ScanStates, Decisions
<1> QED
  BY <1>1, TypesHold, PTL
-----------------------------------------------------------------------------
LEMMA CostedRow ==
    ASSUME Typed, Sane, NEW r \in rows
    PROVE  ProgrammeOf(r) \in Costed /\ ProgrammeOf(r) \in Programmes
<1>1. /\ engine[r] \in Engines /\ val[r]["status"] \in Statuses /\ prog[r] \in Programs
  BY RowIds DEF Typed, Sane
<1>2. /\ Terms[prog[r]].declared \subseteq Keys
      /\ Terms[prog[r]].pct \in Amounts /\ Terms[prog[r]].cap \in Amounts
  BY <1>1, ConstantsOK
<1>3. Declared(r) = (IF r \in Catalogued THEN Terms[prog[r]].declared ELSE {})
  BY DEF Declared
<1>4. ProgrammeOf(r) \in Costed
  <2>1. Declared(r) \in {{}} \cup {Terms[q].declared : q \in Programs}
    BY <1>1, <1>3
  <2> QED
    BY <1>1, <2>1 DEF ProgrammeOf, Costed
<1>5. ProgrammeOf(r) \in Programmes
  BY <1>1, <1>2, <1>3 DEF ProgrammeOf, Programmes
<1> QED
  BY <1>4, <1>5

\* Status and chart agree, but in the five cases of PromiseFails, on every row that
\* scrapes, approvals and edits can lead to, for every production asked about.
THEOREM StatusMatchesChartAlways == Spec => []StatusMatchesChart
<1>1. ASSUME Typed, Sane PROVE StatusMatchesChart
  <2>1. ASSUME NEW r \in rows PROVE ProgrammeOf(r) \in Consistent
    BY <1>1, CostedRow, ConstantsOK, PromiseKeptAlways, FigureIsPromisedAlways DEF Consistent
  <2> QED
    BY <2>1 DEF StatusMatchesChart
<1> QED
  BY <1>1, TypesHold, PTL

\* No figure stands where the producer said nothing, on any row that can be reached.
THEOREM SilenceGivesNoFigureAlways == Spec => []SilenceGivesNoFigure
<1>1. ASSUME Typed, Sane PROVE SilenceGivesNoFigure
  <2>1. ASSUME NEW r \in rows PROVE ProgrammeOf(r) \in Silent
    BY <1>1, CostedRow, ConstantsOK, BlankSpendNoFigureAlways DEF Silent
  <2> QED
    BY <2>1 DEF SilenceGivesNoFigure
<1> QED
  BY <1>1, TypesHold, PTL

\* Filling in a further figure costs no base and, below what was assumed, raises
\* none, on any row that can be reached.
THEOREM AnswersKeepFiguresAlways == Spec => []AnswersKeepFigures
<1>1. ASSUME Typed, Sane PROVE AnswersKeepFigures
  <2>1. ASSUME NEW r \in rows PROVE ProgrammeOf(r) \in Steady
    BY <1>1, CostedRow, ConstantsOK, AnswersCountAlways DEF Steady
  <2> QED
    BY <2>1 DEF AnswersKeepFigures
<1> QED
  BY <1>1, TypesHold, PTL
-----------------------------------------------------------------------------
\* Whose row a change, a scrape and a decision point at.
Filed ==
    /\ \A c \in Changes : change[c].row # 0 =>
          prog[change[c].row] = change[c].prog \/ c \in homeless
    /\ \A w \in Scans : scan[w].pc # "idle" /\ scan[w].row # 0 =>
          prog[scan[w].row] = scan[w].page.prog
    /\ decide.pc # "idle" =>
          prog[decide.row] = change[decide.change].prog \/ decide.change \in homeless
    /\ \A c \in Changes : change[c].status = "none" => wrote[c] = {}
    /\ FiledByName

LEMMA FiledInit == Init => Filed
<1> SUFFICES ASSUME Init PROVE Filed
  OBVIOUS
<1>1. PICK p \in Pages :
        change = [c \in Changes |->
                     IF c \in Legacy THEN Queued("approved", 0, p, "rate") ELSE NoChange]
  BY DEF Init
<1>2. \A c \in Changes : change[c].row = 0
  BY <1>1, Bounds, QueuedTyped, NothingTyped DEF Fields
<1>3. wrote = [c \in Changes |-> {}] /\ scan = [w \in Scans |-> NoScan] /\ decide = NoDecision
  BY DEF Init
<1> QED
  BY <1>2, <1>3, NothingTyped DEF Filed, FiledByName

LEMMA FiledNext ==
    ASSUME Typed, Sane, Filed, [Next]_vars, Appended PROVE Filed'
<1>t. /\ change \in [Changes -> ChangeRows] /\ scan \in [Scans -> ScanStates]
      /\ decide \in Decisions /\ last \in 0 .. MaxRow
      /\ wrote \in [Changes -> SUBSET (Programs \cup {Nobody})]
  BY DEF Typed
<1>a. \A q \in 1 .. last : prog'[q] = prog[q]
  BY <1>t, Bounds DEF Appended, Rows
<1>r. /\ \A c \in Changes : change[c].row # 0 => change[c].row \in 1 .. last
      /\ \A w \in Scans : scan[w].row # 0 => scan[w].row \in 1 .. last
      /\ decide.pc # "idle" => decide.row \in 1 .. last
  BY <1>t DEF Sane, ChangeRows, ScanStates
\* A step that writes nothing and moves nothing.
<1>q. ASSUME UNCHANGED <<change, scan, decide, wrote, homeless>> PROVE Filed'
  BY <1>a, <1>r, <1>q DEF Filed, FiledByName, Sane
<1>1. ASSUME NEW w \in Scans, NEW p \in Pages, ScanFind(w, p) PROVE Filed'
  <2>1. /\ UNCHANGED <<change, decide, wrote, homeless, prog>>
        /\ scan' = [scan EXCEPT ![w] = [pc |-> "diff", row |-> IdOf(p.prog), page |-> p,
                        left |-> Differs(IdOf(p.prog), p), field |-> "rate"]]
    BY <1>1 DEF ScanFind, table
  <2>2. IdOf(p.prog) # 0 => prog[IdOf(p.prog)] = p.prog
    BY DEF IdOf, RowOf
  <2> QED
    BY <1>t, <2>1, <2>2 DEF Filed, FiledByName
<1>2. ASSUME NEW w \in Scans, NEW f \in Fields, ScanSkip(w, f) \/ ScanCheck(w, f) PROVE Filed'
  <2>1. UNCHANGED <<change, decide, wrote, homeless, prog>>
    BY <1>2 DEF ScanSkip, ScanCheck, table, history
  <2>2. \A v \in Scans : scan'[v].row = scan[v].row /\ scan'[v].page = scan[v].page
                        /\ (scan'[v].pc # "idle" => scan[v].pc # "idle")
    BY <1>t, <1>2 DEF ScanSkip, ScanCheck, ScanStates
  <2>3. \A v \in Scans : scan'[v].pc # "idle" /\ scan'[v].row # 0 =>
            prog[scan'[v].row] = scan'[v].page.prog
    <3> SUFFICES ASSUME NEW v \in Scans, scan'[v].pc # "idle", scan'[v].row # 0
                 PROVE  prog[scan'[v].row] = scan'[v].page.prog
      OBVIOUS
    <3>1. /\ scan'[v].row = scan[v].row /\ scan'[v].page = scan[v].page
          /\ scan[v].pc # "idle"
      BY <2>2
    <3>2. prog[scan[v].row] = scan[v].page.prog
      BY <3>1 DEF Filed
    <3> QED
      BY <3>1, <3>2
  <2> QED
    BY <2>1, <2>3 DEF Filed, FiledByName
<1>3. ASSUME NEW w \in Scans, NEW c \in Changes, ScanInsert(w, c) PROVE Filed'
  <2> DEFINE new == Queued("pending", scan[w].row, scan[w].page, scan[w].field)
  <2>1. /\ UNCHANGED <<decide, wrote, homeless, prog>>
        /\ change' = [change EXCEPT ![c] = new] /\ change[c] = NoChange
        /\ scan[w].pc = "insert"
    BY <1>3 DEF ScanInsert, table, history
  <2>2. \A v \in Scans : scan'[v].row = scan[v].row /\ scan'[v].page = scan[v].page
                        /\ (scan'[v].pc # "idle" => scan[v].pc # "idle")
    BY <1>t, <1>3 DEF ScanInsert, ScanStates
  <2>3. /\ scan[w].page \in Pages /\ scan[w].row \in 0 .. MaxRow /\ scan[w].field \in Fields
    BY <1>t, <2>1 DEF Sane, ScanStates
  <2>4. new.row = scan[w].row /\ new.prog = scan[w].page.prog /\ new.status = "pending"
    BY <2>3, QueuedTyped
  <2>5. new.row # 0 => prog[new.row] = new.prog
    BY <2>1, <2>4 DEF Filed
  <2>6. wrote[c] = {}
    BY <2>1, NothingTyped DEF Filed
  <2>7. decide.pc # "idle" => decide.change # c
    BY <2>1, NothingTyped DEF Sane
  <2> HIDE DEF new
  <2>8. \A d \in Changes : change'[d] = IF d = c THEN new ELSE change[d]
    BY <1>t, <2>1
  <2>9. /\ \A d \in Changes : change'[d].row # 0 =>
             prog[change'[d].row] = change'[d].prog \/ d \in homeless
        /\ \A d \in Changes : change'[d].status = "none" => wrote[d] = {}
        /\ \A d \in Changes : wrote[d] \subseteq {change'[d].prog} \/ d \in homeless
    BY <2>4, <2>5, <2>6, <2>8 DEF Filed, FiledByName
  <2>10. decide.pc # "idle" =>
             prog[decide.row] = change'[decide.change].prog \/ decide.change \in homeless
    BY <2>7, <2>8 DEF Filed, Sane
  <2>11. \A v \in Scans : scan'[v].pc # "idle" /\ scan'[v].row # 0 =>
            prog[scan'[v].row] = scan'[v].page.prog
    <3> SUFFICES ASSUME NEW v \in Scans, scan'[v].pc # "idle", scan'[v].row # 0
                 PROVE  prog[scan'[v].row] = scan'[v].page.prog
      OBVIOUS
    <3>1. /\ scan'[v].row = scan[v].row /\ scan'[v].page = scan[v].page
          /\ scan[v].pc # "idle"
      BY <2>2
    <3>2. prog[scan[v].row] = scan[v].page.prog
      BY <3>1 DEF Filed
    <3> QED
      BY <3>1, <3>2
  <2> QED
    BY <2>1, <2>9, <2>10, <2>11 DEF Filed, FiledByName
<1>4. ASSUME NEW w \in Scans, ScanEnd(w) \/ ScanFails(w) PROVE Filed'
  <2>1. UNCHANGED <<change, decide, wrote, homeless, prog>> /\ scan' = [scan EXCEPT ![w] = NoScan]
    BY <1>4 DEF ScanEnd, ScanFails, table, history
  <2> QED
    BY <1>t, <2>1, NothingTyped DEF Filed, FiledByName
<1>5. ASSUME NEW c \in Changes, NEW r \in Rows, ApproveStart(c, r) PROVE Filed'
  <2>1. /\ change[c].status # "none" /\ Place(c, r) /\ UNCHANGED <<change, scan, wrote>>
        /\ decide' = [pc |-> "write", change |-> c, row |-> r]
    BY <1>5 DEF ApproveStart, Offered
  <2>2. homeless \subseteq homeless' /\ (prog'[r] = change[c].prog \/ c \in homeless')
    BY <1>a, <1>r, <2>1, Placed DEF Filed
  <2> QED
    BY <1>a, <1>r, <2>1, <2>2 DEF Filed, FiledByName, Sane
<1>6. ASSUME ApproveWrite PROVE Filed'
  <2>1. /\ decide.pc = "write" /\ UNCHANGED <<change, scan, homeless, prog>>
        /\ Write(decide.change, decide.row, val)
        /\ decide' = [decide EXCEPT !.pc = "mark"]
    BY <1>6 DEF ApproveWrite
  <2>2. /\ decide.change \in Changes /\ change[decide.change].status # "none"
        /\ decide'.change = decide.change /\ decide'.row = decide.row
    BY <1>t, <2>1 DEF Sane, Decisions
  <2>3. wrote' = wrote \/ wrote' = [wrote EXCEPT ![decide.change] = @ \cup {prog[decide.row]}]
    BY <2>1 DEF Write
  <2>4. /\ \A c \in Changes : change[c].status = "none" => wrote'[c] = {}
        /\ \A c \in Changes : wrote'[c] \subseteq {change[c].prog} \/ c \in homeless
    BY <1>t, <2>1, <2>2, <2>3 DEF Filed, FiledByName
  <2> QED
    BY <2>1, <2>2, <2>4 DEF Filed, FiledByName
<1>7. ASSUME ApproveMark PROVE Filed'
  <2>1. /\ decide.pc = "mark" /\ UNCHANGED <<scan, wrote, homeless, prog>>
        /\ change' = [change EXCEPT ![decide.change].status = "approved",
                                    ![decide.change].row = decide.row]
        /\ decide' = NoDecision
    BY <1>7 DEF ApproveMark, table, history
  <2>2. decide.change \in Changes
    BY <2>1 DEF Sane
  <2>3. \A c \in Changes :
            /\ change'[c].prog = change[c].prog
            /\ change'[c].row = IF c = decide.change THEN decide.row ELSE change[c].row
            /\ change'[c].status = IF c = decide.change THEN "approved" ELSE change[c].status
    BY <1>t, <2>1, <2>2 DEF ChangeRows
  <2>4. \A c \in Changes : change'[c].row # 0 =>
            prog[change'[c].row] = change'[c].prog \/ c \in homeless
    <3>1. \A c \in Changes : change[c].row # 0 =>
              prog[change[c].row] = change[c].prog \/ c \in homeless
      BY DEF Filed
    <3>2. prog[decide.row] = change[decide.change].prog \/ decide.change \in homeless
      BY <2>1 DEF Filed
    <3> QED
      BY <2>3, <3>1, <3>2
  <2>5. /\ \A c \in Changes : change'[c].status = "none" => wrote[c] = {}
        /\ \A c \in Changes : wrote[c] \subseteq {change'[c].prog} \/ c \in homeless
    <3>1. /\ \A c \in Changes : change[c].status = "none" => wrote[c] = {}
          /\ \A c \in Changes : wrote[c] \subseteq {change[c].prog} \/ c \in homeless
      BY DEF Filed, FiledByName
    <3> QED
      BY <2>3, <3>1, Zenon
  <2>6. \A v \in Scans : scan[v].pc # "idle" /\ scan[v].row # 0 =>
            prog[scan[v].row] = scan[v].page.prog
    BY DEF Filed
  <2> QED
    BY <2>1, <2>4, <2>5, <2>6, NothingTyped DEF Filed, FiledByName
<1>8. ASSUME ApproveBreaks PROVE Filed'
  <2>1. UNCHANGED <<change, scan, wrote, homeless, prog>> /\ decide' = NoDecision
    BY <1>8 DEF ApproveBreaks, table
  <2> QED
    BY <2>1, NothingTyped DEF Filed, FiledByName
<1>9. ASSUME NEW c \in Changes, Reject(c) PROVE Filed'
  <2>1. /\ UNCHANGED <<scan, decide, wrote, homeless, prog>> /\ change[c].status # "none"
        /\ change' = [change EXCEPT ![c].status = "rejected"]
    BY <1>9 DEF Reject, Offered, table
  <2>2. \A d \in Changes : /\ change'[d].prog = change[d].prog /\ change'[d].row = change[d].row
                          /\ change'[d].status = "none" => change[d].status = "none"
    BY <1>t, <2>1 DEF ChangeRows
  <2> QED
    BY <2>1, <2>2 DEF Filed, FiledByName, Sane
<1>10. ASSUME NEW c \in Changes, NEW r \in Rows, Materialize(c, r) PROVE Filed'
  <2>1. /\ change[c].status = "approved" /\ change[c].row = 0 /\ Place(c, r)
        /\ Write(c, r, Blank(r)) /\ change' = [change EXCEPT ![c].row = r]
        /\ UNCHANGED <<scan, decide>>
    BY <1>10 DEF Materialize
  <2>2. homeless \subseteq homeless' /\ (prog'[r] = change[c].prog \/ c \in homeless')
    BY <2>1, Placed
  <2>3. wrote' = wrote \/ wrote' = [wrote EXCEPT ![c] = @ \cup {prog'[r]}]
    BY <2>1 DEF Write
  <2>4. \A d \in Changes : /\ change'[d].prog = change[d].prog /\ change'[d].status = change[d].status
                          /\ change'[d].row = IF d = c THEN r ELSE change[d].row
    BY <1>t, <2>1 DEF ChangeRows
  <2>5. /\ \A d \in Changes : change'[d].status = "none" => wrote'[d] = {}
        /\ \A d \in Changes : wrote'[d] \subseteq {change'[d].prog} \/ d \in homeless'
    BY <1>t, <2>1, <2>2, <2>3, <2>4 DEF Filed, FiledByName
  <2>6. \A d \in Changes : change'[d].row # 0 =>
            prog'[change'[d].row] = change'[d].prog \/ d \in homeless'
    BY <1>a, <1>r, <2>2, <2>4 DEF Filed
  <2>7. decide.pc # "idle" =>
            prog'[decide.row] = change'[decide.change].prog \/ decide.change \in homeless'
    BY <1>a, <1>r, <2>2, <2>4 DEF Filed, Sane
  <2>8. \A w \in Scans : scan[w].pc # "idle" /\ scan[w].row # 0 =>
            prog'[scan[w].row] = scan[w].page.prog
    BY <1>a, <1>r DEF Filed
  <2> QED
    BY <2>1, <2>5, <2>6, <2>7, <2>8 DEF Filed, FiledByName
<1>11. ASSUME \/ \E p \in Pages : Create(p)
              \/ \E r \in Rows :
                   \/ \E f \in Fields, v \in Values : Edit(r, f, v)
                   \/ \E e \in EngineChoices : EditEngine(r, e)
                   \/ Delete(r)
                   \/ \E s \in {"blocked", "ready"}, force \in BOOLEAN : SetGate(r, s, force)
       PROVE Filed'
  BY <1>q, <1>11 DEF Create, Edit, EditEngine, Delete, SetGate, history
<1>12. CASE UNCHANGED vars
  BY <1>q, <1>12 DEF vars, history
<1> QED
  BY <1>1, <1>2, <1>3, <1>4, <1>5, <1>6, <1>7, <1>8, <1>9, <1>10, <1>11, <1>12 DEF Next

\* A change reaches the row of its own programme, unless that had none when the
\* change was approved: then another's may be overwritten.
THEOREM FiledByNameAlways == Spec => []FiledByName
<1>1. Init => Typed /\ Sane /\ Filed
  BY TypedInit, FiledInit
<1>2. Typed /\ Sane /\ Filed /\ [Next]_vars => (Typed /\ Sane /\ Filed)'
  BY TypedNext, FiledNext
<1>3. Filed => FiledByName
  BY DEF Filed
<1> QED
  BY <1>1, <1>2, <1>3, PTL DEF Spec
-----------------------------------------------------------------------------
\* A gate that stands open does so for a row on record and with a cause.
Gated ==
    \A r \in Rows : gate[r] = "ready" => r <= last /\ (~Blocked(r) \/ excuse[r] # {})

\* What blocks a programme hangs on its row's engine, source and declaration.
LEMMA SameBlockers ==
    ASSUME NEW r \in Rows, engine'[r] = engine[r], prog'[r] = prog[r], src'[r] = src[r]
    PROVE  Blocked(r)' = Blocked(r)
BY DEF Blocked, Declared

LEMMA Grown ==
    ASSUME Typed, Appended, NEW q \in Rows, q <= last PROVE q <= last'
<1>1. last \in 0 .. MaxRow /\ last' \in 0 .. MaxRow /\ last <= last'
  BY DEF Typed, Appended
<1>2. last \in Nat /\ last' \in Nat /\ q \in Nat
  BY <1>1, Bounds DEF Rows
<1> QED
  BY <1>1, <1>2

LEMMA GatedInit == Init => Gated
<1> SUFFICES ASSUME Init PROVE Gated
  OBVIOUS
<1>1. \A r \in Rows : gate[r] = "blocked"
  BY DEF Init
<1> QED
  BY <1>1 DEF Gated

LEMMA GatedNext ==
    ASSUME Typed, Gated, [Next]_vars, Appended PROVE Gated'
<1>t. /\ last \in 0 .. MaxRow /\ last' \in 0 .. MaxRow /\ last <= last'
      /\ gate \in [Rows -> {"blocked", "ready"}] /\ engine \in [Rows -> Engines]
      /\ excuse \in [Rows -> SUBSET {"forced", "engine edited"}]
      /\ \A q \in Rows : q <= last => prog'[q] = prog[q] /\ src'[q] = src[q]
  BY DEF Typed, Appended
<1>g. \A r \in Rows : gate[r] = "ready" => r <= last /\ (~Blocked(r) \/ excuse[r] # {})
  BY DEF Gated
<1>1. ASSUME UNCHANGED <<engine, gate, excuse>> PROVE Gated'
  <2> SUFFICES ASSUME NEW q \in Rows, gate'[q] = "ready"
               PROVE  q <= last' /\ (~Blocked(q)' \/ excuse'[q] # {})
    BY DEF Gated
  <2>1. q <= last /\ (~Blocked(q) \/ excuse[q] # {})
    BY <1>1, <1>g
  <2>2. Blocked(q)' = Blocked(q)
    BY <1>1, <1>t, <2>1, SameBlockers
  <2>3. q <= last'
    BY <2>1, Grown
  <2> QED
    BY <1>1, <2>1, <2>2, <2>3
<1>2. ASSUME NEW r \in Rows, NEW e \in EngineChoices, EditEngine(r, e) PROVE Gated'
  <2>1. /\ UNCHANGED <<last, prog, src, gate>>
        /\ engine' = [engine EXCEPT ![r] = e]
        /\ excuse' = [excuse EXCEPT ![r] = @ \cup {"engine edited"}]
    BY <1>2 DEF EditEngine
  <2> SUFFICES ASSUME NEW q \in Rows, gate'[q] = "ready"
               PROVE  q <= last' /\ (~Blocked(q)' \/ excuse'[q] # {})
    BY DEF Gated
  <2>2. q <= last /\ (~Blocked(q) \/ excuse[q] # {})
    BY <2>1, <1>g
  <2>3. CASE q = r
    BY <1>t, <2>1, <2>2, <2>3
  <2>4. CASE q # r
    <3>1. engine'[q] = engine[q] /\ excuse'[q] = excuse[q] /\ prog'[q] = prog[q] /\ src'[q] = src[q]
      BY <1>t, <2>1, <2>4
    <3>2. Blocked(q)' = Blocked(q)
      BY <3>1, SameBlockers
    <3> QED
      BY <2>1, <2>2, <3>1, <3>2
  <2> QED
    BY <2>3, <2>4
<1>3. ASSUME NEW r \in Rows, NEW s \in {"blocked", "ready"}, NEW force \in BOOLEAN,
             SetGate(r, s, force)
      PROVE Gated'
  <2>1. /\ r \in rows /\ UNCHANGED <<last, prog, src, engine>>
        /\ gate' = [gate EXCEPT ![r] = s]
        /\ excuse' = [excuse EXCEPT ![r] = IF force THEN {"forced"} ELSE {}]
        /\ s = "blocked" \/ force \/ ~Blocked(r)
    BY <1>3 DEF SetGate, table
  <2> SUFFICES ASSUME NEW q \in Rows, gate'[q] = "ready"
               PROVE  q <= last' /\ (~Blocked(q)' \/ excuse'[q] # {})
    BY DEF Gated
  <2>2. Blocked(q)' = Blocked(q)
    BY <2>1, SameBlockers
  <2>3. CASE q = r
    <3>1. q <= last
      BY <2>1, <2>3, RowIds
    <3>2. s = "ready" /\ excuse'[q] = (IF force THEN {"forced"} ELSE {})
      BY <1>t, <2>1, <2>3
    <3> QED
      BY <2>1, <2>2, <2>3, <3>1, <3>2
  <2>4. CASE q # r
    <3>1. gate'[q] = gate[q] /\ excuse'[q] = excuse[q]
      BY <1>t, <2>1, <2>4
    <3> QED
      BY <1>g, <2>1, <2>2, <3>1
  <2> QED
    BY <2>3, <2>4
<1>4. CASE UNCHANGED vars
  BY <1>1, <1>4 DEF vars, table, history
<1>5. ASSUME NEW w \in Scans,
             \/ \E p \in Pages : ScanFind(w, p)
             \/ \E f \in Fields : ScanSkip(w, f) \/ ScanCheck(w, f)
             \/ \E c \in Changes : ScanInsert(w, c)
             \/ ScanEnd(w) \/ ScanFails(w)
      PROVE Gated'
  BY <1>1, <1>5 DEF ScanFind, ScanSkip, ScanCheck, ScanInsert, ScanEnd, ScanFails, table, history
<1>6. ASSUME NEW c \in Changes, NEW r \in Rows, ApproveStart(c, r) \/ Materialize(c, r)
      PROVE Gated'
  BY <1>1, <1>6 DEF ApproveStart, Materialize, table
<1>6r. ASSUME NEW c \in Changes, Reject(c) PROVE Gated'
  BY <1>1, <1>6r DEF Reject, table
<1>7. ASSUME ApproveWrite \/ ApproveMark \/ ApproveBreaks PROVE Gated'
  BY <1>1, <1>7 DEF ApproveWrite, ApproveMark, ApproveBreaks, table, history
<1>8. ASSUME NEW p \in Pages, Create(p) PROVE Gated'
  BY <1>1, <1>8 DEF Create, history
<1>9. ASSUME NEW r \in Rows, Delete(r) \/ \E f \in Fields, v \in Values : Edit(r, f, v)
      PROVE Gated'
  BY <1>1, <1>9 DEF Delete, Edit, history
<1> QED
  BY <1>2, <1>3, <1>4, <1>5, <1>6, <1>6r, <1>7, <1>8, <1>9 DEF Next

\* An open gate is a formula that could be approved, an override, or an engine
\* changed under the approval.
THEOREM OpenGateHasCauseAlways == Spec => []OpenGateHasCause
<1>1. Init => Typed /\ Sane /\ Gated
  BY TypedInit, GatedInit
<1>2. Typed /\ Sane /\ Gated /\ [Next]_vars => (Typed /\ Sane /\ Gated)'
  BY TypedNext, GatedNext
<1>3. Typed /\ Gated => OpenGateHasCause
  BY RowIds DEF Gated, OpenGateHasCause
<1> QED
  BY <1>1, <1>2, <1>3, PTL DEF Spec
-----------------------------------------------------------------------------
\* Without two scrapes at work, what one has found free is still free when it
\* inserts.
Asked ==
    /\ ~overlap => \A v, w \in Scans : Scanning(v) /\ Scanning(w) => v = w
    /\ ~overlap => \A w \in Scans :
          scan[w].pc = "insert" => PendingFor(scan[w].row, scan[w].field) = {}
    /\ AskedOnce

LEMMA AskedInit == Init => Asked
<1> SUFFICES ASSUME Init PROVE Asked
  OBVIOUS
<1>1. PICK p \in Pages :
        change = [c \in Changes |->
                     IF c \in Legacy THEN Queued("approved", 0, p, "rate") ELSE NoChange]
  BY DEF Init
<1>2. \A c \in Changes : change[c].status # "pending"
  BY <1>1, Bounds, QueuedTyped, NothingTyped DEF Fields
<1>3. \A w \in Scans : scan[w].pc = "idle"
  BY NothingTyped DEF Init
<1> QED
  BY <1>2, <1>3 DEF Asked, AskedOnce, Scanning

\* A step that leaves the scrapes alone and adds nothing to the queue.
LEMMA NothingAsked ==
    ASSUME Asked, UNCHANGED <<scan, overlap>>,
           \A c \in Changes : change'[c].status = "pending" =>
               /\ change[c].status = "pending" /\ change'[c].row = change[c].row
               /\ change'[c].field = change[c].field
    PROVE  Asked'
<1>1. \A r, f : PendingFor(r, f) = {} => PendingFor(r, f)' = {}
  BY DEF PendingFor
<1>2. ~overlap => \A v, w \in Scans : Scanning(v)' /\ Scanning(w)' => v = w
  BY DEF Asked, Scanning
<1>3. ~overlap => \A w \in Scans :
          scan[w].pc = "insert" => PendingFor(scan[w].row, scan[w].field)' = {}
  BY <1>1 DEF Asked
<1>4. AskedOnce'
  BY DEF Asked, AskedOnce
<1> QED
  BY <1>2, <1>3, <1>4 DEF Asked

LEMMA AskedNext ==
    ASSUME Typed, Sane, Asked, [Next]_vars PROVE Asked'
<1>t. /\ change \in [Changes -> ChangeRows] /\ scan \in [Scans -> ScanStates]
      /\ overlap \in BOOLEAN
  BY DEF Typed
<1>0. ASSUME UNCHANGED <<change, scan, overlap>> PROVE Asked'
  BY <1>0, NothingAsked
<1>1. ASSUME NEW w \in Scans, NEW p \in Pages, ScanFind(w, p) PROVE Asked'
  <2>1. /\ UNCHANGED change
        /\ overlap' = (overlap \/ \E v \in Scans \ {w} : Scanning(v))
        /\ scan' = [scan EXCEPT ![w] = [pc |-> "diff", row |-> IdOf(p.prog), page |-> p,
                        left |-> Differs(IdOf(p.prog), p), field |-> "rate"]]
    BY <1>1 DEF ScanFind
  <2>2. /\ scan'[w].pc = "diff"
        /\ \A v \in Scans \ {w} : scan'[v] = scan[v]
    BY <1>t, <2>1
  <2>3. ~overlap' => ~overlap /\ \A v \in Scans \ {w} : scan[v].pc = "idle"
    BY <2>1 DEF Scanning
  <2>4. AskedOnce'
    BY <2>1 DEF Asked, AskedOnce
  <2> QED
    BY <2>2, <2>3, <2>4 DEF Asked, Scanning
<1>2. ASSUME NEW w \in Scans, NEW f \in Fields, ScanSkip(w, f) PROVE Asked'
  <2>1. /\ UNCHANGED <<change, overlap>> /\ scan[w].pc = "diff"
        /\ scan' = [scan EXCEPT ![w].left = @ \ {f}]
    BY <1>2 DEF ScanSkip, history
  <2>2. \A v \in Scans : /\ scan'[v].pc = scan[v].pc /\ scan'[v].row = scan[v].row
                         /\ scan'[v].field = scan[v].field
    BY <1>t, <2>1 DEF ScanStates
  <2>3. \A r, g : PendingFor(r, g)' = PendingFor(r, g)
    BY <2>1 DEF PendingFor
  <2>4. AskedOnce'
    BY <2>1 DEF Asked, AskedOnce
  <2> QED
    BY <2>1, <2>2, <2>3, <2>4 DEF Asked, Scanning
<1>3. ASSUME NEW w \in Scans, NEW f \in Fields, ScanCheck(w, f) PROVE Asked'
  <2>1. /\ UNCHANGED <<change, overlap>> /\ scan[w].pc = "diff"
        /\ PendingFor(scan[w].row, f) = {}
        /\ scan' = [scan EXCEPT ![w].pc = "insert", ![w].field = f]
    BY <1>3 DEF ScanCheck, history
  <2>2. /\ scan'[w].row = scan[w].row /\ scan'[w].field = f
        /\ \A v \in Scans \ {w} : scan'[v] = scan[v]
    BY <1>t, <2>1 DEF ScanStates
  <2>3. \A r, g : PendingFor(r, g)' = PendingFor(r, g)
    BY <2>1 DEF PendingFor
  <2>4. ~overlap => \A v, u \in Scans : Scanning(v)' /\ Scanning(u)' => v = u
    BY <2>1, <2>2 DEF Asked, Scanning
  <2>5. ~overlap => \A v \in Scans :
            scan'[v].pc = "insert" => PendingFor(scan'[v].row, scan'[v].field) = {}
    BY <2>1, <2>2 DEF Asked
  <2>6. AskedOnce'
    BY <2>1 DEF Asked, AskedOnce
  <2> QED
    BY <2>1, <2>3, <2>4, <2>5, <2>6 DEF Asked
<1>4. ASSUME NEW w \in Scans, NEW c \in Changes, ScanInsert(w, c) PROVE Asked'
  <2> DEFINE new == Queued("pending", scan[w].row, scan[w].page, scan[w].field)
  <2>1. /\ UNCHANGED overlap /\ scan[w].pc = "insert"
        /\ change' = [change EXCEPT ![c] = new]
        /\ scan' = [scan EXCEPT ![w].pc = "diff", ![w].left = @ \ {scan[w].field},
                                ![w].field = "rate"]
    BY <1>4 DEF ScanInsert, history
  <2>2. new.row = scan[w].row /\ new.field = scan[w].field
    <3>1. /\ scan[w].page \in Pages /\ scan[w].row \in 0 .. MaxRow /\ scan[w].field \in Fields
      BY <1>t, <2>1 DEF Sane, ScanStates
    <3> QED
      BY <3>1, QueuedTyped
  <2> HIDE DEF new
  <2>3. \A d \in Changes : change'[d] = IF d = c THEN new ELSE change[d]
    BY <1>t, <2>1
  <2>4. /\ scan'[w].pc = "diff"
        /\ \A v \in Scans \ {w} : scan'[v] = scan[v]
    BY <1>t, <2>1 DEF ScanStates
  <2>5. ~overlap => \A v \in Scans \ {w} : scan[v].pc = "idle"
    BY <2>1 DEF Asked, Scanning
  <2>6. ~overlap => \A d \in Changes :
            change[d].status = "pending" /\ change[d].field = scan[w].field =>
                change[d].row # scan[w].row
    BY <2>1 DEF Asked, PendingFor
  <2>7. overlap \/ \A d, e \in Changes :
            /\ d # e /\ change[d].status = "pending" /\ change[e].status = "pending"
            /\ change[d].field = change[e].field
            => change[d].row # change[e].row
    BY DEF Asked, AskedOnce
  <2>8. AskedOnce'
    <3> SUFFICES ASSUME ~overlap, NEW d \in Changes, NEW e \in Changes,
                        d # e, change'[d].status = "pending", change'[e].status = "pending",
                        change'[d].field = change'[e].field
                 PROVE  change'[d].row # change'[e].row
      BY <2>1 DEF AskedOnce
    <3>1. CASE d = c
      BY <2>2, <2>3, <2>6, <3>1
    <3>2. CASE e = c
      BY <2>2, <2>3, <2>6, <3>2
    <3>3. CASE d # c /\ e # c
      BY <2>3, <2>7, <3>3
    <3> QED
      BY <3>1, <3>2, <3>3
  <2> QED
    BY <2>1, <2>4, <2>5, <2>8 DEF Asked, Scanning
<1>5. ASSUME NEW w \in Scans, ScanEnd(w) \/ ScanFails(w) PROVE Asked'
  <2>1. UNCHANGED <<change, overlap>> /\ scan' = [scan EXCEPT ![w] = NoScan]
    BY <1>5 DEF ScanEnd, ScanFails, history
  <2>2. /\ scan'[w].pc = "idle"
        /\ \A v \in Scans \ {w} : scan'[v] = scan[v]
    BY <1>t, <2>1, NothingTyped
  <2>3. \A r, g : PendingFor(r, g)' = PendingFor(r, g)
    BY <2>1 DEF PendingFor
  <2>4. AskedOnce'
    BY <2>1 DEF Asked, AskedOnce
  <2> QED
    BY <2>1, <2>2, <2>3, <2>4 DEF Asked, Scanning
<1>6. ASSUME ApproveMark PROVE Asked'
  <2>1. /\ decide.change \in Changes /\ UNCHANGED <<scan, overlap>>
        /\ change' = [change EXCEPT ![decide.change].status = "approved",
                                    ![decide.change].row = decide.row]
    BY <1>6 DEF ApproveMark, history, Sane
  <2> QED
    BY <1>t, <2>1, NothingAsked DEF ChangeRows
<1>7. ASSUME NEW c \in Changes, Reject(c) PROVE Asked'
  <2>1. UNCHANGED <<scan, overlap>> /\ change' = [change EXCEPT ![c].status = "rejected"]
    BY <1>7 DEF Reject
  <2> QED
    BY <1>t, <2>1, NothingAsked DEF ChangeRows
<1>8. ASSUME NEW c \in Changes, NEW r \in Rows, Materialize(c, r) PROVE Asked'
  <2>1. /\ change[c].status = "approved" /\ UNCHANGED <<scan, overlap>>
        /\ change' = [change EXCEPT ![c].row = r]
    BY <1>8 DEF Materialize
  <2> QED
    BY <1>t, <2>1, NothingAsked DEF ChangeRows
<1>9. ASSUME \/ \E c \in Changes, r \in Rows : ApproveStart(c, r)
             \/ ApproveWrite \/ ApproveBreaks
             \/ \E p \in Pages : Create(p)
      PROVE Asked'
  BY <1>0, <1>9 DEF ApproveStart, ApproveWrite, ApproveBreaks, Create, history
<1>10. ASSUME NEW r \in Rows,
              \/ \E f \in Fields, v \in Values : Edit(r, f, v)
              \/ \E e \in EngineChoices : EditEngine(r, e)
              \/ Delete(r)
              \/ \E s \in {"blocked", "ready"}, force \in BOOLEAN : SetGate(r, s, force)
       PROVE Asked'
  BY <1>0, <1>10 DEF Edit, EditEngine, Delete, SetGate, history
<1>11. CASE UNCHANGED vars
  BY <1>0, <1>11 DEF vars, history
<1> QED
  BY <1>1, <1>2, <1>3, <1>4, <1>5, <1>6, <1>7, <1>8, <1>9, <1>10, <1>11 DEF Next

\* The check for a pending change and the insert after it are two statements, yet
\* as long as no two scrapes are at work together a fact is queued once.
THEOREM AskedOnceAlways == Spec => []AskedOnce
<1>1. Init => Typed /\ Sane /\ Asked
  BY TypedInit, AskedInit
<1>2. Typed /\ Sane /\ Asked /\ [Next]_vars => (Typed /\ Sane /\ Asked)'
  BY TypedNext, AskedNext
<1>3. Asked => AskedOnce
  BY DEF Asked
<1> QED
  BY <1>1, <1>2, <1>3, PTL DEF Spec
-----------------------------------------------------------------------------
\* A change whose value may stand in a row.
Owed(c) == change[c].status = "approved" \/ decide.change = c \/ c \in lost

\* The column f of row r holds what change c asked for.
Holds(r, f, c) ==
    c \in Changes /\ r <= last /\ val[r][f] = change[c].to /\ change[c].field = f /\ Owed(c)

Kept ==
    /\ \A r \in Rows, f \in Fields : author[r][f] # Nobody => Holds(r, f, author[r][f])
    /\ \A c \in lost : change[c].status # "none"

LEMMA KeptInit == Init => Kept
<1> SUFFICES ASSUME Init PROVE Kept
  OBVIOUS
<1>1. lost = {} /\ author = [r \in Rows |-> [f \in Fields |-> Nobody]]
  BY DEF Init
<1> QED
  BY <1>1 DEF Kept

LEMMA OwedIsQueued ==
    ASSUME Sane, Kept, NEW c \in Changes, Owed(c) PROVE change[c].status # "none"
<1>1. decide.change = c => decide.pc # "idle"
  BY NothingTyped, Bounds DEF Sane
<1> QED
  BY <1>1 DEF Sane, Kept, Owed

\* A step keeps what is written when every column either stays as it was or is
\* written by a change that is owed it, and no queued change is altered.
LEMMA Carried ==
    ASSUME Typed, Sane, Kept, Appended,
           \A q \in Rows, g \in Fields : author'[q][g] # Nobody =>
               \/ author'[q][g] = author[q][g] /\ (q <= last => val'[q][g] = val[q][g])
               \/ Holds(q, g, author[q][g])',
           \A c \in Changes : change[c].status # "none" =>
               /\ change'[c].to = change[c].to /\ change'[c].field = change[c].field
               /\ change'[c].status # "none" /\ (Owed(c) => Owed(c)'),
           \A c \in lost' : c \in lost \/ change'[c].status # "none"
    PROVE  Kept'
<1>l. lost \subseteq Changes
  BY DEF Typed
<1>1. ASSUME NEW q \in Rows, NEW g \in Fields, author'[q][g] # Nobody
      PROVE  Holds(q, g, author[q][g])'
  <2>1. CASE author'[q][g] = author[q][g] /\ (q <= last => val'[q][g] = val[q][g])
    <3>1. Holds(q, g, author[q][g])
      BY <1>1, <2>1 DEF Kept
    <3>2. PICK a \in Changes : a = author[q][g]
      BY <3>1 DEF Holds
    <3>3. q <= last /\ Owed(a) /\ val[q][g] = change[a].to /\ change[a].field = g
      BY <3>1, <3>2 DEF Holds
    <3>4. change[a].status # "none"
      BY <3>3, OwedIsQueued
    <3>5. Owed(a)' /\ change'[a].to = change[a].to /\ change'[a].field = change[a].field
      BY <3>3, <3>4
    <3>6. q <= last' /\ author'[q][g] = a
      BY <2>1, <3>2, <3>3, Grown
    <3> QED
      BY <2>1, <3>3, <3>5, <3>6 DEF Holds, Owed
  <2> QED
    BY <1>1, <2>1
<1>2. ASSUME NEW c \in lost' PROVE change'[c].status # "none"
  <2>1. CASE c \in lost
    BY <1>l, <2>1 DEF Kept
  <2> QED
    BY <2>1
<1> QED
  BY <1>1, <1>2 DEF Kept

\* A step that writes no column and touches no change.
LEMMA Idle ==
    ASSUME Typed, Sane, Kept, Appended, UNCHANGED <<author, val, change, decide, lost>>
    PROVE  Kept'
<1>1. \A c \in Changes : Owed(c) => Owed(c)'
  BY DEF Owed
<1> QED
  BY <1>1, Carried DEF Kept

\* A new row is blank, and no column of it has been written.
LEMMA BlankKeeps ==
    ASSUME Typed, NEW r \in Rows, NEW q \in Rows, q <= last, r \in rows \/ r > last
    PROVE  Blank(r)[q] = val[q]
<1>1. val \in [Rows -> [Fields -> Values]] /\ last \in 0 .. MaxRow
  BY DEF Typed
<1>2. r \in rows \/ q # r
  BY <1>1, Bounds DEF Rows
<1> QED
  BY <1>1, <1>2 DEF Blank

LEMMA KeptNext ==
    ASSUME Typed, Sane, Kept, [Next]_vars, Appended PROVE Kept'
<1>t. /\ change \in [Changes -> ChangeRows] /\ decide \in Decisions /\ last \in 0 .. MaxRow
      /\ val \in [Rows -> [Fields -> Values]] /\ lost \subseteq Changes
      /\ author \in [Rows -> [Fields -> Changes \cup {Nobody}]]
  BY DEF Typed
<1>1. ASSUME NEW w \in Scans, NEW c \in Changes, ScanInsert(w, c) PROVE Kept'
  <2> DEFINE new == Queued("pending", scan[w].row, scan[w].page, scan[w].field)
  <2>1. /\ UNCHANGED <<author, val, decide, lost>> /\ change[c].status = "none"
        /\ change' = [change EXCEPT ![c] = new]
    BY <1>1, NothingTyped DEF ScanInsert, table, history
  <2> HIDE DEF new
  <2>2. \A d \in Changes : change[d].status # "none" => change'[d] = change[d]
    BY <1>t, <2>1
  <2>3. \A d \in Changes : change[d].status # "none" => (Owed(d) => Owed(d)')
    BY <2>1, <2>2 DEF Owed
  <2>4. \A d \in lost : change'[d].status # "none"
    BY <1>t, <2>2 DEF Kept
  <2> QED
    BY <2>1, <2>2, <2>3, <2>4, Carried
<1>2. ASSUME NEW c \in Changes, NEW r \in Rows, ApproveStart(c, r) PROVE Kept'
  <2>1. /\ UNCHANGED <<author, change, lost>> /\ decide = NoDecision
        /\ Place(c, r) /\ change[c].status # "none"
        /\ val' = (IF r \in rows' THEN Blank(r) ELSE val)
        /\ decide' = [pc |-> "write", change |-> c, row |-> r]
    BY <1>2 DEF ApproveStart, WebFree, Offered
  <2>2. \A q \in Rows : q <= last => val'[q] = val[q]
    <3>1. r \in rows' => r \in rows \/ r > last
      BY DEF Appended
    <3> QED
      BY <2>1, <3>1, BlankKeeps
  <2>3. \A d \in Changes : Owed(d) => Owed(d)'
    BY <2>1, NothingTyped, Bounds DEF Owed
  <2> QED
    BY <2>1, <2>2, <2>3, Carried
<1>3. ASSUME ApproveWrite PROVE Kept'
  <2> DEFINE c == decide.change
             r == decide.row
  <2>1. /\ decide.pc = "write" /\ UNCHANGED <<rows, last, prog, src, change, lost>>
        /\ Write(c, r, val) /\ decide' = [decide EXCEPT !.pc = "mark"]
    BY <1>3 DEF ApproveWrite
  <2>2. /\ c \in Changes /\ r \in 1 .. last /\ decide'.change = c
        /\ change[c].field \in Fields
    BY <1>t, <2>1 DEF Sane, Decisions, ChangeRows
  <2>3. r \in Rows
    BY <1>t, <2>2, Bounds DEF Rows
  <2>4. \A d \in Changes : Owed(d) => Owed(d)'
    BY <2>1, <2>2 DEF Owed
  <2>5. CASE r \in rows'
    <3>1. /\ val' = [val EXCEPT ![r][change[c].field] = change[c].to]
          /\ author' = [author EXCEPT ![r][change[c].field] = c]
      BY <2>1, <2>5 DEF Write
    <3>2. ASSUME NEW q \in Rows, NEW g \in Fields
          PROVE  \/ author'[q][g] = author[q][g] /\ val'[q][g] = val[q][g]
                 \/ Holds(q, g, author[q][g])'
      <4>1. CASE q = r /\ g = change[c].field
        <5>1. author'[q][g] = c /\ val'[q][g] = change[c].to
          BY <1>t, <2>2, <2>3, <3>1, <4>1
        <5>2. q <= last'
          BY <1>t, <2>1, <2>2, <4>1, Bounds
        <5> QED
          BY <2>1, <2>2, <4>1, <5>1, <5>2 DEF Holds, Owed
      <4>2. CASE ~(q = r /\ g = change[c].field)
        <5>1. author'[q][g] = author[q][g] /\ val'[q][g] = val[q][g]
          BY <1>t, <2>2, <2>3, <3>1, <4>2
        <5> QED
          BY <5>1
      <4> QED
        BY <4>1, <4>2
    <3> QED
      BY <2>1, <2>4, <3>2, Carried
  <2>6. CASE r \notin rows'
    <3>1. UNCHANGED <<val, author>>
      BY <2>1, <2>6 DEF Write
    <3> QED
      BY <2>1, <2>4, <3>1, Carried
  <2> QED
    BY <2>5, <2>6
<1>4. ASSUME ApproveMark PROVE Kept'
  <2>1. /\ decide.change \in Changes /\ UNCHANGED <<author, val, lost>>
        /\ change' = [change EXCEPT ![decide.change].status = "approved",
                                    ![decide.change].row = decide.row]
    BY <1>4 DEF ApproveMark, history, table, Sane
  <2>2. \A d \in Changes :
            /\ change'[d].to = change[d].to /\ change'[d].field = change[d].field
            /\ change'[d].status = IF d = decide.change THEN "approved" ELSE change[d].status
    BY <1>t, <2>1 DEF ChangeRows
  <2>3. \A d \in Changes : Owed(d) => Owed(d)'
    BY <2>1, <2>2 DEF Owed
  <2>4. \A d \in Changes : change[d].status # "none" => change'[d].status # "none"
    BY <2>2
  <2>5. \A d \in Changes : change'[d].to = change[d].to /\ change'[d].field = change[d].field
    BY <2>2
  <2> QED
    BY <2>1, <2>3, <2>4, <2>5, Carried
<1>5. ASSUME ApproveBreaks PROVE Kept'
  <2>1. /\ decide.change \in Changes /\ change[decide.change].status # "none"
        /\ UNCHANGED <<author, val, change>> /\ lost' = lost \cup {decide.change}
    <3>1. decide.pc # "idle"
      BY <1>5 DEF ApproveBreaks, Sane
    <3> QED
      BY <1>5, <3>1 DEF ApproveBreaks, table, Sane
  <2>2. \A d \in Changes : Owed(d) => Owed(d)'
    BY <2>1 DEF Owed
  <2> QED
    BY <2>1, <2>2, Carried
<1>6. ASSUME NEW c \in Changes, Reject(c) PROVE Kept'
  <2>1. /\ UNCHANGED <<author, val, decide>> /\ decide = NoDecision
        /\ change[c].status # "none"
        /\ change' = [change EXCEPT ![c].status = "rejected"]
        /\ lost' = (IF change[c].status = "approved" THEN lost \cup {c} ELSE lost)
    BY <1>6 DEF Reject, WebFree, Offered, table
  <2>2. \A d \in Changes :
            /\ change'[d].to = change[d].to /\ change'[d].field = change[d].field
            /\ change'[d].status = IF d = c THEN "rejected" ELSE change[d].status
    BY <1>t, <2>1 DEF ChangeRows
  <2>3. \A d \in Changes : Owed(d) => Owed(d)'
    BY <2>1, <2>2 DEF Owed
  <2> QED
    BY <2>1, <2>2, <2>3, Carried
<1>7. ASSUME NEW c \in Changes, NEW r \in Rows, Materialize(c, r) PROVE Kept'
  <2>1. /\ change[c].status = "approved" /\ change[c].row = 0 /\ Place(c, r)
        /\ Write(c, r, Blank(r)) /\ change' = [change EXCEPT ![c].row = r]
        /\ UNCHANGED <<decide, lost>>
    BY <1>7 DEF Materialize
  <2>2. r \in rows' /\ r \in 1 .. last' /\ (r \in rows \/ r > last)
    <3>1. r \in rows' /\ r \in 1 .. last'
      BY <2>1, Placed
    <3> QED
      BY <3>1 DEF Appended
  <2>3. /\ val' = [Blank(r) EXCEPT ![r][change[c].field] = change[c].to]
        /\ author' = [author EXCEPT ![r][change[c].field] = c]
    BY <2>1, <2>2 DEF Write
  <2>4. \A d \in Changes :
            /\ change'[d].to = change[d].to /\ change'[d].field = change[d].field
            /\ change'[d].status = change[d].status
    BY <1>t, <2>1 DEF ChangeRows
  <2>5. \A d \in Changes : Owed(d) => Owed(d)'
    BY <2>1, <2>4 DEF Owed
  <2>6. change[c].field \in Fields /\ Blank(r) \in [Rows -> [Fields -> Values]]
    <3>1. [rate |-> Unknown, status |-> "active"] \in [Fields -> Values]
      BY DEF Fields, Values, Statuses
    <3> QED
      BY <1>t, <3>1 DEF ChangeRows, Blank
  <2>7. ASSUME NEW q \in Rows, NEW g \in Fields
        PROVE  \/ author'[q][g] = author[q][g] /\ (q <= last => val'[q][g] = val[q][g])
               \/ Holds(q, g, author[q][g])'
    <3>1. CASE q = r /\ g = change[c].field
      <4>1. author'[q][g] = c /\ val'[q][g] = change[c].to
        BY <1>t, <2>3, <2>6, <3>1
      <4>2. q <= last'
        BY <2>2, <3>1
      <4> QED
        BY <2>1, <2>4, <3>1, <4>1, <4>2 DEF Holds, Owed
    <3>2. CASE ~(q = r /\ g = change[c].field)
      <4>1. author'[q][g] = author[q][g] /\ val'[q][g] = Blank(r)[q][g]
        BY <1>t, <2>3, <2>6, <3>2
      <4>2. q <= last => Blank(r)[q] = val[q]
        BY <2>2, BlankKeeps
      <4> QED
        BY <4>1, <4>2
    <3> QED
      BY <3>1, <3>2
  <2> QED
    BY <2>1, <2>4, <2>5, <2>7, Carried
<1>8. ASSUME NEW p \in Pages, Create(p) PROVE Kept'
  <2>1. /\ last' = last + 1 /\ UNCHANGED <<author, change, decide, lost>>
        /\ val' = [val EXCEPT ![last'] = [rate |-> p.rate, status |-> p.status]]
    BY <1>8 DEF Create, history
  <2>2. \A q \in Rows : q <= last => val'[q] = val[q]
    BY <1>t, <2>1, Bounds DEF Rows
  <2>3. \A d \in Changes : Owed(d) => Owed(d)'
    BY <2>1 DEF Owed
  <2> QED
    BY <2>1, <2>2, <2>3, Carried DEF Kept
<1>9. ASSUME NEW r \in Rows, NEW f \in Fields, NEW v \in Values, Edit(r, f, v) PROVE Kept'
  <2>1. /\ UNCHANGED <<change, decide, lost>>
        /\ val' = [val EXCEPT ![r][f] = v]
        /\ author' = [author EXCEPT ![r][f] = Nobody]
    BY <1>9 DEF Edit
  <2>2. \A q \in Rows, g \in Fields : author'[q][g] # Nobody =>
            author'[q][g] = author[q][g] /\ val'[q][g] = val[q][g]
    BY <1>t, <2>1
  <2>3. \A d \in Changes : Owed(d) => Owed(d)'
    BY <2>1 DEF Owed
  <2> QED
    BY <2>1, <2>2, <2>3, Carried DEF Kept
<1>10. ASSUME NEW w \in Scans,
              \/ \E p \in Pages : ScanFind(w, p)
              \/ \E f \in Fields : ScanSkip(w, f) \/ ScanCheck(w, f)
              \/ ScanEnd(w) \/ ScanFails(w)
       PROVE Kept'
  BY <1>10, Idle DEF ScanFind, ScanSkip, ScanCheck, ScanEnd, ScanFails, table, history
<1>11. ASSUME NEW r \in Rows,
              \/ \E e \in EngineChoices : EditEngine(r, e)
              \/ Delete(r)
              \/ \E s \in {"blocked", "ready"}, force \in BOOLEAN : SetGate(r, s, force)
       PROVE Kept'
  BY <1>11, Idle DEF EditEngine, Delete, SetGate, table, history
<1>12. CASE UNCHANGED vars
  BY <1>12, Idle DEF vars, table, history
<1> QED
  BY <1>1, <1>2, <1>3, <1>4, <1>5, <1>6, <1>7, <1>8, <1>9, <1>10, <1>11, <1>12 DEF Next

\* No value a scrape read stands in a programme's row but through an approval.
THEOREM WrittenIsApprovedAlways == Spec => []WrittenIsApproved
<1>1. Init => Typed /\ Sane /\ Kept
  BY TypedInit, KeptInit
<1>2. Typed /\ Sane /\ Kept /\ [Next]_vars => (Typed /\ Sane /\ Kept)'
  BY TypedNext, KeptNext
<1>3. Typed /\ Kept => WrittenIsApproved
  BY RowIds DEF Kept, Holds, Owed, WrittenIsApproved
<1> QED
  BY <1>1, <1>2, <1>3, PTL DEF Spec
-----------------------------------------------------------------------------
\* Nothing is marked approved before it is in a row, or the row is gone.
Applied ==
    /\ decide.pc = "mark" => wrote[decide.change] # {} \/ decide.row \notin rows
    /\ ApprovedIsWritten

LEMMA AppliedInit == Init => Applied
<1> SUFFICES ASSUME Init PROVE Applied
  OBVIOUS
<1>1. PICK p \in Pages :
        change = [c \in Changes |->
                     IF c \in Legacy THEN Queued("approved", 0, p, "rate") ELSE NoChange]
  BY DEF Init
<1>2. \A c \in Changes : change[c].row = 0 /\ (change[c].status = "approved" => c \in Legacy)
  BY <1>1, Bounds, QueuedTyped, NothingTyped DEF Fields
<1>3. decide.pc = "idle"
  BY NothingTyped DEF Init
<1> QED
  BY <1>2, <1>3 DEF Applied, ApprovedIsWritten

\* A step keeps it when every approval stands as it stood and no row comes back.
LEMMA Stands ==
    ASSUME Typed, Sane, Applied, Appended,
           decide'.pc = "mark" => decide' = decide,
           \A c \in Changes : wrote[c] # {} => wrote'[c] # {},
           \A c \in Changes : change'[c].status = "approved" =>
               \/ change[c].status = "approved" /\ change'[c].row = change[c].row
               \/ wrote'[c] # {}
               \/ change'[c].row # 0 /\ change'[c].row \notin rows'
    PROVE  Applied'
<1>t. change \in [Changes -> ChangeRows] /\ last \in 0 .. MaxRow
  BY DEF Typed
<1>1. \A q \in 1 .. last : q \notin rows => q \notin rows'
  BY <1>t, Bounds DEF Appended
<1>2. decide'.pc = "mark" => wrote'[decide'.change] # {} \/ decide'.row \notin rows'
  <2> SUFFICES ASSUME decide'.pc = "mark"
               PROVE  wrote'[decide'.change] # {} \/ decide'.row \notin rows'
    OBVIOUS
  <2>1. decide' = decide /\ decide.pc = "mark"
    OBVIOUS
  <2>2. /\ wrote[decide.change] # {} \/ decide.row \notin rows
        /\ decide.change \in Changes /\ decide.row \in 1 .. last
    BY <2>1 DEF Applied, Sane
  <2> QED
    BY <1>1, <2>1, <2>2
<1>3. ASSUME NEW c \in Changes, change'[c].status = "approved"
      PROVE  \/ wrote'[c] # {}
             \/ IF change'[c].row = 0 THEN c \in Legacy ELSE change'[c].row \notin rows'
  <2>1. CASE change[c].status = "approved" /\ change'[c].row = change[c].row
    <3>1. \/ wrote[c] # {}
          \/ IF change[c].row = 0 THEN c \in Legacy ELSE change[c].row \notin rows
      BY <2>1 DEF Applied, ApprovedIsWritten
    <3>2. change[c].row # 0 => change[c].row \in 1 .. last
      BY <1>t, Bounds DEF ChangeRows, Sane
    <3> QED
      BY <1>1, <2>1, <3>1, <3>2
  <2> QED
    BY <1>3, <2>1
<1> QED
  BY <1>2, <1>3 DEF Applied, ApprovedIsWritten

LEMMA AppliedNext ==
    ASSUME Typed, Sane, Applied, [Next]_vars, Appended PROVE Applied'
<1>t. /\ change \in [Changes -> ChangeRows] /\ decide \in Decisions /\ last \in 0 .. MaxRow
      /\ wrote \in [Changes -> SUBSET (Programs \cup {Nobody})]
  BY DEF Typed
<1>0. ASSUME UNCHANGED <<change, decide, wrote>> PROVE Applied'
  BY <1>0, Stands
<1>1. ASSUME NEW w \in Scans, NEW c \in Changes, ScanInsert(w, c) PROVE Applied'
  <2> DEFINE new == Queued("pending", scan[w].row, scan[w].page, scan[w].field)
  <2>1. /\ UNCHANGED <<decide, wrote>> /\ scan[w].pc = "insert"
        /\ change' = [change EXCEPT ![c] = new]
    BY <1>1 DEF ScanInsert, history
  <2>2. new.status = "pending"
    <3>1. /\ scan[w].page \in Pages /\ scan[w].row \in 0 .. MaxRow /\ scan[w].field \in Fields
      BY <2>1 DEF Sane, Typed, ScanStates
    <3> QED
      BY <3>1, QueuedTyped
  <2> HIDE DEF new
  <2>3. \A d \in Changes : change'[d].status = "approved" => change'[d] = change[d]
    BY <1>t, <2>1, <2>2
  <2> QED
    BY <2>1, <2>3, Stands
<1>2. ASSUME NEW c \in Changes, NEW r \in Rows, ApproveStart(c, r) PROVE Applied'
  <2>1. /\ UNCHANGED <<change, wrote>>
        /\ decide' = [pc |-> "write", change |-> c, row |-> r]
    BY <1>2 DEF ApproveStart
  <2>2. decide'.pc # "mark"
    BY <2>1
  <2> QED
    BY <2>1, <2>2, Stands
<1>3. ASSUME ApproveWrite PROVE Applied'
  <2>1. /\ decide.pc = "write" /\ UNCHANGED <<rows, change, prog>>
        /\ Write(decide.change, decide.row, val)
        /\ decide' = [decide EXCEPT !.pc = "mark"]
    BY <1>3 DEF ApproveWrite
  <2>2. /\ decide.change \in Changes /\ decide'.change = decide.change
        /\ decide'.row = decide.row
    BY <1>t, <2>1 DEF Sane, Decisions
  <2>3. \/ decide.row \notin rows' /\ UNCHANGED wrote
        \/ wrote' = [wrote EXCEPT ![decide.change] = @ \cup {prog'[decide.row]}]
    BY <2>1 DEF Write
  <2>4. wrote'[decide.change] # {} \/ decide.row \notin rows'
    BY <1>t, <2>2, <2>3
  <2>5. \A d \in Changes : wrote[d] # {} => wrote'[d] # {}
    BY <1>t, <2>2, <2>3
  <2>6. ApprovedIsWritten'
    BY <2>1, <2>5 DEF Applied, ApprovedIsWritten
  <2> QED
    BY <2>2, <2>4, <2>6 DEF Applied
<1>4. ASSUME ApproveMark PROVE Applied'
  <2>1. /\ decide.pc = "mark" /\ UNCHANGED <<rows, wrote>> /\ decide' = NoDecision
        /\ change' = [change EXCEPT ![decide.change].status = "approved",
                                    ![decide.change].row = decide.row]
    BY <1>4 DEF ApproveMark, history, table
  <2>2. /\ decide.change \in Changes /\ decide.row \in 1 .. last
        /\ wrote[decide.change] # {} \/ decide.row \notin rows
    BY <2>1 DEF Sane, Applied
  <2>3. decide.row # 0
    BY <1>t, <2>2, Bounds
  <2>4. \A d \in Changes :
            /\ change'[d].status = IF d = decide.change THEN "approved" ELSE change[d].status
            /\ change'[d].row = IF d = decide.change THEN decide.row ELSE change[d].row
    BY <1>t, <2>1 DEF ChangeRows
  <2>5. decide'.pc # "mark"
    BY <2>1, NothingTyped
  <2>6. \A d \in Changes : change'[d].status = "approved" =>
            \/ change[d].status = "approved" /\ change'[d].row = change[d].row
            \/ wrote'[d] # {}
            \/ change'[d].row # 0 /\ change'[d].row \notin rows'
    <3> SUFFICES ASSUME NEW d \in Changes, change'[d].status = "approved"
                 PROVE  \/ change[d].status = "approved" /\ change'[d].row = change[d].row
                        \/ wrote'[d] # {}
                        \/ change'[d].row # 0 /\ change'[d].row \notin rows'
      OBVIOUS
    <3>1. CASE d = decide.change
      <4>1. change'[d].row = decide.row /\ change'[d].row # 0
        BY <2>3, <2>4, <3>1
      <4>2. wrote'[d] # {} \/ decide.row \notin rows'
        BY <2>1, <2>2, <3>1
      <4> QED
        BY <4>1, <4>2
    <3>2. CASE d # decide.change
      BY <2>4, <3>2
    <3> QED
      BY <3>1, <3>2
  <2> QED
    BY <2>1, <2>5, <2>6, Stands
<1>5. ASSUME ApproveBreaks PROVE Applied'
  <2>1. UNCHANGED <<change, wrote>> /\ decide' = NoDecision
    BY <1>5 DEF ApproveBreaks
  <2> QED
    BY <2>1, NothingTyped, Stands
<1>6. ASSUME NEW c \in Changes, Reject(c) PROVE Applied'
  <2>1. UNCHANGED <<decide, wrote>> /\ change' = [change EXCEPT ![c].status = "rejected"]
    BY <1>6 DEF Reject
  <2>2. \A d \in Changes : change'[d].status = "approved" => change'[d] = change[d]
    BY <1>t, <2>1 DEF ChangeRows
  <2> QED
    BY <2>1, <2>2, Stands
<1>7. ASSUME NEW c \in Changes, NEW r \in Rows, Materialize(c, r) PROVE Applied'
  <2>1. /\ change[c].status = "approved" /\ change[c].row = 0 /\ Place(c, r)
        /\ Write(c, r, Blank(r)) /\ change' = [change EXCEPT ![c].row = r] /\ UNCHANGED decide
    BY <1>7 DEF Materialize
  <2>2. r \in rows'
    BY <2>1, Placed
  <2>3. wrote' = [wrote EXCEPT ![c] = @ \cup {prog'[r]}]
    BY <2>1, <2>2 DEF Write
  <2>4. wrote'[c] # {} /\ \A d \in Changes : wrote[d] # {} => wrote'[d] # {}
    BY <1>t, <2>3
  <2>5. \A d \in Changes : d # c => change'[d] = change[d]
    BY <1>t, <2>1
  <2> QED
    BY <2>1, <2>4, <2>5, Stands
<1>8. ASSUME \/ \E w \in Scans : \/ \E p \in Pages : ScanFind(w, p)
                                 \/ \E f \in Fields : ScanSkip(w, f) \/ ScanCheck(w, f)
                                 \/ ScanEnd(w) \/ ScanFails(w)
             \/ \E p \in Pages : Create(p)
      PROVE Applied'
  BY <1>0, <1>8 DEF ScanFind, ScanSkip, ScanCheck, ScanEnd, ScanFails, Create, history
<1>9. ASSUME NEW r \in Rows,
             \/ \E f \in Fields, v \in Values : Edit(r, f, v)
             \/ \E e \in EngineChoices : EditEngine(r, e)
             \/ Delete(r)
             \/ \E s \in {"blocked", "ready"}, force \in BOOLEAN : SetGate(r, s, force)
      PROVE Applied'
  BY <1>0, <1>9 DEF Edit, EditEngine, Delete, SetGate, history
<1>10. CASE UNCHANGED vars
  BY <1>0, <1>10 DEF vars, history
<1> QED
  BY <1>1, <1>2, <1>3, <1>4, <1>5, <1>6, <1>7, <1>8, <1>9, <1>10 DEF Next

\* An approval is written where it says, or waits to be materialised, or its row
\* has been deleted.
THEOREM ApprovedIsWrittenAlways == Spec => []ApprovedIsWritten
<1>1. Init => Typed /\ Sane /\ Applied
  BY TypedInit, AppliedInit
<1>2. Typed /\ Sane /\ Applied /\ [Next]_vars => (Typed /\ Sane /\ Applied)'
  BY TypedNext, AppliedNext
<1>3. Applied => ApprovedIsWritten
  BY DEF Applied
<1> QED
  BY <1>1, <1>2, <1>3, PTL DEF Spec
=============================================================================
