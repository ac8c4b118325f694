-------------------------- MODULE IncentiveReview --------------------------
(***************************************************************************)
(* The programmes of one territory (incentive_programs) and who changes     *)
(* them: scrapes queue differences as pending changes (scraper/differ.py),  *)
(* administrators approve or reject them and edit rows (incentives/         *)
(* service.py), and a reviewer opens a programme's calculation gate         *)
(* (incentives/calculation_approval.py). Reports read the rows; what they   *)
(* say of each is StatutoryFigure.                                          *)
(*                                                                          *)
(* The scheduled scrape runs in a thread of its own beside the web          *)
(* endpoints, which run one at a time on the event loop; a scrape started   *)
(* by an administrator is one of those. Every statement commits.            *)
(***************************************************************************)
EXTENDS StatutoryFigure, FiniteSets, Sequences

CONSTANTS
    Programs,   \* names of programmes
    Known,      \* the programmes on record at first, in rows 1, 2, ...
    Pages,      \* what a scrape may read: [prog, src, rate, status]
    Rates,      \* values of the rate column
    Changes,    \* ids of rows of pending_changes
    Legacy,     \* changes approved before resource ids were written back
    Cases,      \* scenarios in which reports are asked for
    EngineChoices, \* bound: engines an administrator sets
    Terms,      \* declared inputs, limit and cap of each programme
    MaxRow,     \* bound: rows ever
    MaxTurns,   \* bound: decisions and scrapes
    MaxFaults,  \* bound: failures
    Nobody

ASSUME ConstantsOK ==
    /\ MaxRow \in Nat /\ MaxTurns \in Nat /\ MaxFaults \in Nat
    /\ Unknown \notin Nat /\ Unknown \notin Rates \cup Statuses
    /\ Nobody \notin Changes \cup Programs /\ Legacy \subseteq Changes
    /\ Cases \subseteq Scenarios /\ EngineChoices \subseteq Engines
    /\ \A p \in Pages : p.prog \in Programs /\ p.status \in Statuses
                         /\ p.rate \in Rates \cup {Unknown}
    /\ Known \in Seq(Pages) /\ Len(Known) <= MaxRow
    /\ \A p \in Programs : Terms[p].declared \subseteq Keys
                            /\ Terms[p].pct \in Amounts /\ Terms[p].cap \in Amounts

VARIABLES
    rows,      \* ids of the rows that exist
    last,      \* the latest id given; ids grow with created_at
    prog, src, \* program and source_url of a row
    val,       \* the columns a scrape compares
    engine, gate,  \* qs_engine_type, calculation_verification_status
    change,    \* pending_changes
    scan,      \* the scheduled scrape and the one of the web process
    decide,    \* the approval under way
    author,    \* history: the change that wrote a column last, or Nobody
    wrote,     \* history: programmes to whose row a change was written
    homeless,  \* history: changes approved when their programme had no row
    lost,      \* history: changes whose approval broke off or was overruled
    excuse,    \* history: what happened to a gate since it was set
    overlap,   \* history: two scrapes have been at work at once
    turns, faults

table   == <<rows, last, prog, src, val, engine>>
history == <<author, wrote, homeless, lost, excuse, overlap>>
budget  == <<turns, faults>>
vars == <<table, gate, change, scan, decide, history, budget>>

Rows == 1 .. MaxRow
Catalogued == DOMAIN Known   \* rows with a programme_id
Scans  == {"job", "web"}
Fields == {"rate", "status"}
Values == Rates \cup Statuses \cup {Unknown}

NoChange == [status |-> "none", row |-> 0, prog |-> Nobody, src |-> Nobody,
             field |-> "rate", to |-> Unknown]
Queued(status, r, page, f) ==
    [status |-> status, row |-> r, prog |-> page.prog, src |-> page.src,
     field |-> f, to |-> page[f]]
NoScan == [pc |-> "idle", row |-> 0, page |-> Nobody, left |-> {}, field |-> "rate"]
NoDecision == [pc |-> "idle", change |-> Nobody, row |-> 0]

Init ==
    /\ rows = Catalogued /\ last = Len(Known)
    /\ prog = [r \in Rows |-> IF r \in rows THEN Known[r].prog ELSE Nobody]
    /\ src  = [r \in Rows |-> IF r \in rows THEN Known[r].src ELSE Nobody]
    /\ val  = [r \in Rows |-> [f \in Fields |-> IF r \in rows THEN Known[r][f] ELSE Unknown]]
    /\ \E e \in EngineChoices \cup {""} :
          engine = [r \in Rows |-> IF r \in Catalogued THEN e ELSE ""]
    /\ gate = [r \in Rows |-> "blocked"]
    /\ \E p \in Pages : p.rate # Unknown /\
          change = [c \in Changes |->
                       IF c \in Legacy THEN Queued("approved", 0, p, "rate") ELSE NoChange]
    /\ scan = [w \in Scans |-> NoScan]
    /\ decide = NoDecision
    /\ author = [r \in Rows |-> [f \in Fields |-> Nobody]]
    /\ wrote = [c \in Changes |-> {}]
    /\ homeless = {} /\ lost = {}
    /\ excuse = [r \in Rows |-> {}]
    /\ overlap = FALSE
    /\ turns = 0 /\ faults = 0

Turn  == turns < MaxTurns /\ turns' = turns + 1 /\ UNCHANGED faults
Fault == faults < MaxFaults /\ faults' = faults + 1 /\ UNCHANGED turns
Scanning(w) == scan[w].pc # "idle"
WebFree == decide = NoDecision /\ ~Scanning("web")

(***************************************************************************)
(* A scrape of one page with one record.                                    *)
(***************************************************************************)
\* _find_existing: the program name is unique within the territory.
RowOf(p) == {r \in rows : prog[r] = p}
IdOf(p)  == IF RowOf(p) = {} THEN 0 ELSE CHOOSE r \in RowOf(p) : TRUE

\* Placeholders such as "n/a" are read as Unknown and never queued.
Differs(r, page) ==
    {f \in Fields : page[f] # Unknown /\ (r # 0 => val[r][f] # page[f])}

ScanFind(w, page) ==
    /\ ~Scanning(w) /\ Turn
    /\ w = "web" => WebFree
    /\ scan' = [scan EXCEPT ![w] = [pc |-> "diff", row |-> IdOf(page.prog), page |-> page,
                                    left |-> Differs(IdOf(page.prog), page), field |-> "rate"]]
    /\ overlap' = (overlap \/ \E v \in Scans \ {w} : Scanning(v))
    /\ UNCHANGED <<table, gate, change, decide, author, wrote, homeless, lost, excuse>>

\* _pending_change_exists: of the same row, or of the territory without one.
PendingFor(r, f) ==
    {c \in Changes : /\ change[c].status = "pending" /\ change[c].field = f
                     /\ r # 0 => change[c].row = r}

ScanSkip(w, f) ==
    /\ scan[w].pc = "diff" /\ f \in scan[w].left
    /\ PendingFor(scan[w].row, f) # {}
    /\ scan' = [scan EXCEPT ![w].left = @ \ {f}]
    /\ UNCHANGED <<table, gate, change, decide, history, budget>>

ScanCheck_NoDedup(w, f) ==
    /\ scan[w].pc = "diff" /\ f \in scan[w].left
    /\ scan' = [scan EXCEPT ![w].pc = "insert", ![w].field = f]
    /\ UNCHANGED <<table, gate, change, decide, history, budget>>

ScanCheck(w, f) ==
    /\ scan[w].pc = "diff" /\ f \in scan[w].left
    /\ PendingFor(scan[w].row, f) = {}
    /\ scan' = [scan EXCEPT ![w].pc = "insert", ![w].field = f]
    /\ UNCHANGED <<table, gate, change, decide, history, budget>>

ScanInsert(w, c) ==
    /\ scan[w].pc = "insert" /\ change[c] = NoChange
    /\ change' = [change EXCEPT ![c] =
                     Queued("pending", scan[w].row, scan[w].page, scan[w].field)]
    /\ scan' = [scan EXCEPT ![w].pc = "diff", ![w].left = @ \ {scan[w].field},
                            ![w].field = "rate"]
    /\ UNCHANGED <<table, gate, decide, history, budget>>

ScanEnd(w) ==
    /\ scan[w].pc = "diff" /\ scan[w].left = {}
    /\ scan' = [scan EXCEPT ![w] = NoScan]
    /\ UNCHANGED <<table, gate, change, decide, history, budget>>

\* The source fails at any statement; what was queued stays.
ScanFails(w) ==
    /\ Scanning(w) /\ Fault
    /\ scan' = [scan EXCEPT ![w] = NoScan]
    /\ UNCHANGED <<table, gate, change, decide, history>>

(***************************************************************************)
(* Decisions on a change. Neither asks whether it was decided before: a     *)
(* page opened earlier still offers both.                                   *)
(***************************************************************************)
Offered(c) == /\ change[c].status # "none"
              /\ IF change[c].status = "pending" THEN UNCHANGED budget ELSE Turn

\* _get_or_create_resource_id_for_change, the rows it accepts: by name, else the
\* latest of the same source, else the only one of the territory.
SameSource(c) == {r \in rows : src[r] = change[c].src}
Latest(R) == {r \in R : \A q \in R : q <= r}
Accepted_SourceFirst(c) ==
    IF SameSource(c) # {} THEN Latest(SameSource(c)) ELSE RowOf(change[c].prog)
Accepted(c) ==
    IF RowOf(change[c].prog) # {} THEN RowOf(change[c].prog)
    ELSE IF SameSource(c) # {} THEN Latest(SameSource(c))
    ELSE IF Cardinality(rows) = 1 THEN rows ELSE {}

\* Row r is the change's own, one it is accepted by, or a new one.
Place(c, r) ==
    IF change[c].row # 0
      THEN r = change[c].row /\ UNCHANGED <<rows, last, prog, src, homeless>>
      ELSE /\ homeless' = IF RowOf(change[c].prog) = {} THEN homeless \cup {c} ELSE homeless
           /\ IF Accepted(c) # {}
                THEN r \in Accepted(c) /\ UNCHANGED <<rows, last, prog, src>>
                ELSE /\ r = last + 1
                     /\ rows' = rows \cup {r} /\ last' = r
                     /\ prog' = [prog EXCEPT ![r] = change[c].prog]
                     /\ src'  = [src EXCEPT ![r] = change[c].src]

Blank_NoStatus(r) ==
    IF r \in rows THEN val ELSE [val EXCEPT ![r] = [rate |-> Unknown, status |-> Unknown]]

\* A new row is active and holds nothing else yet.
Blank(r) == IF r \in rows THEN val ELSE [val EXCEPT ![r] = [rate |-> Unknown, status |-> "active"]]

\* An update of a row that is gone matches nothing and raises nothing.
Write(c, r, before) ==
    IF r \in rows'
      THEN /\ val' = [before EXCEPT ![r][change[c].field] = change[c].to]
           /\ author' = [author EXCEPT ![r][change[c].field] = c]
           /\ wrote' = [wrote EXCEPT ![c] = @ \cup {prog'[r]}]
      ELSE val' = before /\ UNCHANGED <<author, wrote>>

ApproveStart(c, r) ==
    /\ WebFree
    /\ Offered(c)
    /\ Place(c, r)
    /\ val' = IF r \in rows' THEN Blank(r) ELSE val
    /\ decide' = [pc |-> "write", change |-> c, row |-> r]
    /\ UNCHANGED <<engine, gate, change, scan, author, wrote, lost, excuse, overlap>>

ApproveWrite ==
    /\ decide.pc = "write"
    /\ UNCHANGED <<rows, last, prog, src>>
    /\ Write(decide.change, decide.row, val)
    /\ decide' = [decide EXCEPT !.pc = "mark"]
    /\ UNCHANGED <<engine, gate, change, scan, homeless, lost, excuse, overlap, budget>>

ApproveMark_Early ==
    /\ decide.pc # "idle"
    /\ change' = [change EXCEPT ![decide.change].status = "approved",
                                ![decide.change].row = decide.row]
    /\ decide' = NoDecision
    /\ UNCHANGED <<table, gate, scan, history, budget>>

ApproveMark ==
    /\ decide.pc = "mark"
    /\ change' = [change EXCEPT ![decide.change].status = "approved",
                                ![decide.change].row = decide.row]
    /\ decide' = NoDecision
    /\ UNCHANGED <<table, gate, scan, history, budget>>

\* A statement raises or the process dies: no step before it is undone.
ApproveBreaks ==
    /\ decide # NoDecision /\ Fault
    /\ decide' = NoDecision
    /\ lost' = lost \cup {decide.change}
    /\ UNCHANGED <<table, gate, change, scan, author, wrote, homeless, excuse, overlap>>

Reject(c) ==
    /\ WebFree
    /\ Offered(c)
    /\ change' = [change EXCEPT ![c].status = "rejected"]
    /\ lost' = IF change[c].status = "approved" THEN lost \cup {c} ELSE lost
    /\ UNCHANGED <<table, gate, scan, decide, author, wrote, homeless, excuse, overlap>>

Materialize_Pending(c, r) ==
    /\ WebFree
    /\ change[c].status \in {"approved", "pending"} /\ change[c].row = 0
    /\ Place(c, r)
    /\ Write(c, r, Blank(r))
    /\ change' = [change EXCEPT ![c].row = r]
    /\ UNCHANGED <<engine, gate, scan, decide, lost, excuse, overlap, budget>>

\* Listing the programmes applies the approved changes that name no row.
Materialize(c, r) ==
    /\ WebFree
    /\ change[c].status = "approved" /\ change[c].row = 0
    /\ Place(c, r)
    /\ Write(c, r, Blank(r))
    /\ change' = [change EXCEPT ![c].row = r]
    /\ UNCHANGED <<engine, gate, scan, decide, lost, excuse, overlap, budget>>

(***************************************************************************)
(* Edits of the rows by administrators.                                     *)
(***************************************************************************)
Create(page) ==
    /\ WebFree /\ Turn
    /\ last < MaxRow
    /\ RowOf(page.prog) = {}
    /\ last' = last + 1 /\ rows' = rows \cup {last'}
    /\ prog' = [prog EXCEPT ![last'] = page.prog]
    /\ src'  = [src EXCEPT ![last'] = page.src]
    /\ val'  = [val EXCEPT ![last'] = [rate |-> page.rate, status |-> page.status]]
    /\ UNCHANGED <<engine, gate, change, scan, decide, history>>

Edit(r, f, v) ==
    /\ WebFree /\ Turn
    /\ r \in rows
    /\ val[r][f] # v
    /\ v \in IF f = "rate" THEN Rates ELSE Statuses
    /\ val' = [val EXCEPT ![r][f] = v]
    /\ author' = [author EXCEPT ![r][f] = Nobody]
    /\ UNCHANGED <<rows, last, prog, src, engine, gate, change, scan, decide,
                   wrote, homeless, lost, excuse, overlap>>

\* The gate stays as it is.
EditEngine(r, e) ==
    /\ WebFree /\ Turn
    /\ r \in rows
    /\ engine[r] # e
    /\ engine' = [engine EXCEPT ![r] = e]
    /\ excuse' = [excuse EXCEPT ![r] = @ \cup {"engine edited"}]
    /\ UNCHANGED <<rows, last, prog, src, val, gate, change, scan, decide,
                   author, wrote, homeless, lost, overlap>>

Delete(r) ==
    /\ WebFree /\ Turn
    /\ r \in rows
    /\ rows' = rows \ {r}
    /\ UNCHANGED <<last, prog, src, val, engine, gate, change, scan, decide, history>>

(***************************************************************************)
(* The calculation gate.                                                    *)
(***************************************************************************)
Declared(r) == IF r \in Catalogued THEN Terms[prog[r]].declared ELSE {}

\* _blockers: what stands between a programme and an approval.
Blocked(r) ==
    \/ engine[r] = ""
    \/ /\ engine[r] \notin NON_SPEND_ENGINES
       /\ OwnInputs(engine[r]) # {} /\ Declared(r) = {}
    \/ engine[r] \notin NON_SPEND_ENGINES /\ src[r] = Nobody

SetGate_Unchecked(r, status, force) ==
    /\ WebFree /\ Turn
    /\ r \in rows \cap Catalogued
    /\ gate[r] # status
    /\ gate' = [gate EXCEPT ![r] = status]
    /\ excuse' = [excuse EXCEPT ![r] = IF force THEN {"forced"} ELSE {}]
    /\ UNCHANGED <<table, change, scan, decide, author, wrote, homeless, lost, overlap>>

\* set_status; "conditional" passes the same checks as "ready".
SetGate(r, status, force) ==
    /\ WebFree /\ Turn
    /\ r \in rows \cap Catalogued
    /\ gate[r] # status
    /\ status = "blocked" \/ force \/ ~Blocked(r)
    /\ gate' = [gate EXCEPT ![r] = status]
    /\ excuse' = [excuse EXCEPT ![r] = IF force THEN {"forced"} ELSE {}]
    /\ UNCHANGED <<table, change, scan, decide, author, wrote, homeless, lost, overlap>>

Next ==
    \/ \E w \in Scans : \/ \E p \in Pages : ScanFind(w, p)
                        \/ \E f \in Fields : ScanSkip(w, f) \/ ScanCheck(w, f)
                        \/ \E c \in Changes : ScanInsert(w, c)
                        \/ ScanEnd(w) \/ ScanFails(w)
    \/ \E c \in Changes, r \in Rows : ApproveStart(c, r) \/ Materialize(c, r)
    \/ ApproveWrite \/ ApproveMark \/ ApproveBreaks
    \/ \E c \in Changes : Reject(c)
    \/ \E p \in Pages : Create(p)
    \/ \E r \in Rows : \/ \E f \in Fields, v \in Values : Edit(r, f, v)
                       \/ \E e \in EngineChoices : EditEngine(r, e)
                       \/ Delete(r)
                       \/ \E s \in {"blocked", "ready"}, force \in BOOLEAN : SetGate(r, s, force)

Spec == Init /\ [][Next]_vars
-----------------------------------------------------------------------------
TypeOK ==
    /\ rows \subseteq 1 .. last /\ last \in 0 .. MaxRow
    /\ prog \in [Rows -> Programs \cup {Nobody}]
    /\ \A r \in rows : prog[r] \in Programs /\ val[r]["status"] \in Statuses
    /\ val \in [Rows -> [Fields -> Values]]
    /\ engine \in [Rows -> Engines]
    /\ gate \in [Rows -> {"blocked", "ready"}]
    /\ \A c \in Changes :
          /\ change[c].status \in {"none", "pending", "approved", "rejected"}
          /\ change[c].row \in 0 .. MaxRow /\ change[c].field \in Fields
          /\ change[c].prog \in Programs \cup {Nobody} /\ change[c].to \in Values
    /\ \A w \in Scans : /\ scan[w].pc \in {"idle", "diff", "insert"}
                        /\ scan[w].row \in 0 .. MaxRow /\ scan[w].left \subseteq Fields
    /\ decide.pc \in {"idle", "write", "mark"} /\ decide.change \in Changes \cup {Nobody}
    /\ author \in [Rows -> [Fields -> Changes \cup {Nobody}]]
    /\ turns \in 0 .. MaxTurns /\ faults \in 0 .. MaxFaults

\* No scraped value stands in a programme's row but by an approval of its change,
\* one that is under way, or one that broke off or was overruled afterwards.
WrittenIsApproved ==
    \A r \in rows, f \in Fields :
        LET c == author[r][f]
        IN  c # Nobody => /\ val[r][f] = change[c].to /\ change[c].field = f
                          /\ \/ change[c].status = "approved"
                             \/ decide.change = c \/ c \in lost

\* An approved change has been written, or was approved before ids were written
\* back and is still to be materialised, or the row it names has been deleted,
\* which nobody is told.
ApprovedIsWritten ==
    \A c \in Changes : change[c].status = "approved" =>
        wrote[c] # {} \/ IF change[c].row = 0 THEN c \in Legacy ELSE change[c].row \notin rows

\* A change is written to the row of the programme it names, unless that
\* programme had no row when the change was approved: then it may overwrite
\* another programme of the same source, or the territory's only one.
FiledByName == \A c \in Changes : wrote[c] \subseteq {change[c].prog} \/ c \in homeless

\* A fact is up for review once, unless two scrapes were at work together.
AskedOnce ==
    overlap \/ \A c, d \in Changes :
        /\ c # d /\ change[c].status = "pending" /\ change[d].status = "pending"
        /\ change[c].field = change[d].field
        => change[c].row # change[d].row

\* A gate stands open only for a formula that could be approved, unless a
\* reviewer overrode the checks or the engine was changed under the approval.
OpenGateHasCause ==
    \A r \in rows : gate[r] = "ready" => ~Blocked(r) \/ excuse[r] # {}

(***************************************************************************)
(* What reports say of the rows as they stand, in every case asked for.     *)
(***************************************************************************)
ProgrammeOf(r) ==
    [engine |-> engine[r], status |-> val[r]["status"], declared |-> Declared(r),
     pct |-> Terms[prog[r]].pct, cap |-> Terms[prog[r]].cap]

\* Every state of a programme's row that a report may meet, each listed once.
Costed ==
    {row : row \in [engine : Engines, status : Statuses,
                    declared : {{}} \cup {Terms[p].declared : p \in Programs},
                    pct : {Terms[p].pct : p \in Programs},
                    cap : {Terms[p].cap : p \in Programs}]}

Consistent ==
    {row \in Costed : \A sc \in Cases, v \in Verdicts :
        PromiseKept(row, sc, v) /\ FigureIsPromised(row, sc, v)}
Silent  == {row \in Costed : \A sc \in Cases : BlankSpendNoFigure(row, sc)}
Steady  == {row \in Costed : \A sc, more \in Cases : AnswersCount(row, sc, more)}
Unmixed == {row \in Costed : \A sc \in Cases, v \in Verdicts : EstimatedIsSupplied(row, sc, v)}

\* What the calculation status promises and what the chart shows agree on every
\* row, whatever scrapes and edits made of it, but in the five cases PromiseFails
\* names: see PromiseKept, FigureIsPromised.
StatusMatchesChart == \A r \in rows : ProgrammeOf(r) \in Consistent

\* A producer's silence gives no figure on any row: see BlankSpendNoFigure.
SilenceGivesNoFigure == \A r \in rows : ProgrammeOf(r) \in Silent

\* A producer who fills in one more figure loses none and, answering no more than
\* was assumed, gains none: see AnswersCount (seed_spend_from_scenario, "seeded
\* independently", with the engines and limits of resolve_statutory_qualifying_spend).
AnswersKeepFigures == \A r \in rows : ProgrammeOf(r) \in Steady

\* "Nothing is overwritten" (statutory_calculation.py:158): an ESTIMATED figure rests
\* on the figures entered. It does not hold: a figure in a third currency is dropped
\* in conversion, then reads as never supplied, and the expected spend replaces it.
EstimatedNotOverwritten == \A r \in rows : ProgrammeOf(r) \in Unmixed
=============================================================================
