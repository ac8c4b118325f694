------------------------- MODULE MCIncentiveReview -------------------------
(* Instances of IncentiveReview for TLC. *)
EXTENDS IncentiveReview, TLC

CONSTANTS p1, p2,        \* programmes
          page1, page2,  \* their source pages
          c1, c2, c3     \* pending changes

Fresh == Permutations({c1, c2})

On(p, s, r, st) == [prog |-> p, src |-> s, rate |-> r, status |-> st]
OnRecord == <<On(p1, page1, "20%", "active")>>
Scraped == {On(p1, page1, "20%", "active"), On(p1, page1, "25%", "suspended"),
            On(p2, page1, "25%", "active"), On(p2, page2, Unknown, "suspended")}

\* p1 declares two inputs and has both limits, p2 declares nothing.
Conditions ==
    [p \in Programs |->
        IF p = p1 THEN [declared |-> {"local_core_expenditure", "eligible_local_spend"},
                        pct |-> 80, cap |-> 300]
                  ELSE [declared |-> {}, pct |-> Unknown, cap |-> Unknown]]

Blank_ == [k \in Keys |-> Unknown]
Some_  == [Blank_ EXCEPT !["local_core_expenditure"] = 500, !["eligible_local_spend"] = 200]
Local_ == [Blank_ EXCEPT !["local_core_expenditure"] = 500]
All_   == [k \in Keys |-> 400]
Asked ==
    {[amount |-> a, assumed |-> {}, foreign |-> x, spend |-> s, source |-> o,
      budget |-> 500, rated |-> TRUE] :
        a \in {Some_, All_}, x \in {{}, {"local_core_expenditure"}},
        s \in {Unknown, 450}, o \in {"user_entered", "unknown"}}
    \cup {[amount |-> a, assumed |-> {}, foreign |-> {}, spend |-> s, source |-> o,
           budget |-> 500, rated |-> r] :
        a \in {Blank_, Local_}, s \in {Unknown, 450}, o \in {"user_entered", "unknown"},
        r \in BOOLEAN}
=============================================================================
