---------------------------- MODULE MCAnalytics ----------------------------
(***************************************************************************)
(* An instance of Analytics for TLC.                                       *)
(***************************************************************************)
EXTENDS Analytics, TLC

CONSTANTS c1, c2, c3
MCCustomers == {c1, c2, c3}

\* Labels 1 to 4, of which 3 is "Unknown"; null, '' and "Unknown" occur, and so
\* do more countries than TopN.
P(segment, country, balance, age, no_email) ==
    [category |-> ("segment" :> segment @@ "country" :> country),
     balance |-> balance, age |-> age, no_email |-> no_email, no_phone |-> 0]
MCProfiles == {P(1, 1, 20, None, 0), P(None, 2, None, 30, 1), P(Blank, 4, 5, 40, 0),
               P(3, None, 7, None, 1)}

\* Nobody, one customer of each kind, three of them in every mixture that shows
\* a tie or a fold.
MCStarts ==
    {s \in Snapshot :
        \/ s[c3] = None /\ s[c2] = None
        \/ s[c1] # None /\ s[c2] = P(None, 2, None, 30, 1) /\ s[c3] = P(Blank, 4, 5, 40, 0)
        \/ s[c1] = P(3, None, 7, None, 1) /\ s[c2] = s[c3] /\ s[c2] # None}

Upper == <<"CUSTOMER_ID", "TOTAL_BALANCE", "AGE_YEARS">>
MCSchemas == {<< >>, Upper, Columns, <<None, None, None>>,
              <<Upper[1], None, Upper[3]>>, <<None, Upper[2], Upper[3]>>}
MCLower == [n \in {Upper[i] : i \in 1..3} \cup {Columns[i] : i \in 1..3} |->
              IF \E i \in 1..3 : n = Upper[i] THEN Columns[CHOOSE i \in 1..3 : n = Upper[i]]
              ELSE n]
=============================================================================
