---------------------------- MODULE MCDualWrite ----------------------------
(***************************************************************************)
(* Instances of DualWrite for TLC: rows, request bodies and seeds.         *)
(***************************************************************************)
EXTENDS DualWrite, TLC

CONSTANTS c1, c2, a1, t1, t2, u1, u2, r1, r2, r3

OfCustomer(u) == [uniq |-> u, status |-> "ACTIVE", closed |-> FALSE, refs |-> {}]
OfAccount(u, c) == [uniq |-> u, status |-> "ACTIVE", closed |-> FALSE, refs |-> {c}]
OfTxn == [uniq |-> None, status |-> "COMPLETED", closed |-> FALSE,
          refs |-> {c1} \cup (Accounts \cap {a1})]

Nothing == [uniq |-> None, status |-> None, closed |-> FALSE, owner |-> None]
Renamed(u) == [Nothing EXCEPT !.uniq = u]
Marked(s) == [Nothing EXCEPT !.status = s]

\* A seeded customer and account; the second customer is created by a request.
MCSeeds == {[k \in Keys |-> CASE k = c1 -> OfCustomer(u1)
                              [] k = a1 -> OfAccount(u1, c1)
                              [] OTHER -> None]}
MCNewRows == [k \in Keys |-> CASE k \in Customers -> {OfCustomer(u1), OfCustomer(u2)}
                               [] k \in Accounts -> {OfAccount(u2, c1)}
                               [] OTHER -> {OfTxn}]
MCPatches == [k \in Customers \cup Accounts |->
                IF k \in Customers THEN {Nothing, Renamed(u2), Marked("CLOSED")}
                ELSE {Marked("CLOSED"), [Nothing EXCEPT !.owner = c2]}]

\* Customers alone: the races of the writers of one row.
RowPatches == [k \in Customers \cup Accounts |->
                IF k \in Customers THEN {Nothing, Renamed(u2), Marked("CLOSED")} ELSE {}]

Symmetry == Permutations(Requests) \cup Permutations(Txns)
=============================================================================
