--------------------------- MODULE MCOperatorJobs ---------------------------
(***************************************************************************)
(* An instance of OperatorJobs for TLC: one API worker that records.       *)
(***************************************************************************)
EXTENDS OperatorJobs

\* Unchanged; a loss; open losses and a drawdown that set off both alerts.
SomePortfolios ==
    {[equity |-> 100, unrealized |-> 0],
     [equity |-> 99, unrealized |-> -1],
     [equity |-> 90, unrealized |-> -2]}

UnrealizedLimit == -2

\* One series, as an operator may send it: a candle comes late, and a newer
\* version of one follows.
SomeSeries ==
    {<<[at |-> 2, close |-> 5], [at |-> 1, close |-> 5], [at |-> 2, close |-> 6]>>}
=============================================================================
