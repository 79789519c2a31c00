---------------------------- MODULE RunnerLedger ----------------------------
(* Runner implements Ledger: the task's status says whether the job is     *)
(* open, and the rows' statuses are the ledger.                            *)
EXTENDS Runner

Job(t) == IF Terminal(t) THEN t.status ELSE "open"

L == INSTANCE Ledger WITH job    <- Job(task),
                          ledger <- [r \in Rows |-> row[r].status]

(* Every step of every runner, zombie, sweeper and replay is a step the    *)
(* abstract ledger allows, or none: effects before flips, rows settled     *)
(* once, completed only when all is done (README.md:96-118).               *)
ImplementsLedger == L!Spec
=============================================================================
