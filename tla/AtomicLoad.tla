----------------------------- MODULE AtomicLoad -----------------------------
(***************************************************************************)
(* What a run relies on when it maps and loads a page: the destination     *)
(* gets the page's rows all at once or not at all, and the attempts end.   *)
(* PipelineExecution's load steps are those of this module (Load,          *)
(* LoadInDoubt, a crash, an error); PageLoad, with its mapping, batches,   *)
(* transaction and retries, is shown to implement it.                      *)
(***************************************************************************)
EXTENDS Sequences

VARIABLES
  rows,     \* the page's rows
  table,    \* what the destination has committed
  status    \* "trying", "committed", "saved" or "failed"

loadVars == <<rows, table, status>>

Init ==
  /\ table = <<>>
  /\ status = "trying"

\* destination.load returns: the rows are there.
Load ==
  /\ status = "trying"
  /\ status' = "committed"
  /\ table' = table \o rows
  /\ UNCHANGED rows

\* The rows are there but load raised an error, retryable or final.
LoadInDoubt ==
  /\ status = "trying"
  /\ status' \in {"trying", "failed"}
  /\ table' = table \o rows
  /\ UNCHANGED rows

\* The worker dies after the commit: the next attempt knows nothing of it.
Forget ==
  /\ status = "committed"
  /\ status' = "trying"
  /\ UNCHANGED <<rows, table>>

Save ==
  /\ status = "committed"
  /\ status' = "saved"
  /\ UNCHANGED <<rows, table>>

Fail ==
  /\ status \in {"trying", "committed"}
  /\ status' = "failed"
  /\ UNCHANGED <<rows, table>>

Next == Load \/ LoadInDoubt \/ Forget \/ Save \/ Fail

Settled == status \in {"saved", "failed"}

Safety == Init /\ [][Next]_loadVars

\* Attempts and crashes are not without end.
Spec == Safety /\ <>Settled
=============================================================================
