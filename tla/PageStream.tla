----------------------------- MODULE PageStream -----------------------------
(***************************************************************************)
(* What a run relies on when it iterates over source.fetch(): the pages    *)
(* come one by one from the cursor on, the caller has each page before the *)
(* next one is requested, and the iteration ends: with the source's last   *)
(* page, at max_pages, or with an error that is retryable or final.  This  *)
(* is the source that PipelineExecution steps through; SourceFetch, with   *)
(* its tokens, policy and HTTP exchanges, is shown to implement it.        *)
(***************************************************************************)
EXTENDS RestSource

VARIABLES
  cursor,    \* the run's last_successful_cursor, with which fetch() is called
  page,      \* the page requested next, or the one the caller holds
  yielded,   \* pages of this call that the caller has finished
  status     \* "fetch", "yielded" or how the iteration ended

streamVars == <<cursor, page, yielded, status>>

Errors == {"retryable", "final"}

Init ==
  /\ cursor \in Cursors
  /\ page = FirstPage(cursor)
  /\ yielded = 0
  /\ status = "fetch"

Fetch ==
  /\ status = "fetch"
  /\ status' = IF Yields(page) THEN "yielded" ELSE "done"
  /\ UNCHANGED <<cursor, page, yielded>>

Fail ==
  /\ status = "fetch"
  /\ status' \in Errors
  /\ UNCHANGED <<cursor, page, yielded>>

\* The caller asks for the next page.
Resume ==
  LET after == AfterYield(NextCursor(page), yielded + 1) IN
  /\ status = "yielded"
  /\ status' = IF after = "more" THEN "fetch" ELSE after
  /\ page' = IF after = "more" THEN page + 1 ELSE page
  /\ yielded' = yielded + 1
  /\ UNCHANGED cursor

Next == Fetch \/ Fail \/ Resume

\* What the stream may do, and that it goes on.
Safety == Init /\ [][Next]_streamVars

Spec == Safety /\ WF_streamVars(Next)
=============================================================================
