----------------------------- MODULE RestSource -----------------------------
(***************************************************************************)
(* The page-numbered REST source (apps/connectors/sources/rest_api.py): a  *)
(* generator that requests page after page and yields each one to its      *)
(* caller before it decides whether to go on.  The source is static: pages *)
(* 1 .. LastPage hold records and every later page is empty.  A cursor is  *)
(* a page number; None stands for the missing cursor.                      *)
(***************************************************************************)
EXTENDS Naturals

CONSTANTS
  LastPage,     \* the last page that holds records (0: the source is empty)
  ShortLast,    \* page_size is configured and the last page is shorter
  RetainEmpty,  \* config retain_empty_terminal_page
  MaxPages      \* config max_pages, counted anew by every fetch() call

ASSUME SourceAssumption ==
  /\ LastPage \in Nat
  /\ ShortLast \in BOOLEAN
  /\ RetainEmpty \in BOOLEAN
  /\ MaxPages \in Nat \ {0}

None == 0

\* Every page number a fetch can ask for, the terminal empty page included.
Pages == 1 .. LastPage + 1

\* The pages whose records a complete extraction delivers.
DataPages == 1 .. LastPage

Cursors == {None} \cup (1 .. LastPage + 1)

\* Mutant: the saved cursor is taken for the last page done.
FirstPageSkips(cursor) == IF cursor = None THEN 1 ELSE cursor + 1

\* fetch(): the page a call with this cursor starts from (start_page = 1).
FirstPage(cursor) == IF cursor = None THEN 1 ELSE cursor

HasRecords(page) == page \in DataPages

\* What a request for this page makes the generator do: yield the page, or
\* end without yielding when the page is empty and not retained.
Yields(page) == HasRecords(page) \/ RetainEmpty

\* FetchResult.next_cursor: None for an empty page and for a short last page.
NextCursor(page) ==
  IF HasRecords(page) /\ ~(ShortLast /\ page = LastPage) THEN page + 1 ELSE None

\* Mutant: the silent stop at max_pages that PageLimitExceededError replaced.
AfterYieldSilentStop(next, yielded) ==
  IF next = None \/ yielded >= MaxPages THEN "done" ELSE "more"

\* After the caller has consumed a page the generator stops on the last one,
\* raises PageLimitExceededError, or requests the page that follows.
AfterYield(next, yielded) ==
  IF next = None THEN "done" ELSE IF yielded >= MaxPages THEN "limit" ELSE "more"
=============================================================================
