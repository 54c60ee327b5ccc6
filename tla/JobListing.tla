------------------------------ MODULE JobListing -------------------------------
(***************************************************************************)
(* The default list of tasks: GET /api/jobs/unified (web/app.py) pages the *)
(* unfinished job rows and then the report history out of one snapshot,    *)
(* and the MCP bridge (mcp/listing.py) accepts a page only if it honours   *)
(* the contract.  Both are functions of ReportIndex's tables.              *)
(***************************************************************************)
EXTENDS ReportIndex, Sequences

CONSTANTS
    OtherJobs,      \* further unfinished rows, which do not change
    OtherReports    \* further reports of finished jobs

ASSUME OthersAssumption == /\ OtherJobs \cap OtherReports = {}
                           /\ Jobs \cap (OtherJobs \cup OtherReports) = {}

(* The rows are numbered in the order in which they were created.          *)
ASSUME RowsAssumption == \A S \in {Jobs, OtherJobs, OtherReports} : S \subseteq Nat /\ IsFiniteSet(S)

(* The rows of S, newest first: a larger number is a later row.            *)
Newest(S) ==
    [i \in 1 .. Cardinality(S) |-> CHOOSE x \in S : Cardinality({y \in S : y > x}) = i - 1]

Slice(s, limit, offset) == SubSeq(s, offset + 1, IF offset + limit < Len(s) THEN offset + limit ELSE Len(s))

Terminal == {j \in Jobs : jobs[j] = "failed"}

(* list_jobs with status_group non_completed: active rows, then terminal.  *)
JobSegment ==
    Newest({j \in Jobs : jobs[j] \notin {"completed", "no_row", "failed"}} \cup OtherJobs)
    \o Newest(Terminal)

(* Mutant: a report is listed whatever its job is doing.                   *)
HistorySegment_All == Newest(Indexed \cup OtherReports)

(* list_report_documents with exclude_unfinished_jobs.                     *)
HistorySegment == Newest({j \in Indexed : jobs[j] \in {"completed", "no_row"}} \cup OtherReports)

HistoryOffset(offset, jobs_total) == IF offset < jobs_total THEN 0 ELSE offset - jobs_total

Rows(kind, s) == [i \in 1 .. Len(s) |-> [kind |-> kind, job |-> s[i]]]

(* jobs_unified_list: the page is filled from the jobs first.              *)
UnifiedPage(limit, offset) ==
    LET first == JobSegment
        second == HistorySegment
        js == IF offset < Len(first) THEN Slice(first, limit, offset) ELSE <<>>
        hs == Slice(second, limit - Len(js), HistoryOffset(offset, Len(first)))
    IN  [items |-> Rows("job", js) \o Rows("history", hs),
         jobs_total |-> Len(first), history_total |-> Len(second),
         total |-> Len(first) + Len(second)]

(* unified_page of the bridge with its _strict_window: an exact page, and  *)
(* every row in the segment its global position says.                      *)
BridgeAccepts(page, limit, offset) ==
    LET left == IF page.total > offset THEN page.total - offset ELSE 0
    IN  /\ page.total = page.jobs_total + page.history_total
        /\ Len(page.items) = IF limit < left THEN limit ELSE left
        /\ \A i \in 1 .. Len(page.items) :
             page.items[i].kind = IF offset + i - 1 < page.jobs_total THEN "job" ELSE "history"

--------------------------------------------------------------------------------
Limits == 1 .. 2

(* What a user may expect to see: every unfinished job, and every report   *)
(* of a finished one.                                                      *)
Tasks == {j \in Jobs : jobs[j] \notin {"completed", "no_row"} \/ j \in Indexed}
         \cup OtherJobs \cup OtherReports

(* The bridge accepts the pages of this size, and together they show every *)
(* task exactly once.                                                      *)
PagesShowEachOnce(limit) ==
    \E pages \in {[k \in 0 .. Cardinality(Tasks) \div limit |-> UnifiedPage(limit, k * limit)]} :
      /\ pages[0].total = Cardinality(Tasks)
      /\ \A k \in DOMAIN pages : BridgeAccepts(pages[k], limit, k * limit)
      /\ \A j \in Tasks :
           Cardinality({x \in (DOMAIN pages) \X (1 .. limit) :
             /\ x[2] <= Len(pages[x[1]].items)
             /\ pages[x[1]].items[x[2]].job = j}) = 1

(* Whatever the pipeline, a rebuild or a crash has done to the tables,     *)
(* the bridge accepts every page of the list, and the pages of any size    *)
(* together show each unfinished job and each report of a finished one     *)
(* exactly once: no job twice although its row and its report both exist.  *)
PagesPartitionTasks == [][\A limit \in Limits : PagesShowEachOnce(limit)]_<<jobs, docs>>
================================================================================
