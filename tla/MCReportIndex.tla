----------------------------- MODULE MCReportIndex -----------------------------
(* Small instances of ReportIndex with the task list.                      *)
EXTENDS JobListing
================================================================================
