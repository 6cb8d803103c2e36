--------------------------- MODULE MCFilingPipeline ---------------------------
(* Values of the constants for TLC: an original filing, its redelivery, and *)
(* two further filings of the same company and period.                      *)
EXTENDS FilingPipeline

MCRequests == {"original", "redelivered", "amended", "restated"}
MCContents == [r \in MCRequests |-> IF r = "redelivered" THEN "original" ELSE r]
MCPeriods == [r \in MCRequests |-> "FY2024"]
=============================================================================
