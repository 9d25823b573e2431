----------------------------- MODULE MCB029Run ------------------------------
(* Small instances of B029Run for TLC.                                     *)
EXTENDS B029Run

\* case-01 and case-10 of the fixtures.
SomeCases == {FIXTURES[1], FIXTURES[10]}

Matching == [f \in Fields |-> "same"]

\* One answer for each verdict, and each way to get there.
SomeAnswers ==
    {[Matching EXCEPT !["item_code"] = "respelled"],
     [Matching EXCEPT !["defect_quantity"] = "other"],
     [Matching EXCEPT !["work_date"] = "other", !["process"] = "other"],
     [Matching EXCEPT !["defect_quantity"] = "negative", !["process"] = "other"],
     [Matching EXCEPT !["process"] = "document"],
     [Matching EXCEPT !["work_date"] = "compact"]}
=============================================================================
