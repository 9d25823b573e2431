---------------------------- MODULE B029Compare -----------------------------
(***************************************************************************)
(* From the Vision model's answer to a verdict                             *)
(* (src/src/local_ai_lab/poc_b029/client.py, compare.py, models.py).  A    *)
(* field of the answer is described by how it relates to the Kintone       *)
(* record's field: what the code tells apart, not the characters.          *)
(***************************************************************************)
EXTENDS Integers, Sequences, FiniteSets

FIELD_ORDER == <<"work_date", "work_order", "process", "item_code",
                 "actual_quantity", "defect_quantity">>
Fields == {FIELD_ORDER[i] : i \in DOMAIN FIELD_ORDER}
Quantities == {"actual_quantity", "defect_quantity"}
Texts == Fields \ (Quantities \cup {"work_date"})

\* What a field of the answer can be: "respelled" text differs from Kintone's
\* only in case and white space, "document" text contains source document
\* content, a "compact" date is one that date.fromisoformat accepts and the
\* record's schema does not (20260901, 2026-W36-2).
Kinds(f) ==
    CASE f \in Texts      -> {"same", "respelled", "other", "document", "null", "blank"}
      [] f \in Quantities -> {"same", "other", "null", "negative"}
      [] OTHER            -> {"same", "other", "null", "malformed", "compact"}

Unreadable == {"null", "blank", "negative", "malformed"}

Answered(rec) == \A f \in Fields : rec[f] \in Kinds(f)

-----------------------------------------------------------------------------
(* client.py.                                                              *)

\* _usable_field_value: what cannot be used becomes null.
UsableFieldValue(k) == IF k \in Unreadable THEN "null" ELSE k

Normalized(rec) == [f \in Fields |-> UsableFieldValue(rec[f])]

\* ExtractedProductionRecord.model_validate accepts the normalized record.
Validates(rec) == rec["work_date"] # "compact"

-----------------------------------------------------------------------------
(* compare.py.                                                             *)

\* _normalize: upper case, single spaces, ISO dates; on usable values.
Normalize(k) == IF k = "respelled" THEN "same" ELSE k

\* The fields of a set, in a given order of the six.
Pick(order, i, S) == IF order[i] \in S THEN <<order[i]>> ELSE <<>>
InOrder(order, S) == Pick(order, 1, S) \o Pick(order, 2, S) \o Pick(order, 3, S) \o
                     Pick(order, 4, S) \o Pick(order, 5, S) \o Pick(order, 6, S)

\* _is_usable is false of whatever _normalize would raise on.
ReviewFields(x) == {f \in Fields : x[f] \in Unreadable}

Differences(x) == {f \in Fields : Normalize(x[f]) # "same"}

\* A faulty variant: a plausible mistake that the properties must notice.
\* Nothing uses it.
CompareUnreviewed(x) ==
    [status |-> IF Differences(x) # {} THEN "mismatch" ELSE "match",
     differences |-> InOrder(FIELD_ORDER, Differences(x)),
     missing |-> InOrder(FIELD_ORDER, ReviewFields(x))]

\* compare_records.
CompareRecords(x) ==
    IF ReviewFields(x) # {}
    THEN [status |-> "needs_human_review", differences |-> <<>>,
          missing |-> InOrder(FIELD_ORDER, ReviewFields(x))]
    ELSE [status |-> IF Differences(x) # {} THEN "mismatch" ELSE "match",
          differences |-> InOrder(FIELD_ORDER, Differences(x)), missing |-> <<>>]
=============================================================================
