--------------------------- MODULE MCLongContext ----------------------------
(* Small instances of LongContext for TLC.                                 *)
EXTENDS LongContext

SomeWindows == {<<>>, <<9>>, <<13, 9>>, <<5, 9>>}
\* The marker names the window and the position: it grows with both.
SomeOverhead(window, needle) ==
    (IF window > 9 THEN 2 ELSE 1) + (IF needle = "end" THEN 1 ELSE 2)
SomeNeedles == {<<>>, <<"start", "end">>, <<"middle">>}
=============================================================================
