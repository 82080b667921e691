--------------------------- MODULE MCSeriesParser ---------------------------
(* Mailboxes and tracker rows for TLC: three mails of five kinds in every   *)
(* relation of who answers whom, circles and a copy included.               *)
EXTENDS SeriesParser

Mail(id, parent, date, what) ==
  [id |-> id, parent |-> parent, date |-> date,
   tagged |-> what # "notice", version |-> IF what = "v2" THEN 2 ELSE 1, total |-> 1,
   title |-> IF what = "other" THEN "b" ELSE "a",
   byAuthor |-> what \in {"v1", "v2"},
   mergeHint |-> what \in {"notice", "reply"},
   reviewers |-> IF what = "reply" THEN {"maintainer"} ELSE {},
   diff |-> FALSE, lines |-> 1]

What == {"v1", "v2", "reply", "notice", "other"}
Dates == {<<1, 1, 8>>, <<1, 9, 100>>, <<0, 2, 3>>}

\* The third mail may be a copy of the second.
MCMailboxes ==
  {<<Mail(1, p[1], d[1], w[1]), Mail(2, p[2], d[2], w[2]), Mail(id, p[3], d[3], w[3])>> :
     id \in {2, 3}, d \in Dates, p \in {0, 2, 3} \X {0, 1, 3} \X {0, 1, 2},
     w \in {"v1", "v2", "other"} \X What \X What}

\* One title posted twice, a hundred days apart.
MCPostedAgain == {<<Mail(1, 0, 1, "v1"), Mail(2, 0, 101, "v1")>>}

MCRows ==
  UNION {[1 .. n -> [title : {"a", "b"}, version : {1}, total : {2},
                     status : {"submitted", "under_review", "merged"}]] : n \in 1 .. 2}
NoRows == {}
=============================================================================
