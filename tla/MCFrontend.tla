----------------------------- MODULE MCFrontend -----------------------------
(* Users of Frontend for TLC: two who wait for every answer, with files that  *)
(* are streamed as they are and with files that are converted, and users who  *)
(* click at any time, with more clicks or with an engine that starts again.   *)
EXTENDS Frontend

User(p, f, m, c, s, r) ==
  [patient |-> p, files |-> f, model |-> m, clicks |-> c, starts |-> s, rows |-> r]
Users ==
  {User(TRUE, {"csv"}, TRUE, 3, 2, 0), User(TRUE, {"parquet", "twin"}, FALSE, 3, 1, 0),
   User(FALSE, {"csv"}, FALSE, 2, 2, 0), User(FALSE, {"csv"}, FALSE, 3, 1, 0),
   User(FALSE, {"parquet"}, FALSE, 2, 1, 0), User(FALSE, {"upper"}, TRUE, 1, 2, 1)}
OneHastyUser == {User(FALSE, {"csv"}, FALSE, 3, 1, 0)}
=============================================================================
