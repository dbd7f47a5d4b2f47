----------------------------- MODULE MCProgress ------------------------------
(* A small instance of Progress for TLC. *)
EXTENDS Progress

\* What happens while it is checked that the pages answer
LiveActs == [
  car |-> {"archive", "return"},
  catalog |-> {"year", "sort"},
  chat |-> {"cancel", "fail", "fallback", "reject", "return"},
  account |-> {"login", "logout"},
  tickets |-> {"user", "lost"}, support |-> {},
  mylistings |-> {"fail", "elsewhere"}, moderation |-> {"search", "fail"},
  users |-> {"search"}, cars |-> {"filter", "delete", "elsewhere", "fail"},
  choice |-> {"fail"}, new |-> {"leave", "lost"}, edit |-> {"files"},
  form |-> {"create", "fail", "files"}]
=============================================================================
