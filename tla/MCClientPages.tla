--------------------------- MODULE MCClientPages ----------------------------
(* Small instances of ClientPages for TLC. *)
EXTENDS ClientPages, TLC

Symmetry == Permutations(X) \cup Permutations(Y) \cup Permutations(C)
\* without Y, of which the pages of a desk take notifications only
DeskSymmetry == Permutations(X) \cup Permutations(C)

\* What happens while the safety of a page is checked
SafetyActs == [
  car |-> {"outcome"},
  catalog |-> {"sort", "moves", "fail", "reload"},
  chat |-> {"cancel", "delete", "reject", "fail"},
  account |-> {"register", "login", "logout", "save", "password", "reload"},
  tickets |-> {"user", "api", "lost"}, support |-> {"staff", "lost"},
  mylistings |-> {"fail"}, moderation |-> {"fail"},
  users |-> {"filter", "fail"}, cars |-> {"filter", "status", "delete"},
  choice |-> {"fail"}, new |-> {"lost", "refused"}, edit |-> {"lost"},
  form |-> {"create", "write", "fail"}]
=============================================================================
