-------------------------- MODULE MCLanguageServer --------------------------
(***************************************************************************)
(* Small instances of LanguageServer for TLC.                              *)
(***************************************************************************)
EXTENDS LanguageServer

CONSTANTS fa, fb

(* fa is committed, fb is not tracked. *)
OneCommitted == [f \in Files |-> IF f = fa THEN 1 ELSE 0]

(* A client that waits for every reply and announces what it does, one     *)
(* that does not wait but sends messages of single files to one thread,    *)
(* one that opens nothing while files come and go, and clients that never  *)
(* wait: for replies, for rules or for the programs that write files.      *)
Clients ==
    { [waits |-> "always", jobs |-> 2, messages |-> Messages \ {"appear"}],
      [waits |-> "rules", jobs |-> 1, messages |-> {"open", "save", "ignore", "exit"}],
      [waits |-> "always", jobs |-> 1,
       messages |-> {"appear", "delete", "scanWorkspace", "refreshRules"}],
      [waits |-> "never", jobs |-> 2, messages |-> {"open", "save", "ignore", "appear"}],
      [waits |-> "never", jobs |-> 1, messages |-> {"open", "save", "refreshRules"}],
      [waits |-> "never", jobs |-> 1, messages |-> {"open", "save", "scanWorkspace"}],
      [waits |-> "never", jobs |-> 2, messages |-> {"open", "close", "create", "delete"}] }
=============================================================================
