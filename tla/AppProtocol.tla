---------------------------- MODULE AppProtocol -----------------------------
(***************************************************************************)
(* What semgrep.dev may observe of one run of `semgrep ci`: a scan is      *)
(* opened once; then either its findings arrive and later its completion,  *)
(* which may be asked for again until it is granted or given up, or it is  *)
(* reported as failed.  A scan may also be left open (the run is cut off,  *)
(* or a request is refused), but never completed without findings, and     *)
(* never both completed and failed.                                        *)
(***************************************************************************)
VARIABLE scan

Init == scan = "none"

Open     == scan = "none" /\ scan' = "open"
Upload   == scan = "open" /\ scan' = "uploaded"
Complete == scan = "uploaded" /\ scan' = "completing"
GiveUp   == scan \in {"uploaded", "completing"} /\ scan' = "final"
Fail     == scan = "open" /\ scan' = "failed"

Next == Open \/ Upload \/ Complete \/ GiveUp \/ Fail

Spec == Init /\ [][Next]_scan
=============================================================================
