---------------------------- MODULE MCTargetScan ----------------------------
(***************************************************************************)
(* Small instances of TargetScan for TLC.                                  *)
(***************************************************************************)
EXTENDS TargetScan

CONSTANTS fa, fb

(* Processes or domains, with and without a time limit and fail_fast, with *)
(* alarms that land in the rules or anywhere.                              *)
AllConfigs == [signal : BOOLEAN, timeLimit : BOOLEAN, failFast : BOOLEAN,
               handlerAlarms : BOOLEAN, suspends : BOOLEAN]

(* Two targets of one file in two languages, and a file of its own. *)
SharedFile == <<fa, fb, fa>>

(* Relevant rules of each target: one has none. *)
FewRules == <<3, 0, 2>>
=============================================================================
