---------------------------- MODULE MCUserState ----------------------------
(* Two processes of a user, with the settings and the engine that earlier   *)
(* runs may have left.                                                      *)
EXTENDS UserState, TLC

CONSTANTS p1, p2, good, other, bad

Base == [cmd |-> "scan", env |-> None, metrics |-> "auto", registry |-> FALSE,
         pro |-> FALSE, legacy |-> FALSE, denied |-> FALSE, force |-> FALSE,
         tty |-> TRUE, rules |-> 0, public |-> FALSE]

Scan == [Base EXCEPT !.registry = TRUE]
QuietScan == [Base EXCEPT !.metrics = "off", !.env = bad, !.denied = TRUE]
ProScan == [Base EXCEPT !.pro = TRUE, !.metrics = "on"]
LegacyPro == [Base EXCEPT !.pro = TRUE, !.legacy = TRUE, !.env = good]
LoginNow == [Base EXCEPT !.cmd = "login"]
LoginForced == [Base EXCEPT !.cmd = "login", !.force = TRUE, !.env = bad]
LoginEnv == [Base EXCEPT !.cmd = "login", !.env = bad, !.tty = FALSE]
LoginPiped == [Base EXCEPT !.cmd = "login", !.tty = FALSE]
Publishes == [Base EXCEPT !.cmd = "publish", !.rules = 2, !.env = good]
PublishesTwo == [Publishes EXCEPT !.public = TRUE]
Installs == [Base EXCEPT !.cmd = "install", !.env = good]
InstallsBad == [Base EXCEPT !.cmd = "install"]

Pair(a, b) == (p1 :> a) @@ (p2 :> b)

\* Each pair has its own race; no two installations.
Pairs == {Pair(Scan, LoginNow), Pair(LoginForced, Publishes),
          Pair(ProScan, Installs), Pair(LegacyPro, Installs),
          Pair(Scan, QuietScan), Pair(LoginEnv, LoginPiped),
          Pair(InstallsBad, LoginNow), Pair(PublishesTwo, QuietScan)}

EarlierRuns == {[file |-> Missing, stamp |-> "missing"],
                [file |-> Settings(None, TRUE), stamp |-> "older"],
                [file |-> Settings(other, FALSE), stamp |-> "current"],
                [file |-> [kind |-> "garbage"], stamp |-> "older"]}
=============================================================================
