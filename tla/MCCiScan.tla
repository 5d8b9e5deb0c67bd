----------------------------- MODULE MCCiScan -------------------------------
(* Instances of CiScan: the environments of the providers, the options, and  *)
(* the answers semgrep.dev may give.                                         *)
EXTENDS CiScan

Everywhere == {"git", "text"}
Github == {"GITHUB_ACTIONS", "GITHUB_REPOSITORY", "GITHUB_REF", "GITHUB_HEAD_REF",
           "GITHUB_SHA", "GITHUB_RUN_ID", "event"} \cup Everywhere
Overrides == {"SEMGREP_REPO_NAME", "SEMGREP_BRANCH", "SEMGREP_COMMIT"}

Native ==
    {{"GITLAB_CI", "CI_PROJECT_PATH", "CI_COMMIT_SHA", "CI_COMMIT_BRANCH"},
     {"CIRCLECI", "CIRCLE_PROJECT_REPONAME", "CIRCLE_SHA1", "CIRCLE_PULL_REQUEST"},
     {"JENKINS_URL", "GIT_URL", "GIT_COMMIT"},
     {"BITBUCKET_BUILD_NUMBER", "BITBUCKET_REPO_FULL_NAME", "BITBUCKET_COMMIT"},
     {"BUILD_BUILDID", "BUILD_REPOSITORY_URI", "BUILD_SOURCEVERSION"},
     {"BUILDKITE", "BUILDKITE_REPO", "BUILDKITE_COMMIT", "BUILDKITE_PULL_REQUEST"},
     {"TRAVIS", "TRAVIS_REPO_SLUG", "TRAVIS_COMMIT"},
     {"SEMGREP_MANAGED_SCAN"}, {"SEMGREP_MCP"}, {}}

Plain == [env |-> Github, event |-> "push", token |-> TRUE, config |-> FALSE,
          dry |-> FALSE, partial |-> FALSE, suppress |-> FALSE, audit |-> FALSE,
          secrets |-> FALSE, oss |-> FALSE, historical |-> FALSE, baseline |-> FALSE,
          subdir |-> FALSE, ghToken |-> FALSE, empty |-> FALSE, distance |-> 0]

\* One family of runs for each part of the command.
MCJobs ==
    {[Plain EXCEPT !.env = n \cup Everywhere \cup o, !.event = e, !.subdir = TRUE] :
        n \in Native, o \in {{}, Overrides}, e \in {"pull_request"}}
    \cup {[Plain EXCEPT !.env = n \cup Everywhere, !.event = "push"] : n \in Native}
    \cup {[Plain EXCEPT !.env = Github \cup o, !.event = e] :
        o \in {{}, Overrides}, e \in {"pull_request", "pull_request_target", "push", "schedule"}}
    \cup {[Plain EXCEPT !.event = "pull_request", !.baseline = b, !.ghToken = g, !.distance = d] :
        b \in BOOLEAN, g \in BOOLEAN, d \in Distances}
    \cup {[Plain EXCEPT !.token = t, !.config = c] : t \in BOOLEAN, c \in BOOLEAN}
    \cup {[Plain EXCEPT !.dry = d, !.partial = p, !.empty = e] :
        d \in BOOLEAN, p \in BOOLEAN, e \in BOOLEAN}
    \cup {[Plain EXCEPT !.suppress = s, !.audit = a, !.token = t, !.config = ~t] :
        s \in BOOLEAN, a \in BOOLEAN, t \in BOOLEAN}
    \cup {[Plain EXCEPT !.secrets = s, !.oss = o, !.historical = h] :
        s \in BOOLEAN, o \in BOOLEAN, h \in BOOLEAN}

Answer == [suppress |-> FALSE, products |-> {"sast"}, rules |-> TRUE,
           mergeBase |-> FALSE, historical |-> FALSE]
MCReplies ==
    {Answer, [Answer EXCEPT !.suppress = TRUE], [Answer EXCEPT !.products = {}],
     [Answer EXCEPT !.rules = FALSE], [Answer EXCEPT !.mergeBase = TRUE],
     [Answer EXCEPT !.products = {"sast", "secrets"}, !.historical = TRUE]}

MCFound == {{}, {"blocking"}, {"triaged"}, {"nonblocking", "cai", "transient"}}

\* Every combination a server that is not overriding sends, and the blocks.
MCAnswers == {[success |-> s, override |-> b # "none", ids |-> b = "ids", reason |-> b = "reason"] :
                s \in BOOLEAN, b \in {"none", "ids", "reason"}}
             \cup {[success |-> TRUE, override |-> FALSE, ids |-> TRUE, reason |-> TRUE]}
=============================================================================
