----------------------------- MODULE CiMetadata -----------------------------
(***************************************************************************)
(* The metadata `semgrep ci` gathers before a scan (semgrep/meta.py): the  *)
(* CI provider recognised from the environment, where each field of the    *)
(* project comes from, the checkout that is corrected for GitHub's merge   *)
(* commits, and the search for the point where a pull request left its     *)
(* base branch in a clone that holds only the last commits.                *)
(*                                                                         *)
(* A field is described by the places it is looked for, in order: names of *)
(* environment variables, "event" (GitHub's event file), "git" (a command  *)
(* that answers in any repository) or "text" (a string that is never       *)
(* empty).  `job.env` is the set of the places that answer.                *)
(***************************************************************************)
EXTENDS Integers, Sequences

CONSTANTS MaxFetchAttempt,   \* MAX_FETCH_ATTEMPT_COUNT, 10 in the source
          MinFetchDepth,     \* SEMGREP_GHA_MIN_FETCH_DEPTH, 0 by default
          Distances          \* how far back the branch-off point may lie

ASSUME FetchBounds == /\ MaxFetchAttempt \in Nat \ {0}
                      /\ MinFetchDepth \in Nat
                      /\ Distances \subseteq Nat

VARIABLES job,      \* options and environment of the run, chosen once
          repo,     \* [head, depth, commits]: checkout, history and commits here
          search    \* [attempt, base]: the search and its result

metaVars == <<repo, search>>
NoRef == "none"

GitMeta ==
    [repo_name  |-> <<"SEMGREP_REPO_NAME", "git">>,
     repo_url   |-> <<"SEMGREP_REPO_URL", "git">>,
     branch     |-> <<"SEMGREP_BRANCH", "git">>,
     commit_sha |-> <<"SEMGREP_COMMIT", "git">>,
     ci_job_url |-> <<"SEMGREP_JOB_URL">>,
     pr_id      |-> <<"SEMGREP_PR_ID">>]

GithubMeta(event) ==
    [repo_name  |-> <<"SEMGREP_REPO_NAME", "GITHUB_REPOSITORY">>,
     repo_url   |-> <<"SEMGREP_REPO_URL", "GITHUB_REPOSITORY">>,
     branch     |-> IF event = "pull_request_target" THEN <<"GITHUB_HEAD_REF">>
                    ELSE <<"SEMGREP_BRANCH", "GITHUB_REF", "git">>,
     commit_sha |-> CASE event \in {"pull_request", "pull_request_target"} -> <<"event">>
                      [] event = "push" -> <<"GITHUB_SHA">>
                      [] OTHER -> GitMeta.commit_sha,
     ci_job_url |-> <<"SEMGREP_JOB_URL", "GITHUB_RUN_ID">>,
     pr_id      |-> <<"SEMGREP_PR_ID", "event">>]

GitlabMeta ==
    [repo_name  |-> <<"SEMGREP_REPO_NAME", "CI_PROJECT_PATH", "git">>,
     repo_url   |-> <<"SEMGREP_REPO_URL", "CI_PROJECT_URL", "git">>,
     branch     |-> <<"SEMGREP_BRANCH", "CI_COMMIT_BRANCH",
                      "CI_MERGE_REQUEST_SOURCE_BRANCH_NAME">>,
     commit_sha |-> <<"SEMGREP_COMMIT", "CI_COMMIT_SHA", "git">>,
     ci_job_url |-> <<"SEMGREP_JOB_URL", "CI_JOB_URL">>,
     pr_id      |-> <<"SEMGREP_PR_ID", "CI_MERGE_REQUEST_IID">>]

CircleCIMeta ==
    [repo_name  |-> <<"SEMGREP_REPO_NAME", "CIRCLE_PROJECT_REPONAME",
                      "CIRCLE_REPOSITORY_URL", "git">>,
     repo_url   |-> <<"SEMGREP_REPO_URL", "CIRCLE_REPOSITORY_URL", "git">>,
     branch     |-> <<"SEMGREP_BRANCH", "CIRCLE_BRANCH">>,
     commit_sha |-> <<"SEMGREP_COMMIT", "CIRCLE_SHA1">>,
     ci_job_url |-> <<"SEMGREP_JOB_URL", "CIRCLE_BUILD_URL">>,
     pr_id      |-> <<"SEMGREP_PR_ID", "CIRCLE_PULL_REQUEST">>]

JenkinsMeta ==
    [repo_name  |-> <<"SEMGREP_REPO_NAME", "GIT_URL", "git">>,
     repo_url   |-> <<"SEMGREP_REPO_URL", "GIT_URL", "GIT_URL_1", "git">>,
     branch     |-> <<"SEMGREP_BRANCH", "GIT_BRANCH">>,
     commit_sha |-> <<"SEMGREP_COMMIT", "GIT_COMMIT">>,
     ci_job_url |-> <<"SEMGREP_JOB_URL", "BUILD_URL">>,
     pr_id      |-> GitMeta.pr_id]

BitbucketMeta ==
    [repo_name  |-> <<"SEMGREP_REPO_NAME", "BITBUCKET_REPO_FULL_NAME",
                      "BITBUCKET_GIT_HTTP_ORIGIN", "git">>,
     repo_url   |-> <<"SEMGREP_REPO_URL", "BITBUCKET_GIT_HTTP_ORIGIN", "git">>,
     branch     |-> <<"SEMGREP_BRANCH", "BITBUCKET_BRANCH">>,
     commit_sha |-> <<"SEMGREP_COMMIT", "BITBUCKET_COMMIT">>,
     ci_job_url |-> <<"SEMGREP_JOB_URL", "text">>,
     pr_id      |-> <<"SEMGREP_PR_ID", "BITBUCKET_PR_ID">>]

AzurePipelinesMeta ==
    LET url == <<"SEMGREP_REPO_URL", "SYSTEM_PULLREQUEST_SOURCEREPOSITORYURI",
                 "BUILD_REPOSITORY_URI", "git">>
    IN [repo_name  |-> <<"SEMGREP_REPO_NAME">> \o url,
        repo_url   |-> url,
        branch     |-> <<"SEMGREP_BRANCH", "SYSTEM_PULLREQUEST_SOURCEBRANCH",
                         "BUILD_SOURCEBRANCH", "BUILD_SOURCEBRANCHNAME", "text">>,
        commit_sha |-> <<"SEMGREP_COMMIT", "SYSTEM_PULLREQUEST_SOURCECOMMITID",
                         "BUILD_SOURCEVERSION">>,
        ci_job_url |-> <<"SEMGREP_JOB_URL", "BUILD_BUILDID">>,
        pr_id      |-> <<"SEMGREP_PR_ID", "SYSTEM_PULLREQUEST_PULLREQUESTNUMBER">>]

BuildkiteMeta ==
    [repo_name  |-> <<"SEMGREP_REPO_NAME", "BUILDKITE_REPO", "git">>,
     repo_url   |-> <<"SEMGREP_REPO_URL", "BUILDKITE_REPO", "git">>,
     branch     |-> <<"SEMGREP_BRANCH", "BUILDKITE_BRANCH">>,
     commit_sha |-> <<"SEMGREP_COMMIT", "BUILDKITE_COMMIT">>,
     ci_job_url |-> <<"SEMGREP_JOB_URL", "text">>,
     pr_id      |-> <<"SEMGREP_PR_ID", "BUILDKITE_PULL_REQUEST">>]

TravisMeta ==
    [repo_name  |-> <<"SEMGREP_REPO_NAME", "TRAVIS_REPO_SLUG", "git">>,
     repo_url   |-> <<"SEMGREP_REPO_URL", "text">>,
     branch     |-> <<"SEMGREP_BRANCH", "TRAVIS_PULL_REQUEST_BRANCH", "TRAVIS_BRANCH">>,
     commit_sha |-> <<"SEMGREP_COMMIT", "TRAVIS_COMMIT">>,
     ci_job_url |-> <<"SEMGREP_JOB_URL", "TRAVIS_JOB_WEB_URL">>,
     pr_id      |-> <<"SEMGREP_PR_ID", "TRAVIS_PULL_REQUEST">>]

\* The first variable of this list that is set decides the provider.
Markers == <<"GITHUB_ACTIONS", "GITLAB_CI", "CIRCLECI", "JENKINS_URL",
             "BITBUCKET_BUILD_NUMBER", "BUILD_BUILDID", "BUILDKITE", "TRAVIS",
             "SEMGREP_MANAGED_SCAN", "SEMGREP_MCP">>

FirstOf(places, env) ==
    IF \E i \in 1..Len(places) : places[i] \in env
    THEN places[CHOOSE i \in 1..Len(places) :
                  /\ places[i] \in env
                  /\ \A k \in 1..(i - 1) : places[k] \notin env]
    ELSE NoRef

Provider(env) == FirstOf(Markers, env)

Fields(env, event) ==
    LET p == Provider(env) IN
    CASE p = "GITHUB_ACTIONS" -> GithubMeta(event)
      [] p = "GITLAB_CI" -> GitlabMeta
      [] p = "CIRCLECI" -> CircleCIMeta
      [] p = "JENKINS_URL" -> JenkinsMeta
      [] p = "BITBUCKET_BUILD_NUMBER" -> BitbucketMeta
      [] p = "BUILD_BUILDID" -> AzurePipelinesMeta
      [] p = "BUILDKITE" -> BuildkiteMeta
      [] p = "TRAVIS" -> TravisMeta
      [] OTHER -> GitMeta

From(field) == FirstOf(Fields(job.env, job.event)[field], job.env)
IsGithub == Provider(job.env) = "GITHUB_ACTIONS"
IsPullRequestEvent == IsGithub /\ job.event \in {"pull_request", "pull_request_target"}

EventName ==
    LET p == Provider(job.env) IN
    IF p \in {"GITHUB_ACTIONS", "GITLAB_CI", "SEMGREP_MANAGED_SCAN"} THEN job.event
    ELSE IF From("pr_id") # NoRef THEN "pull_request" ELSE "unknown"

\* The commit a place names: the tip of the branch under test, or, when a
\* user sets SEMGREP_COMMIT, whatever commit the user means.
CommitOf(place) == CASE place = "SEMGREP_COMMIT" -> "user"
                     [] place = "git" -> repo.head
                     [] place = NoRef -> NoRef
                     [] OTHER -> "tip"

\* Only GitMeta is built with the sub-directory; every other class gets the
\* baseline alone.
RepoDisplayName ==
    [project |-> From("repo_name"),
     subdir  |-> job.subdir /\ Provider(job.env) = NoRef]

ProjectMetadata(empty, base) ==
    [repo         |-> RepoDisplayName,
     on           |-> EventName,
     branch       |-> IF empty THEN NoRef ELSE From("branch"),
     commit       |-> IF empty THEN NoRef ELSE CommitOf(From("commit_sha")),
     is_full_scan |-> base = NoRef]

-----------------------------------------------------------------------------

\* Mutant of FixHeadIfGithubAction: fetches the head and stays where it is.
FetchHeadOnly ==
    IF IsPullRequestEvent
    THEN repo' = [repo EXCEPT !.commits = @ \cup {"tip", "base"}]
    ELSE UNCHANGED repo

\* GitHub checks out a merge commit for a pull request; the CLI fetches the
\* head and the base of the pull request and checks its head out.
FixHeadIfGithubAction ==
    IF IsPullRequestEvent
    THEN repo' = [repo EXCEPT !.head = "tip", !.commits = @ \cup {"tip", "base"}]
    ELSE UNCHANGED repo

FetchDepth(attempt) ==
    (IF attempt = 0 THEN 0 ELSE 4 ^ attempt) + MinFetchDepth

\* The base is known without a search: given on the command line, absent, or
\* (GitLab) computed from one fetch of the target branch.
BaseWithoutSearch(given) ==
    /\ ~(IsPullRequestEvent /\ ~given)
    /\ search' = [search EXCEPT !.base =
                    IF given THEN "given"
                    ELSE IF Provider(job.env) = "GITLAB_CI" /\ job.event = "pull_request"
                    THEN "fork" ELSE NoRef]
    /\ repo' = [repo EXCEPT !.commits = IF search'.base = "fork" THEN @ \cup {"fork"} ELSE @]

\* Mutant of AskGithub: the commit the API names is not fetched.
AskGithubOnly(given) ==
    /\ IsPullRequestEvent /\ ~given
    /\ search.attempt = 0 /\ job.ghToken
    /\ search' = [search EXCEPT !.base = "fork"]
    /\ UNCHANGED repo

\* GitHub's API names the merge base, which is then fetched alone.
AskGithub(given) ==
    /\ IsPullRequestEvent /\ ~given
    /\ search.attempt = 0 /\ job.ghToken
    /\ search' = [search EXCEPT !.base = "fork"]
    /\ repo' = [repo EXCEPT !.commits = @ \cup {"fork"}]

AttemptsLeft == search.attempt <= MaxFetchAttempt

\* One attempt: from the second on, deepen both branches; then ask git
\* whether the two histories meet.  The last attempt that does not see it
\* raises, and `search.base` stays unset.
FindBranchoffPoint(given) ==
    /\ IsPullRequestEvent /\ ~given /\ AttemptsLeft
    /\ LET depth == IF search.attempt = 0 THEN repo.depth
                    ELSE FetchDepth(search.attempt)
           reached == job.distance <= depth
       IN /\ repo' = [repo EXCEPT !.depth = depth,
                        !.commits = IF reached THEN @ \cup {"fork"} ELSE @]
          /\ search' = IF reached THEN [search EXCEPT !.base = "fork"]
                       ELSE [search EXCEPT !.attempt = @ + 1]
=============================================================================
