------------------------------ MODULE Release ------------------------------
(***************************************************************************)
(* deploy() of scripts/deploy/release.py: the next release of the          *)
(* application and its shared desktop, with the way back.  A file lock     *)
(* lets one run at a time; every step may fail, be interrupted, or be the  *)
(* last one before the process is killed, and so may those of the way      *)
(* back.  The restarts of docker, and its store of images, are taken as    *)
(* working.                                                                *)
(***************************************************************************)
EXTENDS Naturals

CONSTANTS
    Commits,          \* commits of main
    FirstCommit,      \* what runs at first
    DesktopOf(_),     \* the digest of a commit's desktop directory
    MaxDeploys

ASSUME ReleaseAssumption == FirstCommit \in Commits /\ MaxDeploys \in Nat

VARIABLES
    main,       \* the head of main
    running,    \* what the two containers run, and the environment they were made with
    tags,       \* the :local image of both, and :managed
    files,      \* .env.production, deployed-desktop-hash, deployed-release
    deploy,     \* the deploy that holds the lock
    deploys,    \* how many were started
    tainted     \* a deploy was killed, or did not find the way back, since a whole desktop release

releaseVars == <<main, running, tags, files, deploy, deploys, tainted>>

NoDeploy == [at |-> "none", sha |-> FirstCommit, changed |-> FALSE,
             old |-> [app |-> FirstCommit, desktop |-> DesktopOf(FirstCommit)], oldEnv |-> "before"]

ReleaseTypeOK ==
    /\ running.app \in Commits /\ tags.app \in Commits /\ deploy.sha \in Commits
    /\ files.env \in {"before", "views"} /\ tainted \in BOOLEAN

ReleaseInit ==
    /\ main = FirstCommit
    /\ running = [app |-> FirstCommit, desktop |-> DesktopOf(FirstCommit), env |-> "before"]
    /\ tags = [app |-> FirstCommit, desktop |-> DesktopOf(FirstCommit), managed |-> DesktopOf(FirstCommit)]
    /\ files = [env |-> "before", hash |-> DesktopOf(FirstCommit), release |-> FirstCommit]
    /\ deploy = NoDeploy
    /\ deploys = 0
    /\ tainted = FALSE

Push(c) ==
    /\ c # main
    /\ main' = c
    /\ UNCHANGED <<running, tags, files, deploy, deploys, tainted>>

-----------------------------------------------------------------------------
(* Forward *)

\* The lock, the checks, the source and its digest.
BeginDeploy(c) ==
    /\ deploy.at = "none" /\ deploys < MaxDeploys /\ c = main
    /\ deploy' = [NoDeploy EXCEPT !.at = "build", !.sha = c, !.changed = files.hash # DesktopOf(c)]
    /\ deploys' = deploys + 1
    /\ UNCHANGED <<main, running, tags, files, tainted>>

\* The images are built under their commit; what runs is looked up, the database saved.
Build ==
    /\ deploy.at = "build"
    /\ deploy' = [deploy EXCEPT !.at = "env", !.old = [app |-> running.app, desktop |-> running.desktop], !.oldEnv = files.env]
    /\ UNCHANGED <<main, running, tags, files, deploys, tainted>>

\* update_env() replaces the file.
UpdateEnv ==
    /\ deploy.at = "env"
    /\ files' = [files EXCEPT !.env = "views"]
    /\ deploy' = [deploy EXCEPT !.at = "tag"]
    /\ UNCHANGED <<main, running, tags, deploys, tainted>>

TagApp ==
    /\ deploy.at = "tag"
    /\ tags' = [tags EXCEPT !.app = deploy.sha]
    /\ deploy' = [deploy EXCEPT !.at = IF deploy.changed THEN "tag desktop" ELSE "app"]
    /\ UNCHANGED <<main, running, files, deploys, tainted>>

\* :local, :managed, the way out of the old home, the stop.
TagDesktop ==
    /\ deploy.at \in {"tag desktop", "tag managed"}
    /\ IF deploy.at = "tag desktop"
       THEN tags' = [tags EXCEPT !.desktop = DesktopOf(deploy.sha)] /\ deploy' = [deploy EXCEPT !.at = "tag managed"]
       ELSE tags' = [tags EXCEPT !.managed = DesktopOf(deploy.sha)] /\ deploy' = [deploy EXCEPT !.at = "desktop"]
    /\ UNCHANGED <<main, running, files, deploys, tainted>>

\* compose up: a container is made anew when its image or its environment is another.
UpDesktop ==
    /\ deploy.at = "desktop"
    /\ running' = [running EXCEPT !.desktop = tags.desktop]
    /\ deploy' = [deploy EXCEPT !.at = "app"]
    /\ UNCHANGED <<main, tags, files, deploys, tainted>>

UpApp ==
    /\ deploy.at = "app"
    /\ running' = [running EXCEPT !.app = tags.app, !.env = files.env]
    /\ deploy' = [deploy EXCEPT !.at = "verify"]
    /\ UNCHANGED <<main, tags, files, deploys, tainted>>

Verify ==
    /\ deploy.at = "verify" /\ running.app = deploy.sha
    /\ deploy' = [deploy EXCEPT !.at = "hash"]
    /\ UNCHANGED <<main, running, tags, files, deploys, tainted>>

\* The two files, after which nothing leads back.
WriteState ==
    /\ deploy.at \in {"hash", "release"}
    /\ IF deploy.at = "hash"
       THEN /\ files' = [files EXCEPT !.hash = DesktopOf(deploy.sha)] /\ deploy' = [deploy EXCEPT !.at = "release"]
            /\ UNCHANGED tainted
       ELSE /\ files' = [files EXCEPT !.release = deploy.sha] /\ deploy' = NoDeploy
            /\ tainted' = (tainted /\ ~deploy.changed)
    /\ UNCHANGED <<main, running, tags, deploys>>

-----------------------------------------------------------------------------
(* The way back *)

\* A step of the try block fails or is interrupted.
StepFails ==
    /\ deploy.at \in {"env", "tag", "tag desktop", "tag managed", "desktop", "app", "verify"}
    /\ deploy' = [deploy EXCEPT !.at = "restore"]
    /\ UNCHANGED <<main, running, tags, files, deploys, tainted>>

RestoreEnv ==
    /\ deploy.at = "restore"
    /\ files' = [files EXCEPT !.env = deploy.oldEnv]
    /\ deploy' = [deploy EXCEPT !.at = "untag"]
    /\ UNCHANGED <<main, running, tags, deploys, tainted>>

RestoreTags ==
    /\ deploy.at = "untag"
    /\ tags' = [tags EXCEPT !.app = deploy.old.app, !.desktop = deploy.old.desktop]
    /\ deploy' = [deploy EXCEPT !.at = "up"]
    /\ UNCHANGED <<main, running, files, deploys, tainted>>

\* Fault: only the application is started again.
ServicesOfApp == {"app"}

\* The services that are started again.
Services == IF deploy.changed THEN {"desktop", "app"} ELSE {"app"}

\* The old containers, the old release answers, and the failure is raised again.
UpAgain ==
    /\ deploy.at = "up"
    /\ running' = [running EXCEPT !.app = tags.app, !.env = files.env,
                                  !.desktop = IF "desktop" \in Services THEN tags.desktop ELSE @]
    /\ deploy' = NoDeploy
    /\ UNCHANGED <<main, tags, files, deploys, tainted>>

-----------------------------------------------------------------------------
\* Before the try block nothing has to be undone; later the process is killed, the way
\* back fails, or the files are not written.
GivesUp ==
    /\ deploy.at # "none"
    /\ deploy' = NoDeploy
    /\ tainted' = (tainted \/ deploy.at # "build")
    /\ UNCHANGED <<main, running, tags, files, deploys>>

ReleaseNext ==
    \/ \E c \in Commits : Push(c) \/ BeginDeploy(c)
    \/ Build \/ UpdateEnv \/ TagApp \/ TagDesktop \/ UpDesktop \/ UpApp \/ Verify \/ WriteState
    \/ StepFails \/ RestoreEnv \/ RestoreTags \/ UpAgain \/ GivesUp

-----------------------------------------------------------------------------
\* When no deploy runs, whatever steps of those before failed, the application and the
\* desktop run the images their :local tags name, the application in the environment of
\* its file, and both files name what runs: so a later deploy rightly decides whether the
\* desktop has to be made anew.  A deploy that was killed, or whose way back failed, may
\* leave it otherwise, until one has released a desktop.
RestIsConsistent ==
    deploy.at = "none" /\ ~tainted =>
        /\ running.app = tags.app /\ running.app = files.release
        /\ running.desktop = tags.desktop /\ running.desktop = files.hash /\ running.desktop = DesktopOf(running.app)
        /\ running.env = files.env
=============================================================================
