-------------------------------- MODULE Setup --------------------------------
(***************************************************************************)
(* The setup wizard (setup/auto.ts): one process that walks through its    *)
(* steps, each a child process, and leaves on disk what they did.  It can  *)
(* end at any point, at a prompt the operator cancels or with the machine, *)
(* and be started again.  A step that fails offers a retry: a new wizard   *)
(* that is told, in NANOCLAW_SKIP, the steps that were completed.          *)
(***************************************************************************)
EXTENDS ChannelFlows

CONSTANTS
  Offered,   \* the apps a behaviour may choose
  MaxRuns,   \* bound on wizards the operator starts
  MaxFaults, \* bound on children and lookups that fail
  MaxVisits  \* bound on flows entered

ASSUME SetupAssumption ==
  /\ Offered \subseteq App
  /\ MaxRuns \in Nat /\ MaxFaults \in Nat /\ MaxVisits \in Nat

Steps == <<"environment", "container", "onecli", "auth", "mounts", "service",
           "cli-agent", "timezone", "channel", "verify">>
Step == {Steps[i] : i \in DOMAIN Steps}
After(s) == Steps[1 + (CHOOSE i \in DOMAIN Steps : Steps[i] = s)]

\* where the wizard is between two steps, or when it is not in one
Between == {"baseUrl", "ping", "cleanup", "next", "terminal",
            "where", "flow", "failing", "off", "ready"}

Artefact == {"image", "gateway", "onecliUrl", "secret", "baseUrl",
             "provider", "mounts", "unit", "tz"}

\* the rows of scripts/init-first-agent.ts, in the order it writes them
InitRows == <<"user", "agent", "role", "member", "chat", "wiring">>
Row == {InitRows[i] : i \in DOMAIN InitRows}

VARIABLES
  \* the wizard: gone when it ends
  pc,
  skip,      \* NANOCLAW_SKIP
  completed, \* completedInRun: steps logged as success or skipped
  sg,        \* NANOCLAW_REEXEC_SG
  declined,  \* history: the operator skipped the sign-in
  asking,    \* a `fail` that is not awaited has its question on screen
  app,       \* the app whose flow is in progress, or "none"
  at,        \* the stage it is at
  phase,     \* how far its script is
  line,      \* how many rows init-first-agent has seen to
  \* the disk
  have,      \* what the steps have made
  files,     \* adapters in the tree, with their import
  packages,  \* adapters whose package is installed
  built,     \* adapters in dist/
  creds,     \* "none", "half" or "full": what an adapter logs in with
  rows,      \* what the central database knows of the operator in each app
  cliAgents, \* agents wired to the terminal: "_ping-test", "terminal"
  \* the service
  up, loaded,
  \* bounds
  runs, faults, visits

flowVars == <<app, at, phase, line>>
wizardVars == <<skip, completed, sg, declined, asking>>
treeVars == <<files, packages, built, creds>>
agentVars == <<rows, cliAgents>>
serviceVars == <<up, loaded>>
countVars == <<runs, faults, visits>>
vars == <<pc, wizardVars, flowVars, have, treeVars, agentVars, serviceVars,
          countVars>>

Init ==
  /\ pc = "off" /\ skip = {} /\ completed = {} /\ sg = FALSE
  /\ declined = FALSE /\ asking = FALSE
  /\ app = "none" /\ at = 0 /\ phase = "none" /\ line = 0
  /\ have = {} /\ files = Shipped /\ packages = Shipped /\ built = {}
  /\ creds = [a \in App |-> "none"]
  /\ rows = [a \in App |-> {}] /\ cliAgents = {}
  /\ up = FALSE /\ loaded = {}
  /\ runs = 0 /\ faults = 0 /\ visits = 0

-----------------------------------------------------------------------------
(* The wizard as a process *)

OutOfFlow == app' = "none" /\ at' = 0 /\ phase' = "none" /\ line' = 0

Forget == /\ skip' = {} /\ completed' = {} /\ sg' = FALSE
          /\ declined' = FALSE /\ asking' = FALSE

Start ==
  /\ pc \in {"off", "ready"} /\ runs < MaxRuns
  /\ pc' = "environment" /\ runs' = runs + 1
  /\ Forget
  /\ UNCHANGED <<flowVars, have, treeVars, agentVars, serviceVars, faults,
                 visits>>

(* Every adapter finds its package: without one tsc reports an error, and  *)
(* writes dist/ all the same, and node dies of the import.                 *)
Resolved(adapters, installed) == adapters \cap NeedsPackage \subseteq installed

Loadable(dist, logins) == {a \in dist : logins[a] = "full"}

(* A service that dies is started again (Restart=always, KeepAlive), and   *)
(* dies again: no step of the wizard installs a package that was left out. *)
Started(dist) ==
  IF Resolved(dist, packages) THEN up' = TRUE /\ loaded' = Loadable(dist, creds)
                              ELSE up' = FALSE /\ loaded' = {}
Stopped == up' = FALSE /\ loaded' = {}

\* Mutant: the flow is not left.
QuitInFlow ==
  /\ pc \notin {"off", "ready"}
  /\ pc' = "off" /\ Forget
  /\ UNCHANGED <<flowVars, have, treeVars, agentVars, serviceVars, countVars>>

(* A prompt is cancelled or the terminal is closed; or the machine stops,  *)
(* and the service is there again or not when it comes back.               *)
Quit ==
  /\ pc \notin {"off", "ready"}
  /\ pc' = "off" /\ OutOfFlow /\ Forget
  /\ UNCHANGED serviceVars \/ Stopped \/ ("unit" \in have /\ Started(built))
  /\ UNCHANGED <<have, treeVars, agentVars, countVars>>

(* Claude's fix was run and the operator wants the step again: a new wizard *)
(* inherits the environment and skips what is done.  A question nobody      *)
(* waits for may be answered whatever the flow has come to.                 *)
Retry ==
  /\ pc = "failing" \/ asking
  /\ pc' = "environment" /\ skip' = skip \cup completed /\ completed' = {}
  /\ asking' = FALSE /\ OutOfFlow
  /\ UNCHANGED <<sg, declined, have, treeVars, agentVars,
                 serviceVars, countVars>>

(* Some agent is wired already. *)
Registered == cliAgents # {} \/ \E a \in App : "wiring" \in rows[a]

SkipStep ==
  /\ pc \in skip
  /\ pc' = After(pc)
  /\ UNCHANGED <<wizardVars, flowVars, have, treeVars, agentVars,
                 serviceVars, countVars>>

At(s) == pc = s /\ s \notin skip

(* The child exits with 0 and a block that says success or skipped. *)
StepDone(s) == pc' = After(s) /\ completed' = completed \cup {s}

\* Mutant: a failed step is on the list of what is completed.
StepFailsLogged ==
  /\ pc \in Step /\ pc \notin skip /\ pc \notin {"channel", "verify"}
  /\ faults < MaxFaults /\ faults' = faults + 1
  /\ pc' = "failing" /\ completed' = completed \cup {pc}
  /\ UNCHANGED <<skip, sg, declined, asking, flowVars, have, treeVars,
                 agentVars, serviceVars, runs, visits>>

(* It does not: `await fail(...)`; a sign-in and a scratch agent that are  *)
(* there already are not tried.                                            *)
StepFails ==
  /\ pc \in Step \cup {"terminal", "where"} /\ pc \notin skip
  /\ pc \notin {"channel", "verify"}
  /\ ~(pc = "auth" /\ "secret" \in have) /\ ~(pc = "cli-agent" /\ Registered)
  /\ faults < MaxFaults /\ faults' = faults + 1
  /\ pc' = "failing"
  /\ UNCHANGED <<wizardVars, flowVars, have, treeVars, agentVars,
                 serviceVars, runs, visits>>

-----------------------------------------------------------------------------
(* The steps *)

Nothing == UNCHANGED <<flowVars, treeVars, agentVars, serviceVars, countVars>>

Environment ==
  /\ At("environment") /\ StepDone("environment")
  /\ UNCHANGED <<skip, sg, declined, asking, have>> /\ Nothing

(* Docker started, the image built and tested. *)
Container ==
  /\ At("container") /\ StepDone("container")
  /\ have' = have \cup {"image"}
  /\ UNCHANGED <<skip, sg, declined, asking>> /\ Nothing

(* The user was added to the docker group meanwhile: the whole wizard runs *)
(* again under `sg docker`, where it skips what this one completed.        *)
ContainerUnderSg ==
  /\ At("container") /\ ~sg
  /\ have' = have \cup {"image"}
  /\ pc' = "environment" /\ sg' = TRUE
  /\ skip' = skip \cup completed \cup {"container"} /\ completed' = {}
  /\ UNCHANGED <<declined, asking>> /\ Nothing

(* The CLI for a gateway that runs elsewhere, and its address in .env. *)
OnecliRemote ==
  /\ At("onecli") /\ StepDone("onecli")
  /\ have' = have \cup {"gateway", "onecliUrl"}
  /\ UNCHANGED <<skip, sg, declined, asking>> /\ Nothing

(* A gateway in Docker and the CLI, then the same; the step may fail in   *)
(* between.                                                               *)
OnecliFresh ==
  /\ At("onecli") /\ StepDone("onecli")
  /\ have' = have \cup {"gateway", "onecliUrl"}
  /\ UNCHANGED <<skip, sg, declined, asking>> /\ Nothing

OnecliHalf ==
  /\ At("onecli") /\ faults < MaxFaults /\ faults' = faults + 1
  /\ have' = have \cup {"gateway"} /\ pc' = "failing"
  /\ UNCHANGED <<wizardVars, flowVars, treeVars, agentVars, serviceVars,
                 runs, visits>>

(* A gateway this machine has: only its address is written. *)
OnecliReuse ==
  /\ At("onecli") /\ "gateway" \in have /\ StepDone("onecli")
  /\ have' = have \cup {"onecliUrl"}
  /\ UNCHANGED <<skip, sg, declined, asking>> /\ Nothing

(* Any secret of the vault that speaks of anthropic will do. *)
AuthKnown ==
  /\ At("auth") /\ "secret" \in have /\ StepDone("auth")
  /\ UNCHANGED <<skip, sg, declined, asking, have>> /\ Nothing

(* Signed in by register-claude-token.sh: logged as interactive, which is  *)
(* not completed.                                                          *)
AuthSubscription ==
  /\ At("auth") /\ "secret" \notin have
  /\ have' = have \cup {"secret"} /\ pc' = "mounts"
  /\ UNCHANGED wizardVars /\ Nothing

AuthPaste ==
  /\ At("auth") /\ "secret" \notin have /\ StepDone("auth")
  /\ have' = have \cup {"secret"}
  /\ UNCHANGED <<skip, sg, declined, asking>> /\ Nothing

AuthDecline ==
  /\ At("auth") /\ "secret" \notin have /\ StepDone("auth")
  /\ declined' = TRUE
  /\ UNCHANGED <<skip, sg, asking, have>> /\ Nothing

(* A custom endpoint: the token to the vault by a child, then the address  *)
(* to .env and the provider's import by the wizard.                        *)
AuthCustom ==
  /\ At("auth") /\ "secret" \notin have
  /\ have' = have \cup {"secret"} /\ pc' = "baseUrl"
  /\ completed' = completed \cup {"auth"}
  /\ UNCHANGED <<skip, sg, declined, asking>> /\ Nothing

CustomEndpoint ==
  /\ pc = "baseUrl" /\ pc' = "mounts"
  /\ have' = have \cup {"baseUrl", "provider"}
  /\ UNCHANGED wizardVars /\ Nothing

Mounts ==
  /\ At("mounts") /\ StepDone("mounts") /\ have' = have \cup {"mounts"}
  /\ UNCHANGED <<skip, sg, declined, asking>> /\ Nothing

(* What becomes of the service: launchd and systemd stop what ran and start *)
(* the new build, which the step only reports on; without them a script is  *)
(* left for the operator to run.                                            *)
SetupLaunchd == Started(files) \/ Stopped
SetupNohup == UNCHANGED serviceVars
SetupSystemd == Started(files) \/ Stopped \/ SetupNohup

(* The build, then the unit and the service. *)
Service ==
  /\ At("service") /\ StepDone("service") /\ Resolved(files, packages)
  /\ built' = files /\ have' = have \cup {"unit"}
  /\ SetupLaunchd \/ SetupSystemd \/ SetupNohup
  /\ UNCHANGED <<skip, sg, declined, asking, flowVars, files, packages, creds,
                 agentVars, countVars>>

(* The build exits with an error, after it has written dist/. *)
ServiceBuildFails ==
  /\ At("service") /\ ~Resolved(files, packages) /\ pc' = "failing"
  /\ built' = files
  /\ UNCHANGED <<wizardVars, flowVars, have, files, packages, creds,
                 agentVars, serviceVars, countVars>>

-----------------------------------------------------------------------------
(* The first agent *)

\* agents change and nothing else does
AgentsOnly ==
  UNCHANGED <<skip, sg, declined, asking, flowVars, have, treeVars, rows,
              serviceVars>>

(* Some agent is wired already: no scratch agent, no first chat. *)
CliAgentKnown ==
  /\ At("cli-agent") /\ Registered /\ pc' = "timezone"
  /\ UNCHANGED <<completed, cliAgents, countVars>> /\ AgentsOnly

CliAgent ==
  /\ At("cli-agent") /\ ~Registered
  /\ pc' = "ping" /\ completed' = completed \cup {"cli-agent"}
  /\ cliAgents' = cliAgents \cup {"_ping-test"}
  /\ UNCHANGED countVars /\ AgentsOnly

(* A ping the running service answers; one it does not ends the section. *)
PingAnswered ==
  /\ pc = "ping" /\ up /\ "secret" \in have /\ pc' = "cleanup"
  /\ UNCHANGED <<completed, cliAgents, countVars>> /\ AgentsOnly

PingFails ==
  /\ pc = "ping" /\ pc' = "timezone"
  /\ \/ faults < MaxFaults /\ faults' = faults + 1
     \/ (~up \/ "secret" \notin have) /\ UNCHANGED faults
  /\ UNCHANGED <<completed, cliAgents, runs, visits>> /\ AgentsOnly

Cleanup ==
  /\ pc = "cleanup" /\ pc' = "next"
  /\ cliAgents' = cliAgents \ {"_ping-test"}
  /\ UNCHANGED <<completed, countVars>> /\ AgentsOnly

CleanupFails ==
  /\ pc = "cleanup" /\ pc' = "next"
  /\ faults < MaxFaults /\ faults' = faults + 1
  /\ UNCHANGED <<completed, cliAgents, runs, visits>> /\ AgentsOnly

WhatNext ==
  /\ pc = "next" /\ pc' \in {"timezone", "terminal"}
  /\ UNCHANGED <<completed, cliAgents, countVars>> /\ AgentsOnly

CreateTerminalAgent ==
  /\ pc = "terminal" /\ pc' = "timezone"
  /\ cliAgents' = cliAgents \cup {"terminal"}
  /\ UNCHANGED <<completed, countVars>> /\ AgentsOnly

(* A zone found is written and the step logged, then the operator is asked *)
(* whether it is right; none found is asked for, and may be left alone.    *)
TimezoneFound ==
  /\ At("timezone") /\ have' = have \cup {"tz"}
  /\ completed' = completed \cup {"timezone"}
  /\ pc' \in {"channel", "where"}
  /\ UNCHANGED <<skip, sg, declined, asking>> /\ Nothing

TimezoneUnknown ==
  /\ At("timezone") /\ "tz" \notin have /\ pc' \in {"channel", "where"}
  /\ UNCHANGED <<wizardVars, have>> /\ Nothing

TimezoneAnswered ==
  /\ pc = "where" /\ pc' = "channel" /\ have' = have \cup {"tz"}
  /\ completed' = completed \cup {"timezone"}
  /\ UNCHANGED <<skip, sg, declined, asking>> /\ Nothing

-----------------------------------------------------------------------------
(* The messaging app *)

ChooseApp ==
  /\ At("channel") /\ visits < MaxVisits /\ visits' = visits + 1
  /\ app' \in Offered /\ at' = 1 /\ pc' = "flow"
  /\ UNCHANGED <<wizardVars, phase, line, have, treeVars, agentVars,
                 serviceVars, runs, faults>>

(* None for now, or another one, which is only named. *)
NoApp ==
  /\ At("channel") /\ pc' = "verify"
  /\ UNCHANGED <<wizardVars, flowVars, have, treeVars, agentVars,
                 serviceVars, countVars>>

StageIs(kind) == pc = "flow" /\ Flow[app][at].do = kind

\* on to the next stage, or out of the flow
Advance ==
  \/ /\ at < Len(Flow[app]) /\ at' = at + 1
     /\ pc' = "flow" /\ app' = app /\ phase' = "none" /\ line' = 0
  \/ at = Len(Flow[app]) /\ pc' = "verify" /\ OutOfFlow

WizardKept == UNCHANGED <<skip, completed, sg, declined>>

\* Mutant: no failure is awaited.
FailedLoose == WizardKept /\ Advance /\ asking' = TRUE

\* a stage that fails: `fail` ends the wizard where it is awaited
Failed ==
  /\ WizardKept
  /\ \/ Flow[app][at].awaited /\ pc' = "failing" /\ OutOfFlow
        /\ UNCHANGED asking
     \/ ~Flow[app][at].awaited /\ Advance /\ asking' = TRUE

DiskKept == UNCHANGED <<have, runs, visits>>
FlowOnly == WizardKept /\ UNCHANGED asking /\ DiskKept

BackToChannelSelection ==
  /\ StageIs("choice") /\ pc' = "channel" /\ OutOfFlow
  /\ UNCHANGED <<treeVars, agentVars, serviceVars, faults>> /\ FlowOnly

Answer ==
  /\ \/ StageIs("choice") \/ StageIs("prompt") \/ StageIs("check")
     \/ StageIs("manifest")
  /\ Advance
  /\ UNCHANGED <<treeVars, agentVars, serviceVars, faults>> /\ FlowOnly

(* Credentials of Teams that .env already has: straight to the adapter. *)
ReuseTeamsCredentials ==
  /\ pc = "flow" /\ app = "teams" /\ at = 1 /\ creds[app] = "full"
  /\ at' = Len(TeamsFlow) - 1
  /\ UNCHANGED <<pc, app, phase, line, treeVars, agentVars, serviceVars,
                 faults>> /\ FlowOnly

\* add-<app>.sh: `need_install` looks at the adapter's file and its import
InstallNeeded == app \notin files

StageFails ==
  /\ \/ StageIs("check") \/ StageIs("pair") \/ StageIs("link")
     \/ StageIs("install") /\ phase = "none" /\ InstallNeeded
     \/ StageIs("install") /\ phase \in {"package", "build"}
     \/ StageIs("init") /\ line < Len(InitRows)
  /\ faults < MaxFaults /\ faults' = faults + 1
  /\ Failed
  /\ built' = built \/ (phase = "build" /\ built' = files)
  /\ UNCHANGED <<files, packages, creds, agentVars, serviceVars>> /\ DiskKept

Fetch ==
  /\ StageIs("install") /\ phase = "none" /\ InstallNeeded
  /\ files' = files \cup {app} /\ phase' = "package"
  /\ UNCHANGED <<pc, app, at, line, packages, built, creds, agentVars,
                 serviceVars, faults>> /\ FlowOnly

AlreadyInstalled ==
  /\ StageIs("install") /\ phase = "none" /\ ~InstallNeeded
  /\ phase' = IF app \in BuildsAlways THEN "build" ELSE "env"
  /\ UNCHANGED <<pc, app, at, line, treeVars, agentVars, serviceVars,
                 faults>> /\ FlowOnly

InstallPackage ==
  /\ StageIs("install") /\ phase = "package"
  /\ packages' = packages \cup {app} /\ phase' = "build"
  /\ UNCHANGED <<pc, app, at, line, files, built, creds, agentVars,
                 serviceVars, faults>> /\ FlowOnly

Build ==
  /\ StageIs("install") /\ phase = "build" /\ Resolved(files, packages)
  /\ built' = files /\ phase' = "env"
  /\ UNCHANGED <<pc, app, at, line, files, packages, creds, agentVars,
                 serviceVars, faults>> /\ FlowOnly

BuildFails ==
  /\ StageIs("install") /\ phase = "build"
  /\ ~Resolved(files, packages) /\ Failed /\ built' = files
  /\ UNCHANGED <<files, packages, creds, agentVars, serviceVars, faults>>
  /\ DiskKept

WriteCredentials ==
  /\ StageIs("install") /\ phase = "env" /\ app \in WithCredentials
  /\ creds' = [creds EXCEPT ![app] = "full"] /\ phase' = "restart"
  /\ UNCHANGED <<pc, app, at, line, files, packages, built, agentVars,
                 serviceVars, faults>> /\ FlowOnly

InstalledOnly ==
  /\ StageIs("install") /\ phase = "env" /\ app \notin WithCredentials
  /\ Advance
  /\ UNCHANGED <<treeVars, agentVars, serviceVars, faults>> /\ FlowOnly

(* `|| true`: a restart that does not work leaves the service as it is. *)
RestartService ==
  /\ StageIs("restart") \/ (StageIs("install") /\ phase = "restart")
  /\ \/ Started(built) /\ UNCHANGED faults
     \/ UNCHANGED serviceVars /\ faults < MaxFaults /\ faults' = faults + 1
  /\ Advance
  /\ UNCHANGED <<treeVars, agentVars>> /\ FlowOnly

(* The code reaches the wizard through the bot of the running service. *)
Pair ==
  /\ StageIs("pair") /\ up /\ app \in loaded /\ Advance
  /\ UNCHANGED <<treeVars, agentVars, serviceVars, faults>> /\ FlowOnly

PairUnheard ==
  /\ StageIs("pair") /\ ~(up /\ app \in loaded) /\ Failed
  /\ UNCHANGED <<treeVars, agentVars, serviceVars, faults>> /\ DiskKept

(* A device linked already is not linked again.  WhatsApp keeps its keys   *)
(* before it is sure of them, and takes what it finds for a linked device. *)
Link ==
  /\ StageIs("link") /\ Advance
  /\ creds' = IF creds[app] # "none" THEN creds
              ELSE [creds EXCEPT ![app] =
                      IF app = "signal" THEN "half" ELSE "full"]
  /\ UNCHANGED <<files, packages, built, agentVars, serviceVars, faults>>
  /\ FlowOnly

LinkHalf ==
  /\ StageIs("link") /\ app = "whatsapp" /\ creds[app] = "none"
  /\ faults < MaxFaults /\ faults' = faults + 1
  /\ creds' = [creds EXCEPT ![app] = "half"] /\ Failed
  /\ UNCHANGED <<files, packages, built, agentVars, serviceVars>>
  /\ DiskKept

(* SIGNAL_ACCOUNT *)
Store ==
  /\ StageIs("store") /\ Advance
  /\ creds' = [creds EXCEPT ![app] = "full"]
  /\ UNCHANGED <<files, packages, built, agentVars, serviceVars, faults>>
  /\ FlowOnly

(* scripts/init-first-agent.ts sees to one row after the other; a member   *)
(* is granted no role.                                                     *)
InitRow ==
  /\ StageIs("init") /\ line < Len(InitRows) /\ line' = line + 1
  /\ \/ rows' = [rows EXCEPT ![app] = @ \cup {InitRows[line + 1]}]
     \/ InitRows[line + 1] = "role" /\ UNCHANGED rows
  /\ UNCHANGED <<pc, app, at, phase, treeVars, cliAgents, serviceVars,
                 faults>> /\ FlowOnly

(* The welcome goes over the running service's socket. *)
Welcome ==
  /\ StageIs("init") /\ line = Len(InitRows)
  /\ \/ up /\ Advance /\ FlowOnly
     \/ ~up /\ Failed /\ DiskKept
  /\ UNCHANGED <<treeVars, agentVars, serviceVars, faults>>

(* No package could be built: `fail` is not awaited, and the caller wants  *)
(* the path of what is not there.                                          *)
ManifestFails ==
  /\ StageIs("manifest") /\ faults < MaxFaults /\ faults' = faults + 1
  /\ pc' = "off" /\ OutOfFlow /\ Forget
  /\ UNCHANGED <<treeVars, agentVars, serviceVars>> /\ DiskKept

(* The static health check: any address of a vault passes for credentials. *)
VerifyOk == up /\ "onecliUrl" \in have /\ Registered

Verify ==
  /\ At("verify")
  /\ pc' = IF VerifyOk THEN "ready" ELSE "off"
  /\ Forget
  /\ UNCHANGED <<flowVars, have, treeVars, agentVars, serviceVars, countVars>>

StepAction ==
  \/ Environment \/ Container \/ ContainerUnderSg
  \/ OnecliRemote \/ OnecliFresh \/ OnecliHalf \/ OnecliReuse
  \/ AuthKnown \/ AuthSubscription \/ AuthPaste \/ AuthDecline
  \/ AuthCustom \/ CustomEndpoint
  \/ Mounts \/ Service \/ ServiceBuildFails
  \/ CliAgentKnown \/ CliAgent \/ PingAnswered \/ PingFails
  \/ Cleanup \/ CleanupFails \/ WhatNext \/ CreateTerminalAgent
  \/ TimezoneFound \/ TimezoneUnknown \/ TimezoneAnswered

FlowAction ==
  \/ ChooseApp \/ NoApp \/ BackToChannelSelection \/ Answer
  \/ ReuseTeamsCredentials \/ StageFails
  \/ Fetch \/ AlreadyInstalled \/ InstallPackage \/ Build \/ BuildFails
  \/ WriteCredentials \/ InstalledOnly \/ RestartService
  \/ Pair \/ PairUnheard \/ Link \/ LinkHalf \/ Store
  \/ ManifestFails \/ InitRow \/ Welcome \/ Verify

Next ==
  \/ Start \/ Quit \/ Retry \/ SkipStep \/ StepFails
  \/ StepAction \/ FlowAction

Spec == Init /\ [][Next]_vars

-----------------------------------------------------------------------------
(* Properties *)

(* Type and shape of the state: a flow is in progress exactly while the   *)
(* wizard is in one, and dist/ holds no adapter the tree does not have.   *)
SetupTypeOK ==
  /\ pc \in Step \cup Between
  /\ skip \subseteq Step /\ completed \subseteq Step
  /\ sg \in BOOLEAN /\ declined \in BOOLEAN /\ asking \in BOOLEAN
  /\ IF pc = "flow" THEN app \in Offered /\ at \in DOMAIN Flow[app]
                    ELSE app = "none" /\ at = 0
  /\ phase \in {"none", "package", "build", "env", "restart"}
  /\ line \in 0..Len(InitRows)
  /\ have \subseteq Artefact
  /\ files \subseteq App /\ packages \subseteq App /\ built \subseteq files
  /\ creds \in [App -> {"none", "half", "full"}]
  /\ rows \in [App -> SUBSET Row]
  /\ cliAgents \subseteq {"_ping-test", "terminal"}
  /\ up \in BOOLEAN /\ loaded \subseteq built
  /\ runs \in 0..MaxRuns /\ faults \in 0..MaxFaults
  /\ visits \in 0..MaxVisits

Proof == [environment |-> {}, container |-> {"image"},
          onecli |-> {"gateway", "onecliUrl"}, auth |-> {"secret"},
          mounts |-> {"mounts"}, service |-> {"unit"}, timezone |-> {"tz"}]

(* What a retry passes over has been done: the steps in the list that one *)
(* wizard hands to the next, by `fail` or through `sg docker`, have left  *)
(* what they are for; only the sign-in may be missing, when the operator  *)
(* of this chain of wizards chose to leave it.                            *)
SkippedIsDone ==
  \A s \in (skip \cup completed) \cap DOMAIN Proof :
    Proof[s] \subseteq have \/ (s = "auth" /\ declined)

(* A chat is wired last.  Whatever was cancelled, failed and done again,  *)
(* where the operator's chat is wired the operator is a known member, and *)
(* where the flow of the app stops at every failure                       *)
(*   - the adapter is in the tree and has its credentials;                *)
(*   - Signal's has been built, by a script that builds on every call;    *)
(*   - Telegram's has been built with its package and was heard, and      *)
(*     answers whenever the service runs.                                 *)
(* It asks no more of Discord and iMessage because the code does not give *)
(* it: after an install that stopped behind the copied files the next     *)
(* wizard takes them for installed and wires the app without package or   *)
(* build.  Slack is in the tree from the start and never built by its own *)
(* script.  WhatsApp, whose flow awaits no failure, may lack anything.    *)
WiredIsReady ==
  \A a \in App : "wiring" \in rows[a] =>
    /\ {"user", "agent", "member", "chat"} \subseteq rows[a]
    /\ a \in Strict => a \in files /\ creds[a] = "full"
    /\ a \in BuildsAlways => a \in built
    /\ a = "telegram" =>
         a \in built /\ a \in packages /\ (up => a \in loaded)
=============================================================================
