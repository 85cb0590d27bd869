---------------------------- MODULE Setup_proofs ----------------------------
(***************************************************************************)
(* Proofs about Setup, for every set of apps that is offered and any       *)
(* number of wizards, faults and flows.                                    *)
(***************************************************************************)
EXTENDS Setup, TLAPS

-----------------------------------------------------------------------------
(* The order of the stages of a flow.                                      *)

Stages == [do : Kind, awaited : BOOLEAN]

\* A flow, or a part of one, that does not come to init-first-agent.
Asks(s) == s \in Seq(Stages) /\ \A i \in 1 .. Len(s) : s[i].do # "init"

\* Among the first n stages there is one of this kind whose failure is awaited.
Awaits(s, kind, n) == \E i \in 1 .. n : s[i].do = kind /\ s[i].awaited

\* Such a stage lies before init-first-agent, wherever that is.
Behind(s, kind) ==
  /\ s \in Seq(Stages) /\ Awaits(s, kind, Len(s))
  /\ \A i \in 1 .. Len(s) : s[i].do = "init" => Awaits(s, kind, i - 1)

\* A stage is of its kind.
LEMMA StageHasKind ==
  ASSUME NEW kind \in Kind
  PROVE  /\ Stage(kind) \in Stages /\ Stage(kind).do = kind
         /\ Loose(kind) \in Stages /\ Loose(kind).do = kind
  BY DEF Stage, Loose, Stages

\* A part of one stage.
LEMMA OneOf ==
  ASSUME NEW x \in Stages, NEW s, s = <<x>>
  PROVE  /\ s \in Seq(Stages) /\ Len(s) = 1
         /\ x.do # "init" => Asks(s)
<1>1. <<x>> \in Seq(Stages) /\ Len(<<x>>) = 1 /\ <<x>>[1] = x
  OBVIOUS
<1> QED
  BY <1>1 DEF Asks

\* A part of one stage, by the kind of the stage.
LEMMA OneStage ==
  ASSUME NEW kind \in Kind, NEW s, s = <<Stage(kind)>> \/ s = <<Loose(kind)>>
  PROVE  /\ s \in Seq(Stages) /\ Len(s) = 1
         /\ kind # "init" => Asks(s)
  BY StageHasKind, OneOf

\* Parts without init-first-agent make a part without it.
LEMMA AsksOn ==
  ASSUME NEW s, NEW t, Asks(s), Asks(t)
  PROVE  Asks(s \o t)
  BY DEF Asks

\* A stage that ends such a part is before whatever follows.
LEMMA BehindAtLast ==
  ASSUME NEW s, Asks(s), NEW kind \in Kind \ {"init"}, NEW t, t = <<Stage(kind)>>
  PROVE  Behind(s \o t, kind)
<1>1. t \in Seq(Stages) /\ Len(t) = 1 /\ t[1] = Stage(kind)
  BY OneStage
<1>2. Asks(s \o t)
  BY OneStage, AsksOn
<1>3. (s \o t)[Len(s) + 1] = Stage(kind) /\ Len(s \o t) = Len(s) + 1
  BY <1>1 DEF Asks
<1>4. Awaits(s \o t, kind, Len(s \o t))
  <2>1. Len(s) + 1 \in 1 .. Len(s \o t)
    BY <1>3 DEF Asks
  <2> QED
    BY <1>3, <2>1 DEF Awaits, Stage
<1> QED
  BY <1>2, <1>4 DEF Asks, Behind

\* It stays so whatever is appended.
LEMMA BehindOn ==
  ASSUME NEW s, NEW kind, Behind(s, kind), NEW t \in Seq(Stages)
  PROVE  Behind(s \o t, kind)
<1>1. /\ s \o t \in Seq(Stages) /\ Len(s \o t) = Len(s) + Len(t)
      /\ \A i \in 1 .. Len(s) : (s \o t)[i] = s[i]
  BY DEF Behind
<1>2. Awaits(s \o t, kind, Len(s))
  BY <1>1 DEF Behind, Awaits
<1>3. \A n \in Len(s) .. Len(s \o t) : Awaits(s \o t, kind, n)
  BY <1>1, <1>2 DEF Awaits, Behind
<1>4. \A i \in 1 .. Len(s) : s[i].do = "init" => Awaits(s \o t, kind, i - 1)
  BY <1>1 DEF Behind, Awaits
<1> QED
  BY <1>1, <1>3, <1>4 DEF Behind

\* Parts make a flow.
LEMMA SeqOn ==
  ASSUME NEW s \in Seq(Stages), NEW t \in Seq(Stages)
  PROVE  s \o t \in Seq(Stages) /\ Len(s \o t) = Len(s) + Len(t)
  OBVIOUS

\* The questions that end most flows, and the script they lead to.
LEMMA LastStages ==
  /\ RoleAndName \in Seq(Stages) /\ InitFirstAgent \in Seq(Stages)
  /\ \A s, k : Behind(s, k) => Behind(s \o RoleAndName \o InitFirstAgent, k)
<1>1. RoleAndName \in Seq(Stages) /\ InitFirstAgent \in Seq(Stages)
  BY OneStage, SeqOn
     DEF RoleAndName, AskOperatorRole, ResolveAgentName, Prompt, InitFirstAgent, Kind
<1> QED
  BY <1>1, BehindOn

\* Telegram is installed and paired before anything is wired.
LEMMA TelegramOrder ==
  Behind(TelegramFlow, "install") /\ Behind(TelegramFlow, "pair")
<1> DEFINE asked == CollectTelegramToken \o ValidateTelegramToken
           installed == asked \o AddTelegram
           paired == installed \o PairTelegram
<1>1. Asks(asked)
  BY OneStage, AsksOn
     DEF CollectTelegramToken, ValidateTelegramToken, Choice, Prompt, Check, Kind
<1>2. Behind(installed, "install") /\ Asks(installed)
  BY <1>1, OneStage, AsksOn, BehindAtLast DEF AddTelegram, Kind
<1>3. Behind(paired, "install") /\ Behind(paired, "pair")
  BY <1>2, OneStage, BehindOn, BehindAtLast DEF PairTelegram, Kind
<1> QED
  BY <1>3, LastStages DEF TelegramFlow

\* So is Discord.
LEMMA DiscordOrder == Behind(DiscordFlow, "install")
<1> DEFINE asked == AskHasBotToken \o WalkThroughBotCreation
                    \o CollectDiscordToken \o ValidateDiscordToken
                    \o FetchApplicationInfo \o ResolveOwner
                    \o AskHasDiscordServer \o InviteBot
           installed == asked \o AddDiscord
<1>1. Asks(asked)
  BY OneStage, AsksOn
     DEF AskHasBotToken, WalkThroughBotCreation, CollectDiscordToken,
         ValidateDiscordToken, FetchApplicationInfo, ResolveOwner,
         AskHasDiscordServer, InviteBot, Choice, Prompt, Check, Kind
<1>2. Behind(installed, "install")
  BY <1>1, BehindAtLast DEF AddDiscord, Kind
<1>3. Behind(installed \o OpenDiscordDm, "install")
  BY <1>2, OneStage, BehindOn DEF OpenDiscordDm, Check, Kind
<1> QED
  BY <1>3, LastStages DEF DiscordFlow

\* And Slack.
LEMMA SlackOrder == Behind(SlackFlow, "install")
<1> DEFINE asked == WalkThroughAppCreation \o CollectBotToken
                    \o CollectSigningSecret \o ValidateSlackToken
           installed == asked \o AddSlack
           found == installed \o CollectSlackUserId \o OpenSlackDm
<1>1. Asks(asked)
  BY OneStage, AsksOn
     DEF WalkThroughAppCreation, CollectBotToken, CollectSigningSecret,
         ValidateSlackToken, Choice, Prompt, Check, Kind
<1>2. Behind(installed, "install")
  BY <1>1, BehindAtLast DEF AddSlack, Kind
<1>3. Behind(found, "install")
  BY <1>2, OneStage, BehindOn DEF CollectSlackUserId, OpenSlackDm, Prompt, Check, Kind
<1>4. Behind(found \o RoleAndName \o InitFirstAgent \o PostInstallChecklist, "install")
  BY <1>3, LastStages, OneStage, BehindOn DEF PostInstallChecklist, Prompt, Kind
<1> QED
  BY <1>4 DEF SlackFlow

\* And iMessage.
LEMMA IMessageOrder == Behind(IMessageFlow, "install")
<1> DEFINE asked == AskIMessageMode \o FullDiskAccess \o CollectRemoteCreds
                    \o AskOperatorHandle
           installed == asked \o AddIMessage
<1>1. Asks(asked)
  BY OneStage, AsksOn
     DEF AskIMessageMode, FullDiskAccess, CollectRemoteCreds, AskOperatorHandle,
         Choice, Prompt, Kind
<1>2. Behind(installed, "install")
  BY <1>1, BehindAtLast DEF AddIMessage, Kind
<1> QED
  BY <1>2, LastStages DEF IMessageFlow

\* Signal is installed, and its account stored, before anything is wired.
LEMMA SignalOrder == Behind(SignalFlow, "install") /\ Behind(SignalFlow, "store")
<1> DEFINE asked == Choice \o EnsureSignalCli
           installed == asked \o AddSignal
           linked == installed \o SignalAuth
           stored == linked \o WriteSignalAccount
           started == stored \o SignalRestart
<1>1. Asks(asked)
  BY OneStage, AsksOn DEF EnsureSignalCli, Choice, Check, Kind
<1>2. Behind(installed, "install") /\ Asks(installed)
  BY <1>1, OneStage, AsksOn, BehindAtLast DEF AddSignal, Kind
<1>3. Behind(linked, "install") /\ Asks(linked)
  BY <1>2, OneStage, AsksOn, BehindOn DEF SignalAuth, Kind
<1>4. Behind(stored, "install") /\ Behind(stored, "store")
  BY <1>3, OneStage, BehindOn, BehindAtLast DEF WriteSignalAccount, Kind
<1>5. Behind(started, "install") /\ Behind(started, "store")
  BY <1>4, OneStage, BehindOn DEF SignalRestart, Kind
<1> QED
  BY <1>5, LastStages DEF SignalFlow

\* WhatsApp's flow goes on after a failure.
LEMMA WhatsAppIsLoose ==
  /\ WhatsAppFlow \in Seq(Stages) /\ Len(WhatsAppFlow) > 0
  /\ \E i \in 1 .. Len(WhatsAppFlow) : ~WhatsAppFlow[i].awaited
<1> DEFINE before == AskAuthMethod \o AskPhoneNumber \o AddWhatsApp
                     \o WhatsAppAuth \o WhatsAppRestart \o AskChatPhone
                     \o RoleAndName
<1>1. before \in Seq(Stages)
  BY OneStage, SeqOn, LastStages
     DEF AskAuthMethod, AskPhoneNumber, AddWhatsApp, WhatsAppAuth, WhatsAppRestart,
         AskChatPhone, Choice, Prompt, Kind
<1>2. Loose("init") \in Stages /\ ~Loose("init").awaited
  BY DEF Loose, Stages, Kind
<1>3. ASSUME NEW s \in Seq(Stages), NEW x \in Stages
      PROVE  /\ s \o <<x>> \in Seq(Stages) /\ Len(s \o <<x>>) = Len(s) + 1
             /\ (s \o <<x>>)[Len(s) + 1] = x
  OBVIOUS
<1>4. WhatsAppFlow = before \o <<Loose("init")>>
  BY DEF WhatsAppFlow
<1> HIDE DEF before
<1> QED
  BY <1>1, <1>2, <1>3, <1>4

\* Teams wires nothing; its last but one stage is that of the adapter.
LEMMA TeamsAsks == Asks(TeamsFlow) /\ Len(TeamsFlow) > 1
<1> DEFINE before == ConfirmPrereqs \o StepPublicUrl \o AppRegistration
                     \o ClientSecret \o AzureBot \o EnableTeamsChannel
                     \o GenerateManifest \o Sideload
<1>1. Asks(before) /\ Asks(InstallTeams) /\ Asks(FinishWithHandoff)
      /\ Len(InstallTeams) = 1 /\ Len(FinishWithHandoff) = 1
  BY OneStage, AsksOn
     DEF ConfirmPrereqs, StepPublicUrl, AppRegistration, ClientSecret, AzureBot,
         EnableTeamsChannel, GenerateManifest, Sideload, InstallTeams,
         FinishWithHandoff, Choice, Prompt, Kind
<1>2. TeamsFlow = before \o InstallTeams \o FinishWithHandoff
  BY DEF TeamsFlow
<1> HIDE DEF before
<1>3. Asks(before \o InstallTeams) /\ Asks(before \o InstallTeams \o FinishWithHandoff)
  BY <1>1, AsksOn
<1>4. Len(before) \in Nat
  BY <1>1 DEF Asks
<1>5. Len(before \o InstallTeams \o FinishWithHandoff) = Len(before) + 2
  <2>1. \A s, t : Asks(s) /\ Asks(t) => Len(s \o t) = Len(s) + Len(t)
    BY DEF Asks
  <2>2. Len(before \o InstallTeams) = Len(before) + 1
    BY <1>1, <2>1
  <2>3. Len(before \o InstallTeams \o FinishWithHandoff)
          = Len(before \o InstallTeams) + 1
    BY <1>1, <1>3, <2>1
  <2> QED
    BY <1>4, <2>2, <2>3
<1> QED
  BY <1>2, <1>3, <1>5, <1>4

\* What the steps of the wizard need to know of the flows.
LEMMA Flows ==
  /\ \A a \in App : Flow[a] \in Seq(Stages) /\ Len(Flow[a]) > 0
  /\ Len(Flow["teams"]) > 1 /\ Asks(Flow["teams"]) /\ Flow["teams"] = TeamsFlow
  /\ \A a \in Strict \ {"teams"} : Behind(Flow[a], "install")
  /\ \A a \in Strict \ (WithCredentials \cup {"teams"}) : Behind(Flow[a], "store")
  /\ Behind(Flow["telegram"], "pair") /\ Behind(Flow["signal"], "install")
  /\ Strict \subseteq App
<1>1. App = {"telegram", "discord", "slack", "imessage", "signal", "whatsapp", "teams"}
  BY DEF App, Flow
<1>2. /\ Flow["telegram"] = TelegramFlow /\ Flow["discord"] = DiscordFlow
      /\ Flow["slack"] = SlackFlow /\ Flow["imessage"] = IMessageFlow
      /\ Flow["signal"] = SignalFlow /\ Flow["whatsapp"] = WhatsAppFlow
      /\ Flow["teams"] = TeamsFlow
  BY DEF Flow
<1>3. \A s, k : Behind(s, k) => s \in Seq(Stages) /\ Len(s) > 0
  BY DEF Behind, Awaits
<1>4. "whatsapp" \notin Strict
  BY <1>2, WhatsAppIsLoose DEF Strict
<1>5. Strict \subseteq App
  BY DEF Strict
<1>6. Strict \ {"teams"} \subseteq {"telegram", "discord", "slack", "imessage", "signal"}
  BY <1>1, <1>4, <1>5
<1>7. Strict \ (WithCredentials \cup {"teams"}) \subseteq {"signal"}
  BY <1>6 DEF WithCredentials
<1>8. TeamsFlow \in Seq(Stages) /\ Len(TeamsFlow) > 0
  BY TeamsAsks DEF Asks
<1>9. \A a \in App : Flow[a] \in Seq(Stages) /\ Len(Flow[a]) > 0
  BY <1>1, <1>2, <1>3, <1>8, TelegramOrder, DiscordOrder, SlackOrder, IMessageOrder,
     SignalOrder, WhatsAppIsLoose
<1> QED
  BY <1>2, <1>5, <1>6, <1>7, <1>9, TelegramOrder, DiscordOrder, SlackOrder,
     IMessageOrder, SignalOrder, TeamsAsks

\* The order of the steps.
LEMMA StepsInOrder ==
  /\ \A s \in Step \ {"verify"} : After(s) \in Step
  /\ Step \cap Between = {}
  /\ Step = {"environment", "container", "onecli", "auth", "mounts", "service",
             "cli-agent", "timezone", "channel", "verify"}
<1>1. Step = {"environment", "container", "onecli", "auth", "mounts", "service",
              "cli-agent", "timezone", "channel", "verify"}
  BY DEF Step, Steps
<1>2. Step \cap Between = {}
  BY <1>1 DEF Between
<1>3. /\ After("environment") = "container" /\ After("container") = "onecli"
      /\ After("onecli") = "auth" /\ After("auth") = "mounts"
      /\ After("mounts") = "service" /\ After("service") = "cli-agent"
      /\ After("cli-agent") = "timezone" /\ After("timezone") = "channel"
      /\ After("channel") = "verify"
  BY DEF After, Steps
<1> QED
  BY <1>1, <1>2, <1>3

-----------------------------------------------------------------------------
(* The inductive invariant.                                                *)

\* The steps on the lists of what is completed are those that can be skipped.
Listed == skip \cup completed \subseteq Step \ {"channel", "verify"}

\* Behind the stage a flow is at, whatever failed or was there already, the
\* stages whose failure is awaited have done what they are for.
StagesPassed ==
  pc = "flow" /\ app # "teams" =>
    \A i \in 1 .. at - 1 : Flow[app][i].awaited =>
      /\ Flow[app][i].do = "install" =>
           /\ app \in files /\ (app \in WithCredentials => creds[app] = "full")
           /\ app \in BuildsAlways => app \in built
      /\ Flow[app][i].do = "store" => creds[app] = "full"
      /\ Flow[app][i].do = "pair" =>
           /\ app \in built /\ creds[app] = "full" /\ (up => app \in loaded)
           /\ app \in NeedsPackage => app \in packages

\* So has a script, phase by phase.
ScriptSoFar ==
  /\ phase # "none" => pc = "flow" /\ app \in files
  /\ phase = "restart" => creds[app] = "full"
  /\ phase \in {"env", "restart"} /\ app \in BuildsAlways => app \in built

\* And init-first-agent, row by row; who has a role already is granted none.
RowsSoFar ==
  /\ pc # "flow" => line = 0
  /\ pc = "flow" => \A i \in 1 .. line : InitRows[i] \in rows[app] \cup {"role"}

\* The service runs with the adapters that could log in, and found their
\* packages; a paired bot can.
LoggedIn ==
  /\ \A a \in loaded :
       creds[a] = "full" /\ (a \in NeedsPackage => a \in packages)
  /\ "wiring" \in rows["telegram"] => creds["telegram"] = "full"
  /\ "wiring" \notin rows["teams"]

Done == StagesPassed /\ ScriptSoFar /\ RowsSoFar /\ LoggedIn /\ WiredIsReady

Inv == SetupTypeOK /\ Listed /\ SkippedIsDone /\ Done

-----------------------------------------------------------------------------
(* The steps.                                                              *)

\* The place in a flow.
InPlace ==
  /\ pc \in Step \cup Between
  /\ IF pc = "flow" THEN app \in Offered /\ at \in DOMAIN Flow[app]
                    ELSE app = "none" /\ at = 0
  /\ phase \in {"none", "package", "build", "env", "restart"}
  /\ line \in 0 .. Len(InitRows)

\* What the wizard remembers, and what it leaves behind.
WizardFits ==
  /\ skip \subseteq Step /\ completed \subseteq Step /\ Listed
  /\ sg \in BOOLEAN /\ declined \in BOOLEAN /\ asking \in BOOLEAN

DiskFits ==
  /\ have \subseteq Artefact
  /\ files \subseteq App /\ packages \subseteq App /\ built \subseteq files
  /\ creds \in [App -> {"none", "half", "full"}]
  /\ rows \in [App -> SUBSET Row]
  /\ cliAgents \subseteq {"_ping-test", "terminal"}
  /\ up \in BOOLEAN /\ loaded \subseteq built
  /\ runs \in 0 .. MaxRuns /\ faults \in 0 .. MaxFaults /\ visits \in 0 .. MaxVisits

\* Together they are the types.
LEMMA TypeParts ==
  /\ SetupTypeOK /\ Listed <=> InPlace /\ WizardFits /\ DiskFits
  /\ (SetupTypeOK /\ Listed)' <=> InPlace' /\ WizardFits' /\ DiskFits'
  BY DEF SetupTypeOK, InPlace, WizardFits, DiskFits

\* Each stage leads to the next, or out of the flow.
LEMMA AdvanceInPlace ==
  ASSUME InPlace, pc = "flow", Advance
  PROVE  InPlace'
<1>1. Len(InitRows) = 6
  BY DEF InitRows
<1>2. Flow[app] \in Seq(Stages)
  BY Flows, SetupAssumption DEF InPlace
<1>3. CASE at < Len(Flow[app]) /\ at' = at + 1 /\ pc' = "flow" /\ app' = app
           /\ phase' = "none" /\ line' = 0
  BY <1>1, <1>2, <1>3 DEF InPlace
<1>4. CASE pc' = "verify" /\ OutOfFlow
  BY <1>1, <1>4, StepsInOrder DEF InPlace, OutOfFlow, Between
<1> QED
  BY <1>3, <1>4 DEF Advance

\* So does a stage that fails.
LEMMA FailedInPlace ==
  ASSUME InPlace, pc = "flow", Failed
  PROVE  InPlace' /\ UNCHANGED <<skip, completed, sg, declined>>
         /\ (asking' = asking \/ asking' = TRUE)
<1>1. Len(InitRows) = 6
  BY DEF InitRows
<1>2. CASE Flow[app][at].awaited
  BY <1>1, <1>2, StepsInOrder DEF Failed, InPlace, OutOfFlow, Between, WizardKept
<1>3. CASE ~Flow[app][at].awaited
  BY <1>3, AdvanceInPlace DEF Failed, WizardKept
<1> QED
  BY <1>2, <1>3

\* Every step keeps the types, and the lists.
LEMMA TypeStep ==
  ASSUME SetupTypeOK, Listed, [Next]_vars
  PROVE  SetupTypeOK' /\ Listed'
<1> USE SetupAssumption, StepsInOrder
    DEF SetupTypeOK, Listed, flowVars, wizardVars, treeVars, agentVars, serviceVars,
        countVars, Nothing, AgentsOnly, FlowOnly, DiskKept, WizardKept, Forget,
        OutOfFlow, At, StepDone, StageIs, Started, Stopped, Loadable, Resolved, Between, Artefact
<1>0. InPlace /\ Len(InitRows) = 6
  BY DEF InPlace, InitRows
<1>1. CASE Environment
  BY <1>1 DEF Environment
<1>2. CASE Container
  BY <1>2 DEF Container
<1>3. CASE ContainerUnderSg
  BY <1>3 DEF ContainerUnderSg
<1>4. CASE OnecliRemote
  BY <1>4 DEF OnecliRemote
<1>5. CASE OnecliFresh
  BY <1>5 DEF OnecliFresh
<1>6. CASE OnecliHalf
  BY <1>6 DEF OnecliHalf
<1>7. CASE OnecliReuse
  BY <1>7 DEF OnecliReuse
<1>8. CASE AuthKnown
  BY <1>8 DEF AuthKnown
<1>9. CASE AuthSubscription
  BY <1>9 DEF AuthSubscription
<1>10. CASE AuthPaste
  BY <1>10 DEF AuthPaste
<1>11. CASE AuthDecline
  BY <1>11 DEF AuthDecline
<1>12. CASE AuthCustom
  BY <1>12 DEF AuthCustom
<1>13. CASE CustomEndpoint
  BY <1>13 DEF CustomEndpoint
<1>14. CASE Mounts
  BY <1>14 DEF Mounts
<1>15. CASE Service
  BY <1>15 DEF Service, SetupLaunchd, SetupSystemd, SetupNohup
<1>16. CASE ServiceBuildFails
  BY <1>16 DEF ServiceBuildFails
<1>17. CASE CliAgentKnown
  BY <1>17 DEF CliAgentKnown
<1>18. CASE CliAgent
  BY <1>18 DEF CliAgent
<1>19. CASE PingAnswered
  BY <1>19 DEF PingAnswered
<1>20. CASE PingFails
  BY <1>20 DEF PingFails
<1>21. CASE Cleanup
  BY <1>21 DEF Cleanup
<1>22. CASE CleanupFails
  BY <1>22 DEF CleanupFails
<1>23. CASE WhatNext
  BY <1>23 DEF WhatNext
<1>24. CASE CreateTerminalAgent
  BY <1>24 DEF CreateTerminalAgent
<1>25. CASE TimezoneFound
  BY <1>25 DEF TimezoneFound
<1>26. CASE TimezoneUnknown
  BY <1>26 DEF TimezoneUnknown
<1>27. CASE TimezoneAnswered
  BY <1>27 DEF TimezoneAnswered
<1>28. CASE ChooseApp
  BY <1>0, <1>28, AdvanceInPlace, Flows DEF ChooseApp, InPlace
<1>29. CASE NoApp
  BY <1>29 DEF NoApp
<1>30. CASE BackToChannelSelection
  BY <1>30 DEF BackToChannelSelection
<1>31. CASE Answer
  BY <1>0, <1>31, AdvanceInPlace DEF Answer, InPlace
<1>32. CASE ReuseTeamsCredentials
  BY <1>0, <1>32, AdvanceInPlace, Flows DEF ReuseTeamsCredentials, InPlace
<1>33. CASE StageFails
  <2>1. InPlace'
    BY <1>0, <1>33, FailedInPlace DEF StageFails, InPlace
  <2>2. WizardFits'
    BY <1>0, <1>33, FailedInPlace DEF StageFails, InPlace, WizardFits
  <2>3. DiskFits'
    BY <1>33 DEF StageFails, DiskFits
  <2> QED
    BY <2>1, <2>2, <2>3, TypeParts
<1>34. CASE Fetch
  BY <1>34 DEF Fetch
<1>35. CASE AlreadyInstalled
  BY <1>35 DEF AlreadyInstalled
<1>36. CASE InstallPackage
  BY <1>36 DEF InstallPackage
<1>37. CASE Build
  BY <1>37 DEF Build
<1>38. CASE BuildFails
  BY <1>0, <1>38, FailedInPlace DEF BuildFails, InPlace
<1>39. CASE WriteCredentials
  BY <1>39 DEF WriteCredentials
<1>40. CASE InstalledOnly
  BY <1>0, <1>40, AdvanceInPlace DEF InstalledOnly, InPlace
<1>41. CASE RestartService
  <2>1. InPlace'
    BY <1>0, <1>41, AdvanceInPlace DEF RestartService, InPlace
  <2>2. WizardFits'
    BY <1>0, <1>41, AdvanceInPlace DEF RestartService, InPlace, WizardFits
  <2>3. DiskFits'
    <3>1. \/ Started(built) /\ UNCHANGED faults
          \/ UNCHANGED serviceVars /\ faults < MaxFaults /\ faults' = faults + 1
      BY <1>41 DEF RestartService
    <3>2. UNCHANGED <<treeVars, agentVars, have, runs, visits>>
      BY <1>41 DEF RestartService
    <3>3. CASE Started(built) /\ UNCHANGED faults
      BY <3>2, <3>3 DEF DiskFits
    <3>4. CASE UNCHANGED serviceVars /\ faults < MaxFaults /\ faults' = faults + 1
      BY <3>2, <3>4 DEF DiskFits
    <3> QED
      BY <3>1, <3>3, <3>4
  <2> QED
    BY <2>1, <2>2, <2>3, TypeParts
<1>42. CASE Pair
  BY <1>0, <1>42, AdvanceInPlace DEF Pair, InPlace
<1>43. CASE PairUnheard
  BY <1>0, <1>43, FailedInPlace DEF PairUnheard, InPlace
<1>44. CASE Link
  BY <1>0, <1>44, AdvanceInPlace DEF Link, InPlace
<1>45. CASE LinkHalf
  <2>1. InPlace'
    BY <1>0, <1>45, FailedInPlace DEF LinkHalf, InPlace
  <2>2. WizardFits'
    BY <1>0, <1>45, FailedInPlace DEF LinkHalf, InPlace, WizardFits
  <2>3. DiskFits'
    BY <1>45 DEF LinkHalf, DiskFits
  <2> QED
    BY <2>1, <2>2, <2>3, TypeParts
<1>46. CASE Store
  BY <1>0, <1>46, AdvanceInPlace DEF Store, InPlace
<1>47. CASE ManifestFails
  <2>1. InPlace'
    BY <1>0, <1>47, AdvanceInPlace DEF ManifestFails, InPlace
  <2>2. WizardFits'
    BY <1>0, <1>47, AdvanceInPlace DEF ManifestFails, InPlace, WizardFits
  <2>3. DiskFits'
    BY <1>47 DEF ManifestFails, DiskFits
  <2> QED
    BY <2>1, <2>2, <2>3, TypeParts
<1>48. CASE InitRow
  BY <1>0, <1>48, AdvanceInPlace DEF InitRow, InitRows, Row, InPlace
<1>49. CASE Welcome
  BY <1>0, <1>49, AdvanceInPlace, FailedInPlace DEF Welcome, InitRows, InPlace
<1>50. CASE Verify
  BY <1>50 DEF Verify
<1>51. CASE Start
  <2>1. InPlace'
    BY <1>0, <1>51 DEF Start, InPlace
  <2>2. WizardFits'
    BY <1>0, <1>51 DEF Start, InPlace, WizardFits
  <2>3. DiskFits'
    BY <1>51 DEF Start, DiskFits
  <2> QED
    BY <2>1, <2>2, <2>3, TypeParts
<1>52. CASE Quit
  <2>1. InPlace'
    BY <1>0, <1>52 DEF Quit, InPlace
  <2>2. WizardFits'
    BY <1>0, <1>52 DEF Quit, InPlace, WizardFits
  <2>3. DiskFits'
    BY <1>52 DEF Quit, DiskFits
  <2> QED
    BY <2>1, <2>2, <2>3, TypeParts
<1>53. CASE Retry
  <2>1. InPlace'
    BY <1>0, <1>53 DEF Retry, InPlace
  <2>2. WizardFits'
    BY <1>0, <1>53 DEF Retry, InPlace, WizardFits
  <2>3. DiskFits'
    BY <1>53 DEF Retry, DiskFits
  <2> QED
    BY <2>1, <2>2, <2>3, TypeParts
<1>54. CASE SkipStep
  BY <1>0, <1>54 DEF SkipStep
<1>55. CASE StepFails
  BY <1>0, <1>55 DEF StepFails
<1>56. CASE UNCHANGED vars
  BY <1>56 DEF vars
<1> QED
  BY <1>1, <1>2, <1>3, <1>4, <1>5, <1>6, <1>7, <1>8, <1>9, <1>10, <1>11, <1>12,
     <1>13, <1>14, <1>15, <1>16, <1>17, <1>18, <1>19, <1>20, <1>21, <1>22, <1>23,
     <1>24, <1>25, <1>26, <1>27, <1>28, <1>29, <1>30, <1>31, <1>32, <1>33, <1>34,
     <1>35, <1>36, <1>37, <1>38, <1>39, <1>40, <1>41, <1>42, <1>43, <1>44, <1>45,
     <1>46, <1>47, <1>48, <1>49, <1>50, <1>51, <1>52, <1>53, <1>54, <1>55, <1>56 DEF
     Next, StepAction, FlowAction

\* Nothing that was made is unmade.
LEMMA NothingUnmade ==
  ASSUME SetupTypeOK, [Next]_vars
  PROVE  have \subseteq have'
<1> USE DEF Nothing, AgentsOnly, FlowOnly, DiskKept
<1>1. CASE StepAction
  BY <1>1 DEF StepAction, Environment, Container, ContainerUnderSg, OnecliRemote,
     OnecliFresh, OnecliHalf, OnecliReuse, AuthKnown, AuthSubscription, AuthPaste,
     AuthDecline, AuthCustom, CustomEndpoint, Mounts, Service, ServiceBuildFails,
     CliAgentKnown, CliAgent, PingAnswered, PingFails, Cleanup, CleanupFails,
     WhatNext, CreateTerminalAgent, TimezoneFound, TimezoneUnknown, TimezoneAnswered
<1>2. CASE FlowAction
  BY <1>2 DEF FlowAction, ChooseApp, NoApp, BackToChannelSelection, Answer,
     ReuseTeamsCredentials, StageFails, Fetch, AlreadyInstalled, InstallPackage, Build,
     BuildFails, WriteCredentials, InstalledOnly, RestartService, Pair, PairUnheard,
     Link, LinkHalf, Store, ManifestFails, InitRow, Welcome, Verify
<1>3. CASE Start \/ Quit \/ Retry \/ SkipStep \/ StepFails
  BY <1>3 DEF Start, Quit, Retry, SkipStep, StepFails
<1>4. CASE UNCHANGED vars
  BY <1>4 DEF vars
<1> QED
  BY <1>1, <1>2, <1>3, <1>4 DEF Next

\* A step comes on the list with what it is for, and stays on it, or the lists
\* are started anew.
LEMMA ListedStep ==
  ASSUME SetupTypeOK, [Next]_vars
  PROVE  \/ skip' \cup completed' = {}
         \/ /\ skip' \cup completed' \subseteq skip \cup completed
            /\ declined' = declined
         \/ \E s \in Step :
              /\ skip' \cup completed' = skip \cup completed \cup {s}
              /\ s \in DOMAIN Proof =>
                   Proof[s] \subseteq have' \/ (s = "auth" /\ declined')
              /\ declined => declined'
<1> USE StepsInOrder DEF Nothing, AgentsOnly, StepDone, Proof
<1>1. CASE Environment
  BY <1>1 DEF Environment
<1>2. CASE Container
  BY <1>2 DEF Container
<1>3. CASE ContainerUnderSg
  BY <1>3 DEF ContainerUnderSg
<1>4. CASE OnecliRemote
  BY <1>4 DEF OnecliRemote
<1>5. CASE OnecliFresh
  BY <1>5 DEF OnecliFresh
<1>6. CASE OnecliReuse
  BY <1>6 DEF OnecliReuse
<1>7. CASE AuthKnown
  BY <1>7 DEF AuthKnown
<1>8. CASE AuthPaste
  BY <1>8 DEF AuthPaste
<1>9. CASE AuthDecline
  BY <1>9 DEF AuthDecline
<1>10. CASE AuthCustom
  BY <1>10 DEF AuthCustom
<1>11. CASE Mounts
  BY <1>11 DEF Mounts
<1>12. CASE Service
  BY <1>12 DEF Service
<1>13. CASE CliAgent
  BY <1>13 DEF CliAgent
<1>14. CASE TimezoneFound
  BY <1>14 DEF TimezoneFound
<1>15. CASE TimezoneAnswered
  BY <1>15 DEF TimezoneAnswered
<1>16. CASE \/ OnecliHalf \/ AuthSubscription \/ CustomEndpoint \/ ServiceBuildFails
            \/ CliAgentKnown \/ PingAnswered \/ PingFails \/ Cleanup \/ CleanupFails
            \/ WhatNext \/ CreateTerminalAgent \/ TimezoneUnknown
  BY <1>16 DEF OnecliHalf, AuthSubscription, CustomEndpoint, ServiceBuildFails,
     CliAgentKnown, PingAnswered, PingFails, Cleanup, CleanupFails, WhatNext,
     CreateTerminalAgent, TimezoneUnknown, wizardVars
<1>17. CASE FlowAction
  BY <1>17 DEF FlowAction, ChooseApp, NoApp, BackToChannelSelection, Answer,
     ReuseTeamsCredentials, StageFails, Fetch, AlreadyInstalled, InstallPackage, Build,
     BuildFails, WriteCredentials, InstalledOnly, RestartService, Pair, PairUnheard,
     Link, LinkHalf, Store, ManifestFails, InitRow, Welcome, Verify, wizardVars,
     FlowOnly, WizardKept, Failed, Forget
<1>18. CASE Start \/ Quit \/ Retry \/ SkipStep \/ StepFails
  BY <1>18 DEF Start, Quit, Retry, SkipStep, StepFails, Forget, wizardVars
<1>19. CASE UNCHANGED vars
  BY <1>19 DEF vars, wizardVars
<1> QED
  BY <1>1, <1>2, <1>3, <1>4, <1>5, <1>6, <1>7, <1>8, <1>9, <1>10, <1>11, <1>12,
     <1>13, <1>14, <1>15, <1>16, <1>17, <1>18, <1>19 DEF Next, StepAction

\* So what is listed has been done.
LEMMA SkippedStep ==
  ASSUME SetupTypeOK, SkippedIsDone, [Next]_vars
  PROVE  SkippedIsDone'
<1>1. have \subseteq have'
  BY NothingUnmade
<1>2. CASE skip' \cup completed' = {}
  BY <1>2 DEF SkippedIsDone
<1>3. CASE skip' \cup completed' \subseteq skip \cup completed /\ declined' = declined
  BY <1>1, <1>3 DEF SkippedIsDone
<1>4. ASSUME NEW s \in Step,
             skip' \cup completed' = skip \cup completed \cup {s},
             s \in DOMAIN Proof => Proof[s] \subseteq have' \/ (s = "auth" /\ declined'),
             declined => declined'
      PROVE  SkippedIsDone'
  BY <1>1, <1>4 DEF SkippedIsDone
<1> QED
  BY <1>2, <1>3, <1>4, ListedStep

\* A step outside the flows, that leaves tree, rows and service alone, is none
\* of their business.
LEMMA Elsewhere ==
  ASSUME Done, pc' # "flow", phase' = "none", line' = 0,
         UNCHANGED <<treeVars, rows, serviceVars>>
  PROVE  Done'
  BY DEF Done, StagesPassed, ScriptSoFar, RowsSoFar, LoggedIn, WiredIsReady, treeVars,
     serviceVars

\* What the flows, the scripts and the rows have come to.
LEMMA DoneStep ==
  ASSUME SetupTypeOK, Listed, Done, [Next]_vars
  PROVE  Done'
<1>1. /\ pc # "flow" => phase = "none" /\ line = 0
      /\ \A s \in Step : s # "flow"
  BY StepsInOrder DEF Done, ScriptSoFar, RowsSoFar
<1>2. CASE StepAction /\ ~Service /\ ~ServiceBuildFails
  <2>1. /\ pc' # "flow" /\ phase' = "none" /\ line' = 0
        /\ UNCHANGED <<treeVars, rows, serviceVars>>
    BY <1>1, <1>2, StepsInOrder
       DEF StepAction, Environment, Container, ContainerUnderSg, OnecliRemote,
           OnecliFresh, OnecliHalf, OnecliReuse, AuthKnown, AuthSubscription,
           AuthPaste, AuthDecline, AuthCustom, CustomEndpoint, Mounts,
           CliAgentKnown, CliAgent, PingAnswered, PingFails, Cleanup,
           CleanupFails, WhatNext, CreateTerminalAgent, TimezoneFound,
           TimezoneUnknown, TimezoneAnswered, Nothing, AgentsOnly, At, StepDone,
           flowVars, agentVars, SetupTypeOK
  <2> QED
    BY <2>1, Elsewhere
<1> USE SetupAssumption
    DEF SetupTypeOK, flowVars, wizardVars, treeVars, agentVars, serviceVars,
        countVars, FlowOnly, DiskKept, WizardKept, OutOfFlow, StageIs, Advance, Failed,
        Started, Stopped, Loadable, Resolved, Done, StagesPassed, ScriptSoFar, RowsSoFar,
        LoggedIn, WiredIsReady
<1>3. CASE Service
  <2>1. /\ pc' # "flow" /\ phase' = "none" /\ line' = 0
        /\ UNCHANGED <<files, packages, creds, rows>> /\ built' = files
        /\ UNCHANGED serviceVars \/ Started(files) \/ Stopped
    BY <1>1, <1>3, StepsInOrder
       DEF Service, At, StepDone, SetupLaunchd, SetupSystemd, SetupNohup
  <2> QED
    BY <2>1
<1>33. CASE ServiceBuildFails
  <2>1. /\ pc' # "flow" /\ phase' = "none" /\ line' = 0
        /\ UNCHANGED <<files, packages, creds, rows, serviceVars>> /\ built' = files
    BY <1>1, <1>33, StepsInOrder DEF ServiceBuildFails, At
  <2> QED
    BY <2>1
<1>4. CASE ChooseApp
  <2>1. /\ pc' = "flow" /\ at' = 1 /\ line' = 0 /\ phase' = "none"
        /\ UNCHANGED <<treeVars, rows, serviceVars>>
    BY <1>1, <1>4, StepsInOrder DEF ChooseApp, At
  <2> QED
    BY <2>1
<1>5. CASE NoApp
  <2>1. /\ pc' # "flow" /\ phase' = "none" /\ line' = 0
        /\ UNCHANGED <<treeVars, rows, serviceVars>>
    BY <1>1, <1>5, StepsInOrder DEF NoApp, At
  <2> QED
    BY <2>1, Elsewhere
<1>6. CASE BackToChannelSelection
  BY <1>1, <1>6 DEF BackToChannelSelection
<1>7. CASE Answer
  BY <1>1, <1>7 DEF Answer
<1>8. CASE ReuseTeamsCredentials
  BY <1>1, <1>8 DEF ReuseTeamsCredentials
<1>9. CASE StageFails
  BY <1>1, <1>9 DEF StageFails
<1>10. CASE Fetch
  BY <1>1, <1>10 DEF Fetch
<1>11. CASE AlreadyInstalled
  BY <1>1, <1>11 DEF AlreadyInstalled, InstallNeeded
<1>12. CASE InstallPackage
  BY <1>1, <1>12 DEF InstallPackage
<1>13. CASE Build
  BY <1>1, <1>13 DEF Build
<1>14. CASE BuildFails
  BY <1>1, <1>14 DEF BuildFails
<1>15. CASE WriteCredentials
  BY <1>1, <1>15 DEF WriteCredentials
<1>16. CASE InstalledOnly
  BY <1>1, <1>16 DEF InstalledOnly
<1>17. CASE RestartService
  <2>1. /\ pc = "flow" /\ Advance /\ UNCHANGED <<treeVars, agentVars>>
        /\ \/ StageIs("restart") \/ (StageIs("install") /\ phase = "restart")
        /\ Started(built) \/ UNCHANGED serviceVars
    BY <1>17 DEF RestartService
  <2>2. CASE Started(built)
    <3>1. up' => \A a \in built : creds[a] = "full" => a \in loaded'
      BY <2>2
    <3>2. StagesPassed'
      BY <1>1, <2>1, <3>1
    <3>3. ScriptSoFar' /\ RowsSoFar'
      BY <1>1, <2>1
    <3>4. LoggedIn'
      BY <2>1, <2>2
    <3>5. WiredIsReady'
      BY <2>1, <3>1
    <3> QED
      BY <3>2, <3>3, <3>4, <3>5
  <2>3. CASE UNCHANGED serviceVars
    BY <1>1, <2>1, <2>3
  <2> QED
    BY <2>1, <2>2, <2>3
<1>18. CASE Pair
  BY <1>1, <1>18 DEF Pair
<1>19. CASE PairUnheard
  BY <1>1, <1>19 DEF PairUnheard
<1>20. CASE Link
  <2>1. /\ creds' \in [App -> {"none", "half", "full"}]
        /\ \A a \in App : creds[a] = "full" => creds'[a] = "full"
    BY <1>20 DEF Link
  <2>2. /\ Advance /\ UNCHANGED <<files, packages, built, rows, serviceVars>>
        /\ pc = "flow" /\ app \in App /\ Flow[app][at].do = "link"
    BY <1>20 DEF Link
  <2>3. /\ phase' = "none" /\ line' = 0
        /\ up' = up /\ loaded' = loaded /\ files' = files /\ built' = built
        /\ packages' = packages
        /\ rows' = rows /\ loaded \subseteq App
    BY <2>2
  <2>5. "telegram" \in App
    BY Flows DEF App, Flow
  <2>6. ScriptSoFar'
    BY <2>3
  <2>7. RowsSoFar'
    BY <2>3
  <2>8. LoggedIn'
    BY <2>1, <2>3, <2>5
  <2>9. WiredIsReady'
    BY <2>1, <2>3
  <2>4. StagesPassed'
    <3>1. CASE /\ at' = at + 1 /\ pc' = "flow" /\ app' = app
      BY <2>1, <2>2, <3>1
    <3>2. CASE pc' = "verify"
      BY <3>2
    <3> QED
      BY <2>2, <3>1, <3>2
  <2> QED
    BY <2>4, <2>6, <2>7, <2>8, <2>9
<1>21. CASE LinkHalf
  <2>1. /\ pc = "flow" /\ app = "whatsapp" /\ creds[app] = "none"
        /\ creds' = [creds EXCEPT ![app] = "half"]
        /\ UNCHANGED <<files, packages, built, rows, serviceVars>>
    BY <1>21 DEF LinkHalf
  <2>2. \A a \in App : creds[a] = "full" => creds'[a] = "full"
    BY <2>1
  <2>3. \/ pc' = "flow" /\ app' = app /\ at' = at + 1 /\ phase' = "none" /\ line' = 0
           /\ ~Flow[app][at].awaited
        \/ pc' # "flow" /\ phase' = "none" /\ line' = 0
    BY <1>21 DEF LinkHalf
  <2>4. StagesPassed'
    <3>1. /\ app \in App /\ at \in 1 .. Len(Flow[app])
          /\ UNCHANGED <<files, packages, built, up, loaded>>
      BY <2>1, Flows
    <3>2. CASE pc' # "flow"
      BY <3>2
    <3>3. CASE pc' = "flow" /\ app' = app /\ at' = at + 1 /\ ~Flow[app][at].awaited
      <4>1. \A i \in 1 .. at' - 1 : i \in 1 .. at - 1 \/ i = at
        BY <3>1, <3>3
      <4> QED
        BY <2>1, <2>2, <3>1, <3>3, <4>1
    <3> QED
      BY <2>3, <3>2, <3>3
  <2>5. ScriptSoFar' /\ RowsSoFar'
    BY <2>1, <2>3
  <2>6. LoggedIn'
    BY <2>1, <2>2 DEF App, Flow
  <2>7. WiredIsReady'
    BY <2>1, <2>2
  <2> QED
    BY <2>4, <2>5, <2>6, <2>7
<1>22. CASE Store
  BY <1>1, <1>22 DEF Store
<1>23. CASE ManifestFails
  BY <1>1, <1>23 DEF ManifestFails
<1>24. CASE InitRow
  <2>1. /\ pc = "flow" /\ app \in App /\ Flow[app][at].do = "init" /\ line < 6
        /\ line' = line + 1 /\ UNCHANGED <<pc, app, at, phase, treeVars, serviceVars>>
        /\ \/ rows' = [rows EXCEPT ![app] = @ \cup {InitRows[line + 1]}]
           \/ InitRows[line + 1] = "role" /\ UNCHANGED rows
    BY <1>24 DEF InitRow, InitRows
  <2>2. app # "teams" /\ at \in 1 .. Len(Flow[app])
    BY <2>1, Flows DEF Asks
  <2>3. app \in Strict => app \in files /\ creds[app] = "full"
    <3>1. app \in Strict => Awaits(Flow[app], "install", at - 1)
      BY <2>1, <2>2, Flows DEF Behind
    <3>2. app \in Strict \ WithCredentials => Awaits(Flow[app], "store", at - 1)
      BY <2>1, <2>2, Flows DEF Behind
    <3> QED
      BY <2>1, <2>2, <3>1, <3>2 DEF Awaits
  <2>4. app = "telegram" =>
          /\ app \in built /\ creds[app] = "full" /\ (up => app \in loaded)
          /\ app \in packages
    <3>1. app = "telegram" => Awaits(Flow[app], "pair", at - 1)
      BY <2>1, <2>2, Flows DEF Behind
    <3> QED
      BY <2>1, <2>2, <3>1 DEF Awaits, NeedsPackage
  <2>12. app \in BuildsAlways => app \in built
    <3>1. app \in BuildsAlways => Awaits(Flow[app], "install", at - 1)
      BY <2>1, <2>2, Flows DEF BuildsAlways, Behind
    <3> QED
      BY <2>1, <2>2, <3>1 DEF Awaits
  <2>5. /\ InitRows[1] = "user" /\ InitRows[2] = "agent" /\ InitRows[3] = "role"
        /\ InitRows[4] = "member" /\ InitRows[5] = "chat" /\ InitRows[6] = "wiring"
        /\ Len(InitRows) = 6
    BY DEF InitRows
  <2>6. \A a \in App : rows[a] \subseteq rows'[a]
    BY <2>1
  <2>7. RowsSoFar'
    BY <2>1, <2>5, <2>6
  <2>8. "wiring" \in rows'[app] /\ "wiring" \notin rows[app] => line = 5
    BY <2>1, <2>5
  <2>9. line = 5 => {"user", "agent", "member", "chat"} \subseteq rows[app]
    BY <2>1, <2>5
  <2>10. WiredIsReady'
    <3> SUFFICES ASSUME NEW a \in App, "wiring" \in rows'[a]
                 PROVE  /\ {"user", "agent", "member", "chat"} \subseteq rows'[a]
                        /\ a \in Strict => a \in files /\ creds[a] = "full"
                        /\ a \in BuildsAlways => a \in built
                        /\ a = "telegram" =>
                             a \in built /\ a \in packages /\ (up => a \in loaded)
      BY <2>1
    <3>1. CASE "wiring" \in rows[a]
      BY <2>6, <3>1
    <3>2. CASE "wiring" \notin rows[a]
      <4>1. a = app
        BY <2>1, <3>2
      <4> QED
        BY <2>3, <2>4, <2>6, <2>8, <2>9, <2>12, <3>2, <4>1
    <3> QED
      BY <3>1, <3>2
  <2>11. LoggedIn'
    <3>1. "telegram" \in App /\ "teams" \in App
      BY DEF App, Flow
    <3>2. \A a \in App \ {app} : rows'[a] = rows[a]
      BY <2>1
    <3>3. "wiring" \notin rows'["teams"]
      BY <2>2, <3>1, <3>2
    <3>4. "wiring" \in rows'["telegram"] => creds["telegram"] = "full"
      BY <2>4, <3>1, <3>2
    <3> QED
      BY <2>1, <3>3, <3>4
  <2> QED
    BY <2>1, <2>7, <2>10, <2>11
<1>25. CASE Welcome
  <2>1. /\ UNCHANGED <<treeVars, rows, serviceVars>>
        /\ pc = "flow" /\ Flow[app][at].do = "init"
    BY <1>25 DEF Welcome
  <2>2. CASE Advance
    BY <2>1, <2>2
  <2>3. CASE pc' = "failing" /\ OutOfFlow
    BY <2>1, <2>3
  <2> QED
    BY <1>25, <2>2, <2>3 DEF Welcome
<1>26. CASE Verify
  <2>1. /\ pc' # "flow" /\ phase' = "none" /\ line' = 0
        /\ UNCHANGED <<treeVars, rows, serviceVars>>
    BY <1>1, <1>26, StepsInOrder DEF Verify, At, Listed
  <2> QED
    BY <2>1, Elsewhere
<1>27. CASE Start
  BY <1>1, <1>27 DEF Start
<1>28. CASE Quit
  BY <1>1, <1>28 DEF Quit
<1>29. CASE Retry
  BY <1>1, <1>29 DEF Retry
<1>30. CASE SkipStep
  <2>1. /\ pc' # "flow" /\ phase' = "none" /\ line' = 0
        /\ UNCHANGED <<treeVars, rows, serviceVars>>
    BY <1>1, <1>30, StepsInOrder DEF SkipStep, At, Listed
  <2> QED
    BY <2>1, Elsewhere
<1>31. CASE StepFails
  BY <1>1, <1>31 DEF StepFails
<1>32. CASE UNCHANGED vars
  BY <1>1, <1>32 DEF vars
<1> QED
  BY <1>2, <1>3, <1>4, <1>5, <1>6, <1>7, <1>8, <1>9, <1>10, <1>11, <1>12, <1>13,
     <1>14, <1>15, <1>16, <1>17, <1>18, <1>19, <1>20, <1>21, <1>22, <1>23, <1>24,
     <1>25, <1>26, <1>27, <1>28, <1>29, <1>30, <1>31, <1>32, <1>33 DEF Next, FlowAction,
     StepAction

LEMMA InvInit == Init => Inv
<1> SUFFICES ASSUME Init PROVE Inv
  OBVIOUS
<1>1. SetupTypeOK
  <2>1. InPlace
    BY DEF Init, InPlace, Between, InitRows
  <2>2. WizardFits
    BY DEF Init, WizardFits, Listed
  <2>3. DiskFits
    <3>1. /\ creds \in [App -> {"none", "half", "full"}]
          /\ rows \in [App -> SUBSET Row]
      BY DEF Init
    <3>2. 0 \in 0 .. MaxRuns /\ 0 \in 0 .. MaxFaults /\ 0 \in 0 .. MaxVisits
      BY SetupAssumption
    <3>3. Shipped \subseteq App
      BY DEF Shipped, App, Flow
    <3> QED
      BY <3>1, <3>2, <3>3 DEF Init, DiskFits
  <2> QED
    BY <2>1, <2>2, <2>3 DEF InPlace, WizardFits, DiskFits, SetupTypeOK
<1>2. Listed /\ SkippedIsDone
  BY DEF Init, Listed, SkippedIsDone
<1>3. Done
  BY DEF Init, Done, StagesPassed, ScriptSoFar, RowsSoFar, LoggedIn, WiredIsReady, App,
     Flow
<1> QED
  BY <1>1, <1>2, <1>3 DEF Inv

-----------------------------------------------------------------------------
(* The theorems.                                                           *)

LEMMA Invariance == Spec => []Inv
<1>1. Inv /\ [Next]_vars => Inv'
  <2> SUFFICES ASSUME Inv, [Next]_vars PROVE Inv'
    OBVIOUS
  <2>1. SetupTypeOK' /\ Listed'
    BY TypeStep DEF Inv
  <2>2. SkippedIsDone'
    BY SkippedStep DEF Inv
  <2>3. Done'
    BY DoneStep DEF Inv
  <2> QED
    BY <2>1, <2>2, <2>3 DEF Inv
<1> QED
  BY InvInit, <1>1, PTL DEF Spec

(* The state keeps its type and shape: a wizard is in a flow exactly while *)
(* an app is chosen, and dist/ holds no adapter the tree does not have.    *)
THEOREM TypeCorrect == Spec => []SetupTypeOK
<1>1. Inv => SetupTypeOK
  BY DEF Inv
<1> QED
  BY Invariance, <1>1, PTL

(* However often wizards fail, are retried, cancelled or run again under   *)
(* sg, the steps one of them skips because they are on the list it was     *)
(* handed (spawnSync with NANOCLAW_SKIP) have left what they are for.      *)
THEOREM RetriesSkipWhatIsDone == Spec => []SkippedIsDone
<1>1. Inv => SkippedIsDone
  BY DEF Inv
<1> QED
  BY Invariance, <1>1, PTL

(* Whatever was cancelled, failed or done again, a chat that               *)
(* init-first-agent.ts wired has its member; where the flow of its app     *)
(* stops at every failure, its adapter is in the tree with its             *)
(* credentials; Signal's has been built, and Telegram's has been built     *)
(* with its package and is there whenever the service runs.                *)
THEOREM WiredAppsAreReady == Spec => []WiredIsReady
<1>1. Inv => WiredIsReady
  BY DEF Inv, Done
<1> QED
  BY Invariance, <1>1, PTL
=============================================================================
