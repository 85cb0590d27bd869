---------------------------- MODULE ChannelFlows ----------------------------
(***************************************************************************)
(* The guided flow of each messaging app of the setup wizard               *)
(* (setup/channels/*.ts), as the sequence of its stages.                   *)
(*                                                                         *)
(*   choice   a prompt that may go back to the list of apps                *)
(*   prompt   a prompt, a walkthrough or a note                            *)
(*   check    a lookup or a tool that works or fails                       *)
(*   manifest the Teams package, which ends the wizard when it fails       *)
(*   install  the add-<app>.sh script                                      *)
(*   pair     a code sent to the bot through the running service           *)
(*   link     a device linked to the operator's account                    *)
(*   store    the linked account written to .env                           *)
(*   restart  the service restarted, failing softly                        *)
(*   init     scripts/init-first-agent.ts                                  *)
(*                                                                         *)
(* A stage is followed by `await fail(...)` when it fails, except where    *)
(* the call is not awaited: there the flow goes on.                        *)
(***************************************************************************)
EXTENDS Naturals, Sequences

Kind == {"choice", "prompt", "check", "manifest", "install", "pair", "link",
         "store", "restart", "init"}

Stage(kind) == [do |-> kind, awaited |-> TRUE]
Loose(kind) == [do |-> kind, awaited |-> FALSE]
Prompt == <<Stage("prompt")>>
Choice == <<Stage("choice")>>
Check == <<Stage("check")>>

(* The role of the operator and the agent's name end the questions. *)
AskOperatorRole == Prompt
ResolveAgentName == Prompt
RoleAndName == AskOperatorRole \o ResolveAgentName
InitFirstAgent == <<Stage("init")>>

(* Telegram: the bot's token, or back to the list of apps. *)
CollectTelegramToken == Choice \o Prompt
ValidateTelegramToken == Check
AddTelegram == <<Stage("install")>>
PairTelegram == <<Stage("pair")>>
TelegramFlow == CollectTelegramToken \o ValidateTelegramToken
                \o AddTelegram \o PairTelegram
                \o RoleAndName \o InitFirstAgent

(* Discord: everything is asked before the adapter is installed; the DM   *)
(* is opened over REST, whatever the service is doing.                    *)
AskHasBotToken == Choice
WalkThroughBotCreation == Prompt
CollectDiscordToken == Prompt
ValidateDiscordToken == Check
FetchApplicationInfo == Check
ResolveOwner == Prompt
AskHasDiscordServer == Prompt
InviteBot == Prompt
AddDiscord == <<Stage("install")>>
OpenDiscordDm == Check
DiscordFlow == AskHasBotToken \o WalkThroughBotCreation
               \o CollectDiscordToken \o ValidateDiscordToken
               \o FetchApplicationInfo \o ResolveOwner
               \o AskHasDiscordServer \o InviteBot
               \o AddDiscord \o OpenDiscordDm
               \o RoleAndName \o InitFirstAgent

(* Slack: token and signing secret, checked by auth.test. *)
WalkThroughAppCreation == Choice
CollectBotToken == Prompt
CollectSigningSecret == Prompt
ValidateSlackToken == Check
AddSlack == <<Stage("install")>>
CollectSlackUserId == Prompt
OpenSlackDm == Check
PostInstallChecklist == Prompt
SlackFlow == WalkThroughAppCreation \o CollectBotToken
             \o CollectSigningSecret \o ValidateSlackToken
             \o AddSlack \o CollectSlackUserId \o OpenSlackDm
             \o RoleAndName \o InitFirstAgent \o PostInstallChecklist

(* iMessage: access to this Mac's messages, or a server's address and key. *)
AskIMessageMode == Choice
FullDiskAccess == Prompt
CollectRemoteCreds == Prompt
AskOperatorHandle == Prompt
AddIMessage == <<Stage("install")>>
IMessageFlow == AskIMessageMode \o FullDiskAccess \o CollectRemoteCreds
                \o AskOperatorHandle \o AddIMessage
                \o RoleAndName \o InitFirstAgent

(* Signal: a linked device is the credential. *)
EnsureSignalCli == Check
AddSignal == <<Stage("install")>>
SignalAuth == <<Stage("link")>>
WriteSignalAccount == <<Stage("store")>>
SignalRestart == <<Stage("restart")>>
SignalFlow == Choice \o EnsureSignalCli \o AddSignal
              \o SignalAuth \o WriteSignalAccount \o SignalRestart
              \o RoleAndName \o InitFirstAgent

(* WhatsApp: no failure of this flow is awaited.  ASSISTANT_HAS_OWN_NUMBER, *)
(* written after the chat's number is known, is left out.                   *)
AskAuthMethod == Choice
AskPhoneNumber == Prompt
AddWhatsApp == <<Loose("install")>>
WhatsAppAuth == <<Loose("link")>>
WhatsAppRestart == <<Stage("restart")>>
AskChatPhone == Prompt
WhatsAppFlow == AskAuthMethod \o AskPhoneNumber \o AddWhatsApp
                \o WhatsAppAuth \o WhatsAppRestart \o AskChatPhone
                \o RoleAndName \o <<Loose("init")>>

(* Teams: a walkthrough of Azure whose every gate may go back; nothing is *)
(* wired, the operator or Claude does that later.                         *)
ConfirmPrereqs == Choice
StepPublicUrl == Prompt
AppRegistration == Choice
ClientSecret == Choice
AzureBot == Choice
EnableTeamsChannel == Choice
GenerateManifest == <<Stage("manifest")>>
Sideload == Choice
InstallTeams == <<Loose("install")>>
FinishWithHandoff == Prompt
TeamsFlow == ConfirmPrereqs \o StepPublicUrl \o AppRegistration
             \o ClientSecret \o AzureBot \o EnableTeamsChannel
             \o GenerateManifest \o Sideload \o InstallTeams
             \o FinishWithHandoff

Flow == [telegram |-> TelegramFlow, discord |-> DiscordFlow,
         slack |-> SlackFlow, imessage |-> IMessageFlow,
         signal |-> SignalFlow, whatsapp |-> WhatsAppFlow,
         teams |-> TeamsFlow]
App == DOMAIN Flow

(* What the script of each app does once the adapter is in the tree: some *)
(* write the credentials they were given and restart the service, the two *)
(* that link a device leave both to the flow.  Signal's adapter needs no  *)
(* package and its script builds on every call.                           *)
WithCredentials == {"telegram", "discord", "slack", "imessage", "teams"}
NeedsPackage == App \ {"signal"}
BuildsAlways == {"signal"}

(* The one adapter the tree comes with, and its package. *)
Shipped == {"slack"}

(* An app whose every failure stops the wizard. *)
Strict == {a \in App : \A i \in 1..Len(Flow[a]) : Flow[a][i].awaited}
=============================================================================
