----------------------------- MODULE AgentGroups -----------------------------
(***************************************************************************)
(* Agent groups and what their containers are started with: the packages   *)
(* baked into the group's image, the MCP servers of container.json and the *)
(* destinations an agent may write to.  The central database is the source *)
(* of truth; a container lives on copies made while it was started         *)
(* (container-runner.ts), so every change of the database -- self-         *)
(* modification, create_agent, ncl, wiring -- races the spawns in flight.  *)
(* An on_wake note tells the fresh container what has changed.             *)
(*                                                                         *)
(* killContainer blocks the host until docker has stopped the container:   *)
(* the host does nothing meanwhile, the containers go on.  Stops that fail *)
(* belong to SessionLifecycle.                                             *)
(***************************************************************************)
EXTENDS Naturals, FiniteSets

CONSTANTS
  Group,       \* identities of agent groups; a deleted one is not used again
  MaxSession,  \* bound on sessions; they are numbered in order of creation
  Founding,    \* [Group -> SUBSET sessions]: the groups at the outset
  Package,     \* packages that can be baked into an image
  Server,      \* MCP servers that can be configured
  Name,        \* local names of destinations
  Channel,     \* messaging groups
  Known,       \* [Group -> destinations] at the outset
  Workload     \* what a behaviour is made of, one of these records: a set of
               \* operations, a number of host restarts, and a number of
               \* builds, spawns and containers that fail

Session == 1 .. MaxSession
Item == Package \cup Server
Note == Item \cup {"message"}
Destination == [name : Name, to : Group \cup Channel]
NoGroup == "no group"
NoSession == 0
Parent == "parent"

\* The operations a workload is made of.  Those of agents are the approved
\* ones; an approved ncl command runs as the host's.
Operation ==
  [op : {"install"}, s : Session, x : Package] \* install_packages
    \cup [op : {"server"}, s : Session, x : Server] \* add_mcp_server
    \cup [op : {"child"}, s : Session, g : Group, name : Name] \* create_agent
    \cup [op : {"add", "remove"}, g : Group, x : Item] \* ncl groups config
    \cup [op : {"restart"}, g : Group, rebuild : BOOLEAN, note : BOOLEAN]
    \cup [op : {"create", "delete"}, g : Group] \* ncl groups
    \cup [op : {"dest"}, g : Group, name : Name, to : Group \cup Channel]
    \cup [op : {"undest"}, g : Group, name : Name] \* ncl destinations
    \cup [op : {"wire"}, g : Group, name : Name, to : Channel] \* a channel is wired
    \cup [op : {"greet"}, g : Group] \* a first message makes a session
    \cup [op : {"chat"}, s : Session] \* a message, in AgentMail

ASSUME AgentGroupsAssumption ==
  /\ MaxSession \in Nat
  /\ \A w \in Workload : /\ w.ops \subseteq Operation
                        /\ w.restarts \in Nat /\ w.failures \in Nat
  /\ Parent \in Name
  /\ NoGroup \notin Group /\ Group \cap Channel = {}
  /\ Package \cap Server = {} /\ "message" \notin Item
  /\ DOMAIN Founding \subseteq Group
  /\ \A g \in DOMAIN Founding : Founding[g] \subseteq Session
  /\ Known \in [Group -> SUBSET Destination]
  /\ \A g \in Group : \A d, e \in Known[g] : d.name = e.name => d = e

VARIABLES
  \* the central database and the image store
  groups,    \* rows of agent_groups
  configs,   \* groups with a row of container_configs
  listed,    \* the items of that row
  built,     \* groups whose row has an image_tag
  image,     \* the packages of the image built last for each group
  sessions,  \* rows of sessions
  home,      \* the group of each session, kept by its directory on the disk
  dests,     \* agent_destinations, of each group
  \* the disk
  json,      \* servers in the group's container.json
  proj,      \* destinations projected into each inbound.db
  notes,     \* on_wake rows waiting in each inbound.db
  \* the host
  spawn,     \* spawns in flight: "none", "import" or "gateway" is awaited
  tagged,    \* whether the spawn read an image_tag
  entry,     \* sessions in activeContainers
  onExit,    \* those with an onExit callback that wakes them again
  stopping,  \* the session whose `docker stop` the host waits for, or none
  rest,      \* <<session, with a note?>> that the same command restarts after it
  projecting, \* ncl destinations commands whose import is awaited
  \* the containers
  box,       \* "none", "starting", "booted", "first" (first poll), "running"
  has,       \* the items each runs with
  held,      \* the notes its first poll took
  \* history
  overtaken, \* items announced to a session whose spawn had been planned
             \* without them, or taken away since
  stale,     \* sessions not projected to since their group was changed, by
             \* code that does not project or whose projection failed
  \* bounds: what is still to come
  todo, restarts, failures

databaseVars == <<groups, configs, listed, built, image, sessions, home, dests>>
diskVars == <<json, proj, notes>>
stopVars == <<stopping, rest>>
hostVars == <<spawn, tagged, entry, onExit, stopVars, projecting>>
boxVars == <<box, has, held>>
historyVars == <<overtaken, stale>>
groupVars == <<databaseVars, diskVars, hostVars, boxVars, historyVars, todo,
               restarts, failures>>

TypeOK ==
  /\ groups \subseteq Group /\ configs \subseteq groups
  /\ listed \in [Group -> SUBSET Item]
  /\ built \subseteq Group /\ image \in [Group -> SUBSET Package]
  /\ home \in [Session -> Group \cup {NoGroup}]
  /\ sessions = {s \in Session : home[s] \in groups}
  /\ dests \in [Group -> SUBSET Destination]
  /\ \A g \in Group : \A d, e \in dests[g] : d.name = e.name => d = e
  /\ json \in [Group -> SUBSET Server]
  /\ proj \in [Session -> SUBSET Destination]
  /\ notes \in [Session -> SUBSET Note]
  /\ spawn \in [Session -> {"none", "import", "gateway"}]
  /\ tagged \in [Session -> BOOLEAN]
  /\ onExit \subseteq entry /\ entry \subseteq Session
  /\ stopping \in entry \cup {NoSession} /\ rest \subseteq entry \X BOOLEAN
  /\ projecting \subseteq {o \in Operation : o.op \in {"dest", "undest"}}
  /\ box \in [Session -> {"none", "starting", "booted", "first", "running"}]
  /\ has \in [Session -> SUBSET Item]
  /\ held \in [Session -> SUBSET Note] /\ \A s \in Session : held[s] \subseteq notes[s]
  /\ overtaken \in [Session -> SUBSET Item] /\ stale \subseteq Session
  /\ todo \subseteq Operation /\ restarts \in Nat /\ failures \in Nat

Init ==
  /\ groups = DOMAIN Founding /\ configs = DOMAIN Founding
  /\ listed = [g \in Group |-> {}] /\ built = {} /\ image = [g \in Group |-> {}]
  /\ home = [s \in Session |->
               IF \E g \in groups : s \in Founding[g]
                 THEN CHOOSE g \in groups : s \in Founding[g] ELSE NoGroup]
  /\ sessions = UNION {Founding[g] : g \in groups}
  /\ dests = Known
  /\ json = [g \in Group |-> {}] /\ proj = [s \in Session |-> {}]
  /\ notes = [s \in Session |-> {}]
  /\ spawn = [s \in Session |-> "none"] /\ tagged = [s \in Session |-> FALSE]
  /\ entry = {} /\ onExit = {} /\ stopping = NoSession /\ rest = {}
  /\ projecting = {}
  /\ box = [s \in Session |-> "none"] /\ has = [s \in Session |-> {}]
  /\ held = [s \in Session |-> {}]
  /\ overtaken = [s \in Session |-> {}] /\ stale = {}
  /\ \E w \in Workload :
       todo = w.ops /\ restarts = w.restarts /\ failures = w.failures

SessionsOf(g) == {s \in sessions : home[s] = g}

\* The host does not wait for a container to be stopped.
HostIdle == stopping = NoSession /\ rest = {}

\* The failure that an alternative costs.
Fails == failures > 0 /\ failures' = failures - 1

\* What writeDestinations resolves: rows whose target exists.
Targets(D, G) == {d \in D : d.to \in G \cup Channel}
Resolved(g) == Targets(dests[g], groups)

-----------------------------------------------------------------------------
(* A container is started.                                                 *)

\* Whoever has a message for s wakes it: a router, a delivery, the sweep.
Wake(s) ==
  /\ HostIdle /\ s \in sessions \ entry /\ spawn[s] = "none"
  /\ spawn' = [spawn EXCEPT ![s] = "import"]
  /\ UNCHANGED <<databaseVars, diskVars, tagged, entry, onExit, stopVars,
                 projecting, boxVars, historyVars, todo, restarts, failures>>

\* The destinations are projected and container.json is written, from one
\* state of the database.  Without a config row, or a group, the spawn ends here.
Materialize(s) ==
  /\ HostIdle /\ spawn[s] = "import"
  /\ proj' = [proj EXCEPT ![s] = Resolved(home[s])]
  /\ stale' = stale \ {s}
  /\ IF home[s] \in configs
       THEN /\ json' = [json EXCEPT ![home[s]] = listed[home[s]] \cap Server]
            /\ tagged' = [tagged EXCEPT ![s] = home[s] \in built]
            /\ spawn' = [spawn EXCEPT ![s] = "gateway"]
       ELSE spawn' = [spawn EXCEPT ![s] = "none"] /\ UNCHANGED <<json, tagged>>
  /\ UNCHANGED <<databaseVars, notes, entry, onExit, stopVars, projecting, boxVars,
                 overtaken, todo, restarts, failures>>

\* The gateway answers: the container is run, from the image its tag names now.
Run(s) ==
  /\ HostIdle /\ spawn[s] = "gateway"
  /\ spawn' = [spawn EXCEPT ![s] = "none"]
  /\ entry' = entry \cup {s}
  /\ box' = [box EXCEPT ![s] = "starting"]
  /\ has' = [has EXCEPT ![s] = IF tagged[s] THEN image[home[s]] ELSE {}]
  /\ UNCHANGED <<databaseVars, diskVars, tagged, onExit, stopVars, projecting, held,
                 historyVars, todo, restarts, failures>>

\* The gateway is not reachable.
SpawnFails(s) ==
  /\ HostIdle /\ spawn[s] = "gateway" /\ Fails
  /\ spawn' = [spawn EXCEPT ![s] = "none"]
  /\ UNCHANGED <<databaseVars, diskVars, tagged, entry, onExit, stopVars,
                 projecting, boxVars, historyVars, todo, restarts>>

\* loadConfig: the runner reads container.json, as it is by now.
Boot(s) ==
  /\ box[s] = "starting"
  /\ box' = [box EXCEPT ![s] = "booted"]
  /\ has' = [has EXCEPT ![s] = @ \cup json[home[s]]]
  /\ UNCHANGED <<databaseVars, diskVars, hostVars, held, historyVars, todo,
                 restarts, failures>>

\* The first poll takes the on_wake notes.
FirstPoll(s) ==
  /\ box[s] = "booted"
  /\ box' = [box EXCEPT ![s] = "first"]
  /\ held' = [held EXCEPT ![s] = notes[s]]
  /\ UNCHANGED <<databaseVars, diskVars, hostVars, has, historyVars, todo,
                 restarts, failures>>

\* Mutant: they are not acknowledged.
HeedOnly(s) ==
  /\ box[s] = "first"
  /\ box' = [box EXCEPT ![s] = "running"]
  /\ held' = [held EXCEPT ![s] = {}]
  /\ UNCHANGED <<databaseVars, diskVars, hostVars, has, historyVars, todo,
                 restarts, failures>>

\* The turn on them ends: they are completed.
Heed(s) ==
  /\ box[s] = "first"
  /\ box' = [box EXCEPT ![s] = "running"]
  /\ notes' = [notes EXCEPT ![s] = @ \ held[s]]
  /\ held' = [held EXCEPT ![s] = {}]
  /\ UNCHANGED <<databaseVars, json, proj, hostVars, has, historyVars, todo,
                 restarts, failures>>

-----------------------------------------------------------------------------
(* And it goes.                                                            *)

\* The container of s is no more.
Gone(s) ==
  /\ box' = [box EXCEPT ![s] = "none"]
  /\ has' = [has EXCEPT ![s] = {}]
  /\ held' = [held EXCEPT ![s] = {}]

\* A container dies on its own.
Die(s) ==
  /\ box[s] # "none" /\ Fails
  /\ Gone(s)
  /\ UNCHANGED <<databaseVars, diskVars, hostVars, historyVars, todo, restarts>>

\* killContainer: a session without an entry is left alone; else the host waits
\* for `docker stop`.  With `again` the session is woken when the exit is seen.
Kill(s, again) ==
  /\ stopping' = IF s \in entry THEN s ELSE NoSession
  /\ onExit' = IF s \in entry /\ again THEN onExit \cup {s} ELSE onExit

\* `docker stop` returns, up to a second later.
Stopped ==
  /\ stopping # NoSession
  /\ stopping' = NoSession
  /\ Gone(stopping)
  /\ UNCHANGED <<databaseVars, diskVars, spawn, tagged, entry, onExit, rest,
                 projecting, historyVars, todo, restarts, failures>>

\* The next session of the same command gets its note and is stopped.
RestartNext(s, note) ==
  /\ stopping = NoSession /\ <<s, note>> \in rest
  /\ rest' = rest \ {<<s, note>>}
  /\ notes' = IF note THEN [notes EXCEPT ![s] = @ \cup {"message"}] ELSE notes
  /\ Kill(s, note)
  /\ UNCHANGED <<databaseVars, json, proj, spawn, tagged, entry, projecting, boxVars,
                 historyVars, todo, restarts, failures>>

\* The host sees the exit: the entry goes, then the callback wakes the session
\* if it still exists.
Close(s) ==
  /\ HostIdle /\ s \in entry /\ box[s] = "none"
  /\ entry' = entry \ {s} /\ onExit' = onExit \ {s}
  /\ spawn' = IF s \in onExit \cap sessions THEN [spawn EXCEPT ![s] = "import"]
                                          ELSE spawn
  /\ UNCHANGED <<databaseVars, diskVars, tagged, stopVars, projecting, boxVars,
                 historyVars, todo, restarts, failures>>

\* The host restarts: what it knew is gone, its containers are stopped
\* (cleanupOrphans), and groups without a config row get one
\* (backfillContainerConfigs), with the servers of their container.json.
HostRestart ==
  /\ restarts > 0 /\ restarts' = restarts - 1
  /\ configs' = groups
  /\ listed' = [g \in Group |-> IF g \in groups \ configs THEN json[g] ELSE listed[g]]
  /\ spawn' = [s \in Session |-> "none"] /\ entry' = {} /\ onExit' = {}
  /\ stopping' = NoSession /\ rest' = {} /\ projecting' = {}
  /\ box' = [s \in Session |-> "none"] /\ has' = [s \in Session |-> {}]
  /\ held' = [s \in Session |-> {}]
  /\ UNCHANGED <<groups, built, image, sessions, home, dests, diskVars, tagged,
                 historyVars, todo, failures>>

-----------------------------------------------------------------------------
(* What changes a group.                                                   *)

Done(o) == HostIdle /\ o \in todo /\ todo' = todo \ {o}

\* A spawn of s is past the point where it would have taken in x.
Planned(s, x) == spawn[s] = "gateway" /\ (x \in Package => ~tagged[s])

\* A note for s about x is written, and its container restarted.
Announced(s, x) ==
  /\ notes' = [notes EXCEPT ![s] = @ \cup {x}]
  /\ overtaken' = IF Planned(s, x) THEN [overtaken EXCEPT ![s] = @ \cup {x}]
                                   ELSE overtaken
  /\ Kill(s, TRUE)

\* Mutant: the tag is not stored.
BuildUntagged(g, items) ==
  /\ image' = [image EXCEPT ![g] = items \cap Package]
  /\ UNCHANGED built

\* buildAgentGroupImage of what is listed for g by now.
Build(g, items) ==
  /\ built' = built \cup {g}
  /\ image' = [image EXCEPT ![g] = items \cap Package]

\* applyInstallPackages.  A build that fails is told in a message of its own:
\* the package stays listed.
Install(o) ==
  LET s == o.s g == home[s] IN
  /\ o.op = "install" /\ s \in sessions /\ g \in configs /\ Done(o)
  /\ listed' = [listed EXCEPT ![g] = @ \cup {o.x}]
  /\ \/ /\ Build(g, listed[g] \cup {o.x})
        /\ Announced(s, o.x)
        /\ UNCHANGED failures
     \/ /\ Fails
        /\ UNCHANGED <<built, image, notes, overtaken, stopping, onExit>>
  /\ UNCHANGED <<groups, configs, sessions, home, dests, json, proj, spawn,
                 tagged, entry, rest, projecting, boxVars, stale, restarts>>

\* applyAddMcpServer.
AddMcpServer(o) ==
  LET s == o.s g == home[s] IN
  /\ o.op = "server" /\ s \in sessions /\ g \in configs /\ Done(o)
  /\ listed' = [listed EXCEPT ![g] = @ \cup {o.x}]
  /\ Announced(s, o.x)
  /\ UNCHANGED <<groups, configs, built, image, sessions, home, dests, json, proj,
                 spawn, tagged, entry, rest, projecting, boxVars, stale, restarts,
                 failures>>

\* Mutant: a name that is taken will do.
AnyName(g, n) == n \in Name

\* No destination of g has the name.
Free(g, n) == \A d \in dests[g] : d.name # n

\* Nothing is there to be changed: the handler says so and does no more.
Refused(o) ==
  /\ Done(o)
  /\ \/ o.op \in {"install", "server"} /\ ~(o.s \in sessions /\ home[o.s] \in configs)
     \/ o.op \in {"add", "remove"} /\ o.g \notin configs
     \/ o.op = "restart" /\ o.rebuild
          /\ (o.g \notin configs \/ listed[o.g] \cap Package = {})
     \/ o.op \in {"delete", "greet", "wire"} /\ o.g \notin groups
     \/ o.op = "child" /\ (o.s \notin sessions
                            \/ ~Free(home[o.s], o.name))
     \/ o.op = "dest" /\ (o.g \notin groups \/ ~Free(o.g, o.name))
     \/ o.op = "undest" /\ Free(o.g, o.name)
  /\ UNCHANGED <<databaseVars, diskVars, hostVars, boxVars, historyVars, restarts,
                 failures>>

\* ncl groups config add-... and remove-...: nothing is restarted.
Configure(o) ==
  /\ o.op \in {"add", "remove"} /\ o.g \in configs /\ Done(o)
  /\ listed' = [listed EXCEPT ![o.g] = IF o.op = "add" THEN @ \cup {o.x}
                                                       ELSE @ \ {o.x}]
  /\ overtaken' = [s \in Session |-> IF o.op = "remove" /\ home[s] = o.g
                                       THEN overtaken[s] \cup {o.x} ELSE overtaken[s]]
  /\ UNCHANGED <<groups, configs, built, image, sessions, home, dests, diskVars,
                 hostVars, boxVars, stale, restarts, failures>>

\* The sessions whose containers are restarted.
Restarted(g) == SessionsOf(g) \cap entry

\* ncl groups restart: those of the group that run get the note, if there is
\* one, and are restarted, one after the other; without one they are only stopped.
RestartGroup(o) ==
  /\ o.op = "restart" /\ Done(o)
  /\ o.rebuild => o.g \in configs /\ listed[o.g] \cap Package # {}
  /\ \/ o.rebuild /\ Build(o.g, listed[o.g]) /\ UNCHANGED listed
     \/ ~o.rebuild /\ UNCHANGED <<built, image, listed>>
  /\ rest' = Restarted(o.g) \X {o.note}
  /\ UNCHANGED <<groups, configs, sessions, home, dests, diskVars, spawn, tagged,
                 entry, onExit, stopping, projecting, boxVars, historyVars, restarts,
                 failures>>

\* The rebuild fails: the command does, and nothing is restarted.
RebuildFails(o) ==
  /\ o.op = "restart" /\ o.rebuild /\ Done(o) /\ Fails
  /\ UNCHANGED <<databaseVars, diskVars, hostVars, boxVars, historyVars, restarts>>

\* The projection of the calling session only: its siblings keep theirs.
ProjectCaller(s) ==
  /\ proj' = [proj EXCEPT ![s] = Targets(dests'[home[s]], groups')]
  /\ stale' = (stale \cup SessionsOf(home[s])) \ {s}

\* Mutant: running sessions only.
ProjectRunning(g, F) ==
  /\ proj' = [s \in Session |-> IF s \in (SessionsOf(g) \cap entry) \ F THEN Resolved(g)
                                                                      ELSE proj[s]]
  /\ stale' = (stale \ SessionsOf(g)) \cup F

\* projectDestinationsToSessions: every session of g but F, where it throws.
Project(g, F) ==
  /\ proj' = [s \in Session |-> IF s \in SessionsOf(g) \ F THEN Resolved(g) ELSE proj[s]]
  /\ stale' = (stale \ SessionsOf(g)) \cup F

\* The import has come back.  What a projection throws is caught, session by
\* session, and logged: the command succeeds.
ProjectToSessions(o) ==
  /\ HostIdle /\ o \in projecting
  /\ projecting' = projecting \ {o}
  /\ \/ Project(o.g, {}) /\ UNCHANGED failures
     \/ Fails /\ \E s \in SessionsOf(o.g) : Project(o.g, {s})
  /\ UNCHANGED <<databaseVars, json, notes, spawn, tagged, entry, onExit, stopVars,
                 boxVars, overtaken, todo, restarts>>

\* An id as the code makes them, of the time and random letters or a UUID:
\* nothing speaks of it yet.
Fresh(g) ==
  /\ g \notin groups /\ \A s \in Session : home[s] # g
  /\ \A h \in Group : \A d \in dests[h] : d.to # g

\* handleCreateAgent: a group, its config row, and destinations both ways.  If
\* the projection throws, the action is tried again and finds the name taken.
CreateAgent(o) ==
  LET s == o.s g == home[s] IN
  /\ o.op = "child" /\ s \in sessions /\ Free(g, o.name) /\ Fresh(o.g) /\ Done(o)
  /\ groups' = groups \cup {o.g} /\ configs' = configs \cup {o.g}
  /\ dests' = [dests EXCEPT ![g] = @ \cup {[name |-> o.name, to |-> o.g]},
                            ![o.g] = {[name |-> Parent, to |-> g]}]
  /\ \/ ProjectCaller(s) /\ UNCHANGED failures
     \/ Fails /\ UNCHANGED proj /\ stale' = stale \cup SessionsOf(g)
  /\ UNCHANGED <<listed, built, image, sessions, home, json, notes, hostVars,
                 boxVars, overtaken, restarts>>

\* ncl groups create: a row, without a config row.
CreateGroup(o) ==
  /\ o.op = "create" /\ Fresh(o.g) /\ Done(o)
  /\ groups' = groups \cup {o.g}
  /\ UNCHANGED <<configs, listed, built, image, sessions, home, dests, diskVars,
                 hostVars, boxVars, historyVars, restarts, failures>>

\* ncl groups delete: every row that names the group goes in one transaction;
\* its containers run on, and nobody's projection is refreshed.
DeleteGroup(o) ==
  LET g == o.g IN
  /\ o.op = "delete" /\ g \in groups /\ Done(o)
  /\ groups' = groups \ {g} /\ configs' = configs \ {g}
  /\ built' = built \ {g} /\ listed' = [listed EXCEPT ![g] = {}]
  /\ sessions' = sessions \ SessionsOf(g)
  /\ dests' = [h \in Group |-> IF h = g THEN {} ELSE {d \in dests[h] : d.to # g}]
  /\ stale' = stale \cup {s \in sessions : \E d \in dests[home[s]] : d.to = g}
  /\ UNCHANGED <<image, home, diskVars, hostVars, boxVars, overtaken, restarts,
                 failures>>

\* ncl destinations add: the row, then an awaited import, then the projection.
AddDestination(o) ==
  /\ o.op = "dest" /\ o.g \in groups /\ Free(o.g, o.name) /\ Done(o)
  /\ dests' = [dests EXCEPT ![o.g] = @ \cup {[name |-> o.name, to |-> o.to]}]
  /\ projecting' = projecting \cup {o}
  /\ UNCHANGED <<groups, configs, listed, built, image, sessions, home, diskVars,
                 spawn, tagged, entry, onExit, stopVars, boxVars, historyVars,
                 restarts, failures>>

\* ncl destinations remove, likewise.
RemoveDestination(o) ==
  /\ o.op = "undest" /\ ~Free(o.g, o.name) /\ Done(o)
  /\ dests' = [dests EXCEPT ![o.g] = {d \in @ : d.name # o.name}]
  /\ projecting' = projecting \cup {o}
  /\ UNCHANGED <<groups, configs, listed, built, image, sessions, home, diskVars,
                 spawn, tagged, entry, onExit, stopVars, boxVars, historyVars,
                 restarts, failures>>

\* createMessagingGroupAgent: unless the group has it already, the channel
\* becomes a destination under a name that is free; nothing is projected.
Wire(o) ==
  /\ o.op = "wire" /\ o.g \in groups /\ Done(o)
  /\ IF \E d \in dests[o.g] : d.to = o.to
       THEN UNCHANGED <<dests, stale>>
       ELSE /\ \E n \in Name :
                 /\ Free(o.g, n)
                 /\ Free(o.g, o.name) => n = o.name
                 /\ dests' = [dests EXCEPT ![o.g] = @ \cup {[name |-> n, to |-> o.to]}]
            /\ stale' = stale \cup SessionsOf(o.g)
  /\ UNCHANGED <<groups, configs, listed, built, image, sessions, home, diskVars,
                 hostVars, boxVars, overtaken, restarts, failures>>

\* A session of g is created: the next number, an inbound.db without
\* destinations.
NewSession(g, s) ==
  /\ home[s] = NoGroup /\ \A r \in 1 .. s - 1 : home[r] # NoGroup
  /\ home' = [home EXCEPT ![s] = g]
  /\ sessions' = sessions \cup {s}

\* resolveSession, for the first message of a chat.
Greet(o) ==
  /\ o.op = "greet" /\ o.g \in groups /\ Done(o)
  /\ \E s \in Session : NewSession(o.g, s)
  /\ UNCHANGED <<groups, configs, listed, built, image, dests, diskVars, hostVars,
                 boxVars, historyVars, restarts, failures>>

GroupStep ==
  \/ \E s \in Session :
       \/ Wake(s) \/ Materialize(s) \/ Run(s) \/ SpawnFails(s) \/ Boot(s)
       \/ FirstPoll(s) \/ Heed(s) \/ Die(s) \/ Close(s)
       \/ \E note \in BOOLEAN : RestartNext(s, note)
  \/ Stopped
  \/ HostRestart
  \/ \E o \in projecting : ProjectToSessions(o)
  \/ \E o \in todo :
       \/ Install(o) \/ AddMcpServer(o) \/ Configure(o) \/ Refused(o)
       \/ RestartGroup(o) \/ RebuildFails(o) \/ CreateAgent(o) \/ CreateGroup(o)
       \/ DeleteGroup(o) \/ AddDestination(o) \/ RemoveDestination(o) \/ Wire(o)
       \/ Greet(o)

GroupSpec == Init /\ [][GroupStep]_groupVars

\* Awaits come back, containers start, take their turns and are stopped, exits
\* are seen, and the sweep wakes a session that has rows due.
GroupFairness ==
  /\ WF_groupVars(Stopped)
  /\ \A s \in Session :
       /\ \A note \in BOOLEAN : WF_groupVars(RestartNext(s, note))
       /\ WF_groupVars(Wake(s)) /\ WF_groupVars(Materialize(s))
       /\ WF_groupVars(Run(s)) /\ WF_groupVars(Boot(s))
       /\ WF_groupVars(FirstPoll(s)) /\ WF_groupVars(Heed(s))
       /\ WF_groupVars(Close(s))

-----------------------------------------------------------------------------
\* A container that runs for a session finds in its inbound.db the destinations
\* its group has, whenever they were changed: before, during or after the
\* spawn.  But for the time between an ncl command's change and its projection;
\* and, until the next spawn or command, but for sessions whose projection
\* failed and for what create_agent (for the siblings of its caller), wiring
\* and deletion do, which do not project at all -- the first two although
\* agent-destinations.ts asks it of them.
ProjectionCurrent ==
  \A s \in sessions \ stale :
    (s \in entry \/ spawn[s] = "gateway") =>
      proj[s] = Resolved(home[s]) \/ \E o \in projecting : o.g = home[s]

\* What an on_wake note announces is there when a container reads it, whatever
\* was spawned, built, restarted or failed in between.  But for two races the
\* code loses: a spawn planned before the change and run after it (the kill
\* finds no container to stop), and a container that is still starting when its
\* stop begins and polls before the stop is through.
NoteTrue ==
  \A s \in sessions \ {stopping} : held[s] \cap Item \subseteq has[s] \cup overtaken[s]

\* The notes are heeded, by some container: whatever dies, the sweep wakes a
\* session that has rows waiting.
NoteHeeded ==
  \A s \in Session : (notes[s] # {}) ~> (notes[s] = {} \/ s \notin sessions)
=============================================================================
