--------------------------- MODULE AgentMail_proofs ---------------------------
(***************************************************************************)
(* Proofs about AgentGroups and AgentMail, for every set of groups,        *)
(* sessions, items and names, and every workload.                          *)
(***************************************************************************)
EXTENDS AgentMail, WellFoundedInduction, TLAPS

-----------------------------------------------------------------------------
(* The inductive invariant.                                                *)

\* A container has an entry, an entry no spawn; notes are held by a first poll
\* only; and nothing happens to a session before it is created.
SpawnsFit ==
  \A s \in Session :
    /\ box[s] # "none" => s \in entry
    /\ s \in entry => spawn[s] = "none"
    /\ box[s] # "first" => held[s] = {}
    /\ home[s] = NoGroup => s \notin entry /\ spawn[s] = "none" /\ notes[s] = {}

\* A group without a config row has nothing listed.
BareUnlisted == \A g \in Group \ configs : listed[g] = {}

\* What is announced and was not overtaken is in the database, and, if it is a
\* package, in the image.
NotesListed ==
  \A s \in sessions :
    /\ notes[s] \cap Item \subseteq listed[home[s]] \cup overtaken[s]
    /\ notes[s] \cap Package \subseteq image[home[s]] \cup overtaken[s]
    /\ home[s] \notin built => notes[s] \cap Package \subseteq overtaken[s]

\* A spawn that waits for the gateway has read a tag that is good, and the
\* servers are in container.json.
SpawnKnows ==
  \A s \in sessions : spawn[s] = "gateway" =>
    /\ ~tagged[s] => notes[s] \cap Package \subseteq overtaken[s]
    /\ notes[s] \cap Server \subseteq json[home[s]] \cup overtaken[s]

\* So has a container that starts; one that has booted has read them.  But for
\* the one being stopped.
BoxKnows ==
  \A s \in sessions \ {stopping} :
    /\ box[s] = "starting" =>
         /\ notes[s] \cap Package \subseteq has[s] \cup overtaken[s]
         /\ notes[s] \cap Server \subseteq json[home[s]] \cup overtaken[s]
    /\ box[s] = "booted" => notes[s] \cap Item \subseteq has[s] \cup overtaken[s]

Told == BareUnlisted /\ NotesListed /\ SpawnKnows /\ BoxKnows /\ NoteTrue

GroupInv == TypeOK /\ SpawnsFit /\ Told /\ ProjectionCurrent

\* A row from a group was written by a session of it.
RowsAreSigned ==
  \A s \in Session : \A i \in 1 .. Len(inbox[s]) :
    inbox[s][i].from \in Group =>
      inbox[s][i].src \in Session /\ home[inbox[s][i].src] = inbox[s][i].from

\* An answer replies to nothing, or to a row of its target, that one or a later.
RepliesFit ==
  \A m \in outbox :
    /\ m.ref <= Len(inbox[m.by]) /\ m.about \in 1 .. Len(inbox[m.by])
    /\ m.about \in From(m.by, m.to) =>
         m.ref = 0 \/ (m.ref \in From(m.by, m.to) /\ m.ref >= m.about)

Inv == MailTypeOK /\ GroupInv /\ RowsAreSigned /\ RepliesFit

-----------------------------------------------------------------------------
(* The groups.                                                             *)

\* What an operation is about.
LEMMA Operations ==
  ASSUME NEW o \in Operation
  PROVE  /\ o.op = "install" => o.s \in Session /\ o.x \in Package
         /\ o.op = "server" => o.s \in Session /\ o.x \in Server
         /\ o.op \in {"add", "remove"} => o.g \in Group /\ o.x \in Item
         /\ o.op = "child" => o.s \in Session /\ o.g \in Group /\ o.name \in Name
         /\ o.op \in {"restart", "create", "delete", "greet"} => o.g \in Group
         /\ o.op = "restart" => o.rebuild \in BOOLEAN /\ o.note \in BOOLEAN
         /\ o.op = "dest" =>
              o.g \in Group /\ o.name \in Name /\ o.to \in Group \cup Channel
         /\ o.op = "undest" => o.g \in Group /\ o.name \in Name
         /\ o.op = "wire" => o.g \in Group /\ o.name \in Name /\ o.to \in Channel
         /\ o.op = "chat" => o.s \in Session
  BY DEF Operation

\* The parts of the type of the state.
RowsTyped ==
  /\ groups \subseteq Group /\ configs \subseteq groups
  /\ listed \in [Group -> SUBSET Item]
  /\ built \subseteq Group /\ image \in [Group -> SUBSET Package]
  /\ home \in [Session -> Group \cup {NoGroup}]
  /\ sessions = {s \in Session : home[s] \in groups}

DestsTyped ==
  /\ dests \in [Group -> SUBSET Destination]
  /\ \A g \in Group : \A d, e \in dests[g] : d.name = e.name => d = e

DiskTyped ==
  /\ json \in [Group -> SUBSET Server]
  /\ proj \in [Session -> SUBSET Destination]
  /\ notes \in [Session -> SUBSET Note]

HostTyped ==
  /\ spawn \in [Session -> {"none", "import", "gateway"}]
  /\ tagged \in [Session -> BOOLEAN]
  /\ onExit \subseteq entry /\ entry \subseteq Session
  /\ stopping \in entry \cup {NoSession} /\ rest \subseteq entry \X BOOLEAN
  /\ projecting \subseteq {o \in Operation : o.op \in {"dest", "undest"}}

BoxTyped ==
  /\ box \in [Session -> {"none", "starting", "booted", "first", "running"}]
  /\ has \in [Session -> SUBSET Item]
  /\ held \in [Session -> SUBSET Note] /\ \A s \in Session : held[s] \subseteq notes[s]

RestTyped ==
  /\ overtaken \in [Session -> SUBSET Item] /\ stale \subseteq Session
  /\ todo \subseteq Operation /\ restarts \in Nat /\ failures \in Nat

\* Together they are the type.
LEMMA TypeParts ==
  /\ TypeOK <=> /\ RowsTyped /\ DestsTyped /\ DiskTyped /\ HostTyped /\ BoxTyped
                /\ RestTyped
  /\ TypeOK' <=> /\ RowsTyped' /\ DestsTyped' /\ DiskTyped' /\ HostTyped' /\ BoxTyped'
                 /\ RestTyped'
  BY DEF TypeOK, RowsTyped, DestsTyped, DiskTyped, HostTyped, BoxTyped, RestTyped

\* Types.
LEMMA TypeStep ==
  ASSUME TypeOK, SpawnsFit, [GroupStep]_groupVars
  PROVE  TypeOK'
<1> USE AgentGroupsAssumption, Operations
        DEF Item, Note, SpawnsFit, groupVars, databaseVars, diskVars, hostVars,
            stopVars, boxVars, historyVars
<1>0. /\ RowsTyped /\ DestsTyped /\ DiskTyped /\ HostTyped /\ BoxTyped /\ RestTyped
      /\ todo \subseteq Operation
  BY TypeParts DEF RestTyped
<1>1. ASSUME NEW s \in Session, Wake(s) PROVE TypeOK'
  BY <1>0, <1>1, TypeParts
     DEF RowsTyped, DestsTyped, DiskTyped, HostTyped, BoxTyped, RestTyped, Wake
<1>2. ASSUME NEW s \in Session, Materialize(s) PROVE TypeOK'
  <2>1. RowsTyped'
    BY <1>0, <1>2 DEF Materialize, Resolved, Targets, RowsTyped
  <2>2. DestsTyped'
    BY <1>0, <1>2 DEF Materialize, Resolved, Targets, DestsTyped
  <2>3. DiskTyped'
    <3>1. home[s] \in Group
      BY <1>0, <1>2 DEF Materialize, RowsTyped
    <3>2. /\ Resolved(home[s]) \in SUBSET Destination
          /\ listed[home[s]] \cap Server \in SUBSET Server
      BY <1>0, <3>1 DEF Resolved, Targets, DestsTyped
    <3> QED
      BY <1>0, <1>2, <3>1, <3>2 DEF Materialize, DiskTyped
  <2>4. HostTyped'
    <3>1. (home[s] \in built) \in BOOLEAN
      OBVIOUS
    <3>2. tagged' \in [Session -> BOOLEAN]
      BY <1>0, <1>2, <3>1 DEF Materialize, HostTyped
    <3> QED
      BY <1>0, <1>2, <3>2 DEF Materialize, HostTyped
  <2>5. BoxTyped'
    BY <1>0, <1>2 DEF Materialize, Resolved, Targets, BoxTyped, DiskTyped
  <2>6. RestTyped'
    BY <1>0, <1>2 DEF Materialize, Resolved, Targets, RestTyped
  <2> QED
    BY <2>1, <2>2, <2>3, <2>4, <2>5, <2>6, TypeParts
<1>3. ASSUME NEW s \in Session, Run(s) PROVE TypeOK'
  <2>1. RowsTyped'
    BY <1>0, <1>3 DEF Run, RowsTyped
  <2>2. DestsTyped'
    BY <1>0, <1>3 DEF Run, DestsTyped
  <2>3. DiskTyped'
    BY <1>0, <1>3 DEF Run, DiskTyped
  <2>4. HostTyped'
    BY <1>0, <1>3 DEF Run, HostTyped
  <2>5. BoxTyped'
    <3>1. home[s] \in Group
      BY <1>0, <1>3 DEF Run, RowsTyped
    <3>2. (IF tagged[s] THEN image[home[s]] ELSE {}) \in SUBSET Item
      BY <1>0, <3>1 DEF RowsTyped
    <3> QED
      BY <1>0, <1>3, <3>2 DEF Run, BoxTyped
  <2>6. RestTyped'
    BY <1>0, <1>3 DEF Run, RestTyped
  <2> QED
    BY <2>1, <2>2, <2>3, <2>4, <2>5, <2>6, TypeParts
<1>4. ASSUME NEW s \in Session, SpawnFails(s) PROVE TypeOK'
  BY <1>0, <1>4, TypeParts
     DEF RowsTyped, DestsTyped, DiskTyped, HostTyped, BoxTyped, RestTyped, SpawnFails,
         Fails
<1>5. ASSUME NEW s \in Session, Boot(s) PROVE TypeOK'
  <2>1. RowsTyped'
    BY <1>0, <1>5 DEF Boot, RowsTyped
  <2>2. DestsTyped'
    BY <1>0, <1>5 DEF Boot, DestsTyped
  <2>3. DiskTyped'
    BY <1>0, <1>5 DEF Boot, DiskTyped
  <2>4. HostTyped'
    BY <1>0, <1>5 DEF Boot, HostTyped
  <2>5. BoxTyped'
    <3>1. home[s] \in Group
      BY <1>0, <1>5 DEF Boot, RowsTyped
    <3>2. has[s] \cup json[home[s]] \in SUBSET Item
      BY <1>0, <3>1 DEF BoxTyped, DiskTyped
    <3> QED
      BY <1>0, <1>5, <3>2 DEF Boot, BoxTyped
  <2>6. RestTyped'
    BY <1>0, <1>5 DEF Boot, RestTyped
  <2> QED
    BY <2>1, <2>2, <2>3, <2>4, <2>5, <2>6, TypeParts
<1>6. ASSUME NEW s \in Session, FirstPoll(s) PROVE TypeOK'
  BY <1>0, <1>6, TypeParts
     DEF RowsTyped, DestsTyped, DiskTyped, HostTyped, BoxTyped, RestTyped, FirstPoll
<1>7. ASSUME NEW s \in Session, Heed(s) PROVE TypeOK'
  BY <1>0, <1>7, TypeParts
     DEF RowsTyped, DestsTyped, DiskTyped, HostTyped, BoxTyped, RestTyped, Heed
<1>8. ASSUME NEW s \in Session, Die(s) PROVE TypeOK'
  BY <1>0, <1>8, TypeParts
     DEF RowsTyped, DestsTyped, DiskTyped, HostTyped, BoxTyped, RestTyped, Die, Gone,
         Fails
<1>9. ASSUME NEW s \in Session, Close(s) PROVE TypeOK'
  BY <1>0, <1>9, TypeParts
     DEF RowsTyped, DestsTyped, DiskTyped, HostTyped, BoxTyped, RestTyped, Close,
         HostIdle
<1>10. CASE HostRestart
  BY <1>0, <1>10, TypeParts
     DEF RowsTyped, DestsTyped, DiskTyped, HostTyped, BoxTyped, RestTyped, HostRestart
<1>11. ASSUME NEW o \in todo, Install(o) PROVE TypeOK'
  <2>1. RowsTyped'
    BY <1>0, <1>11 DEF Install, Done, Announced, Planned, Kill, Build, Fails, RowsTyped
  <2>2. DestsTyped'
    BY <1>0, <1>11 DEF Install, Done, Announced, Planned, Kill, Build, Fails, DestsTyped
  <2>3. DiskTyped'
    BY <1>0, <1>11 DEF Install, Done, Announced, Planned, Kill, Build, Fails, DiskTyped
  <2>4. HostTyped'
    BY <1>0, <1>11 DEF Install, Done, Announced, Planned, Kill, Build, Fails, HostTyped
  <2>5. BoxTyped'
    BY <1>0, <1>11 DEF Install, Done, Announced, Planned, Kill, Build, Fails, BoxTyped,
       DiskTyped
  <2>6. RestTyped'
    BY <1>0, <1>11 DEF Install, Done, Announced, Planned, Kill, Build, Fails, RestTyped
  <2> QED
    BY <2>1, <2>2, <2>3, <2>4, <2>5, <2>6, TypeParts
<1>12. ASSUME NEW o \in todo, AddMcpServer(o) PROVE TypeOK'
  <2>1. RowsTyped'
    BY <1>0, <1>12 DEF AddMcpServer, Done, Announced, Planned, Kill, RowsTyped
  <2>2. DestsTyped'
    BY <1>0, <1>12 DEF AddMcpServer, Done, Announced, Planned, Kill, DestsTyped
  <2>3. DiskTyped'
    BY <1>0, <1>12 DEF AddMcpServer, Done, Announced, Planned, Kill, DiskTyped
  <2>4. HostTyped'
    BY <1>0, <1>12 DEF AddMcpServer, Done, Announced, Planned, Kill, HostTyped
  <2>5. BoxTyped'
    BY <1>0, <1>12 DEF AddMcpServer, Done, Announced, Planned, Kill, BoxTyped, DiskTyped
  <2>6. RestTyped'
    BY <1>0, <1>12 DEF AddMcpServer, Done, Announced, Planned, Kill, RestTyped
  <2> QED
    BY <2>1, <2>2, <2>3, <2>4, <2>5, <2>6, TypeParts
<1>13. ASSUME NEW o \in todo, Configure(o) PROVE TypeOK'
  <2>1. RowsTyped'
    BY <1>0, <1>13 DEF Configure, Done, RowsTyped
  <2>2. DestsTyped'
    BY <1>0, <1>13 DEF Configure, Done, DestsTyped
  <2>3. DiskTyped'
    BY <1>0, <1>13 DEF Configure, Done, DiskTyped
  <2>4. HostTyped'
    BY <1>0, <1>13 DEF Configure, Done, HostTyped
  <2>5. BoxTyped'
    BY <1>0, <1>13 DEF Configure, Done, BoxTyped, DiskTyped
  <2>6. RestTyped'
    BY <1>0, <1>13 DEF Configure, Done, RestTyped
  <2> QED
    BY <2>1, <2>2, <2>3, <2>4, <2>5, <2>6, TypeParts
<1>14. ASSUME NEW o \in todo, Refused(o) PROVE TypeOK'
  BY <1>0, <1>14, TypeParts
     DEF RowsTyped, DestsTyped, DiskTyped, HostTyped, BoxTyped, RestTyped, Refused,
         Done
<1>15. ASSUME NEW o \in todo, RestartGroup(o) PROVE TypeOK'
  <2>1. o.g \in Group /\ o.note \in BOOLEAN
    BY <1>0, <1>15 DEF RestartGroup
  <2>2. built' \subseteq Group /\ image' \in [Group -> SUBSET Package]
    BY <1>0, <1>15, <2>1 DEF RestartGroup, Build, RowsTyped
  <2>3. RowsTyped'
    BY <1>0, <1>15, <2>2 DEF RestartGroup, RowsTyped
  <2>4. rest' \subseteq entry \X BOOLEAN
    BY <1>15, <2>1 DEF RestartGroup, Restarted
  <2>5. HostTyped'
    BY <1>0, <1>15, <2>4 DEF RestartGroup, HostTyped
  <2>6. DestsTyped' /\ DiskTyped' /\ BoxTyped' /\ RestTyped'
    BY <1>0, <1>15 DEF RestartGroup, Done, DestsTyped, DiskTyped, BoxTyped, RestTyped
  <2> QED
    BY <2>3, <2>5, <2>6, TypeParts
<1>16. ASSUME NEW o \in todo, RebuildFails(o) PROVE TypeOK'
  BY <1>0, <1>16, TypeParts
     DEF RowsTyped, DestsTyped, DiskTyped, HostTyped, BoxTyped, RestTyped,
         RebuildFails, Done, Fails
<1>17. ASSUME NEW o \in todo, CreateAgent(o) PROVE TypeOK'
  <2>1. RowsTyped'
    BY <1>0, <1>17
       DEF CreateAgent, Done, Fails, Free, Fresh, ProjectCaller, SessionsOf, Targets,
           RowsTyped
  <2>2. DestsTyped'
    <3>1. /\ o.s \in Session /\ home[o.s] \in Group /\ o.g \in Group /\ o.g # home[o.s]
          /\ o.name \in Name
      BY <1>0, <1>17 DEF CreateAgent, Fresh, RowsTyped
    <3>2. /\ [name |-> o.name, to |-> o.g] \in Destination
          /\ [name |-> Parent, to |-> home[o.s]] \in Destination
      BY <3>1 DEF Destination
    <3>3. dests' \in [Group -> SUBSET Destination]
      BY <1>0, <1>17, <3>1, <3>2 DEF CreateAgent, DestsTyped
    <3>4. /\ dests'[home[o.s]] = dests[home[o.s]] \cup {[name |-> o.name, to |-> o.g]}
          /\ dests'[o.g] = {[name |-> Parent, to |-> home[o.s]]}
          /\ \A g \in Group \ {home[o.s], o.g} : dests'[g] = dests[g]
      BY <1>0, <1>17, <3>1 DEF CreateAgent, DestsTyped
    <3>5. \A d \in dests[home[o.s]] : d.name # o.name
      BY <1>17 DEF CreateAgent, Free
    <3> QED
      BY <1>0, <3>1, <3>3, <3>4, <3>5 DEF DestsTyped
  <2>3. DiskTyped'
    <3>1. /\ o.s \in Session /\ home[o.s] \in Group /\ o.g \in Group /\ o.g # home[o.s]
          /\ o.name \in Name
      BY <1>0, <1>17 DEF CreateAgent, Fresh, RowsTyped
    <3>2. Targets(dests'[home[o.s]], groups') \in SUBSET Destination
      BY <2>2, <3>1 DEF DestsTyped, Targets
    <3>3. proj' = [proj EXCEPT ![o.s] = Targets(dests'[home[o.s]], groups')]
          \/ UNCHANGED proj
      BY <1>17 DEF CreateAgent, ProjectCaller
    <3>4. proj' \in [Session -> SUBSET Destination]
      BY <1>0, <3>1, <3>2, <3>3 DEF DiskTyped
    <3>5. UNCHANGED <<json, notes>>
      BY <1>17 DEF CreateAgent
    <3> QED
      BY <1>0, <3>4, <3>5 DEF DiskTyped
  <2>4. HostTyped'
    BY <1>0, <1>17
       DEF CreateAgent, Done, Fails, Free, Fresh, ProjectCaller, SessionsOf, Targets,
           HostTyped
  <2>5. BoxTyped'
    BY <1>0, <1>17
       DEF CreateAgent, Done, Fails, Free, Fresh, ProjectCaller, SessionsOf, Targets,
           BoxTyped, DiskTyped
  <2>6. RestTyped'
    <3>1. stale' \subseteq Session
      BY <1>0, <1>17 DEF CreateAgent, ProjectCaller, SessionsOf, RowsTyped, RestTyped
    <3>2. failures' \in Nat
      BY <1>0, <1>17 DEF CreateAgent, Fails, RestTyped
    <3> QED
      BY <1>0, <1>17, <3>1, <3>2 DEF CreateAgent, Done, RestTyped
  <2> QED
    BY <2>1, <2>2, <2>3, <2>4, <2>5, <2>6, TypeParts
<1>18. ASSUME NEW o \in todo, CreateGroup(o) PROVE TypeOK'
  <2>1. RowsTyped'
    BY <1>0, <1>18 DEF CreateGroup, Done, Fresh, RowsTyped
  <2>2. DestsTyped'
    BY <1>0, <1>18 DEF CreateGroup, Done, Fresh, DestsTyped
  <2>3. DiskTyped'
    BY <1>0, <1>18 DEF CreateGroup, Done, Fresh, DiskTyped
  <2>4. HostTyped'
    BY <1>0, <1>18 DEF CreateGroup, Done, Fresh, HostTyped
  <2>5. BoxTyped'
    BY <1>0, <1>18 DEF CreateGroup, Done, Fresh, BoxTyped, DiskTyped
  <2>6. RestTyped'
    BY <1>0, <1>18 DEF CreateGroup, Done, Fresh, RestTyped
  <2> QED
    BY <2>1, <2>2, <2>3, <2>4, <2>5, <2>6, TypeParts
<1>19. ASSUME NEW o \in todo, DeleteGroup(o) PROVE TypeOK'
  BY <1>0, <1>19, TypeParts
     DEF RowsTyped, DestsTyped, DiskTyped, HostTyped, BoxTyped, RestTyped,
         DeleteGroup, Done, SessionsOf
<1>20. ASSUME NEW o \in todo, AddDestination(o) PROVE TypeOK'
  <2>1. RowsTyped'
    BY <1>0, <1>20
       DEF AddDestination, Done, Free, RowsTyped
  <2>2. DestsTyped'
    <3>1. o.g \in Group /\ [name |-> o.name, to |-> o.to] \in Destination
      BY <1>0, <1>20 DEF AddDestination, Destination
    <3>2. dests' = [dests EXCEPT ![o.g] = @ \cup {[name |-> o.name, to |-> o.to]}]
      BY <1>20 DEF AddDestination
    <3>3. \A d \in dests[o.g] : d.name # o.name
      BY <1>20 DEF AddDestination, Free
    <3> QED
      BY <1>0, <3>1, <3>2, <3>3 DEF DestsTyped
  <2>3. DiskTyped'
    <3>1. o.g \in Group
      BY <1>0, <1>20 DEF AddDestination
    <3>2. Targets(dests'[o.g], groups') \in SUBSET Destination
      BY <2>2, <3>1 DEF DestsTyped, Targets
    <3> QED
      BY <1>0, <1>20, <3>2 DEF AddDestination, Project, DiskTyped
  <2>4. HostTyped'
    BY <1>0, <1>20
       DEF AddDestination, Done, Free, HostTyped
  <2>5. BoxTyped'
    BY <1>0, <1>20
       DEF AddDestination, Done, Free, BoxTyped,
           DiskTyped
  <2>6. RestTyped'
    BY <1>0, <1>20
       DEF AddDestination, Done, Free, RestTyped
  <2> QED
    BY <2>1, <2>2, <2>3, <2>4, <2>5, <2>6, TypeParts
<1>21. ASSUME NEW o \in todo, RemoveDestination(o) PROVE TypeOK'
  <2>1. RowsTyped'
    BY <1>0, <1>21
       DEF RemoveDestination, Done, Free, RowsTyped
  <2>2. DestsTyped'
    BY <1>0, <1>21
       DEF RemoveDestination, Done, Free, DestsTyped
  <2>3. DiskTyped'
    <3>1. o.g \in Group
      BY <1>0, <1>21 DEF RemoveDestination
    <3>2. Targets(dests'[o.g], groups') \in SUBSET Destination
      BY <2>2, <3>1 DEF DestsTyped, Targets
    <3> QED
      BY <1>0, <1>21, <3>2 DEF RemoveDestination, Project, DiskTyped
  <2>4. HostTyped'
    BY <1>0, <1>21
       DEF RemoveDestination, Done, Free, HostTyped
  <2>5. BoxTyped'
    BY <1>0, <1>21
       DEF RemoveDestination, Done, Free, BoxTyped,
           DiskTyped
  <2>6. RestTyped'
    BY <1>0, <1>21
       DEF RemoveDestination, Done, Free, RestTyped
  <2> QED
    BY <2>1, <2>2, <2>3, <2>4, <2>5, <2>6, TypeParts
<1>22. ASSUME NEW o \in todo, Wire(o) PROVE TypeOK'
  <2>1. RowsTyped'
    BY <1>0, <1>22 DEF Wire, Done, Free, SessionsOf, RowsTyped
  <2>2. DestsTyped'
    <3>1. CASE UNCHANGED dests
      BY <1>0, <3>1 DEF DestsTyped
    <3>2. ASSUME NEW n \in Name, Free(o.g, n),
                 dests' = [dests EXCEPT ![o.g] = @ \cup {[name |-> n, to |-> o.to]}]
          PROVE  DestsTyped'
      <4>1. o.g \in Group /\ [name |-> n, to |-> o.to] \in Destination
        BY <1>0, <1>22 DEF Wire, Destination
      <4>2. \A d \in dests[o.g] : d.name # n
        BY <3>2 DEF Free
      <4> QED
        BY <1>0, <3>2, <4>1, <4>2 DEF DestsTyped
    <3> QED
      BY <1>22, <3>1, <3>2 DEF Wire
  <2>3. DiskTyped'
    BY <1>0, <1>22 DEF Wire, Done, Free, SessionsOf, DiskTyped
  <2>4. HostTyped'
    BY <1>0, <1>22 DEF Wire, Done, Free, SessionsOf, HostTyped
  <2>5. BoxTyped'
    BY <1>0, <1>22 DEF Wire, Done, Free, SessionsOf, BoxTyped, DiskTyped
  <2>6. RestTyped'
    <3>1. stale' \subseteq Session
      BY <1>0, <1>22 DEF Wire, SessionsOf, RowsTyped, RestTyped
    <3> QED
      BY <1>0, <1>22, <3>1 DEF Wire, Done, RestTyped
  <2> QED
    BY <2>1, <2>2, <2>3, <2>4, <2>5, <2>6, TypeParts
<1>23. ASSUME NEW o \in todo, Greet(o) PROVE TypeOK'
  BY <1>0, <1>23, TypeParts
     DEF RowsTyped, DestsTyped, DiskTyped, HostTyped, BoxTyped, RestTyped, Greet,
         Done, NewSession
<1>25. ASSUME NEW s \in Session, NEW note \in BOOLEAN, RestartNext(s, note) PROVE TypeOK'
  BY <1>0, <1>25, TypeParts
     DEF RowsTyped, DestsTyped, DiskTyped, HostTyped, BoxTyped, RestTyped, RestartNext,
         Kill
<1>26. CASE Stopped
  BY <1>0, <1>26, TypeParts
     DEF RowsTyped, DestsTyped, DiskTyped, HostTyped, BoxTyped, RestTyped, Stopped,
         Gone, Fails
<1>27. ASSUME NEW o \in projecting, ProjectToSessions(o) PROVE TypeOK'
  BY <1>0, <1>27, TypeParts
     DEF RowsTyped, DestsTyped, DiskTyped, HostTyped, BoxTyped, RestTyped, 
         ProjectToSessions, Project, SessionsOf, Resolved, Targets, Fails
<1>24. CASE UNCHANGED groupVars
  BY <1>24 DEF TypeOK
<1> QED
  BY <1>1, <1>2, <1>3, <1>4, <1>5, <1>6, <1>7, <1>8, <1>9, <1>10, <1>11, <1>12, <1>13,
     <1>14, <1>15, <1>16, <1>17, <1>18, <1>19, <1>20, <1>21, <1>22, <1>23, <1>24,
     <1>25, <1>26, <1>27
     DEF GroupStep

\* Spawns and containers.
LEMMA SpawnsFitStep ==
  ASSUME TypeOK, SpawnsFit, [GroupStep]_groupVars
  PROVE  SpawnsFit'
<1> USE DEF TypeOK, SpawnsFit, groupVars, databaseVars, diskVars, hostVars,
            stopVars, boxVars, historyVars
<1>1. ASSUME NEW s \in Session, Wake(s) PROVE SpawnsFit'
  BY <1>1, AgentGroupsAssumption DEF Wake
<1>2. ASSUME NEW s \in Session, Materialize(s) PROVE SpawnsFit'
  BY <1>2 DEF Materialize, Resolved, Targets
<1>3. ASSUME NEW s \in Session, Run(s) PROVE SpawnsFit'
  BY <1>3 DEF Run
<1>4. ASSUME NEW s \in Session, SpawnFails(s) PROVE SpawnsFit'
  BY <1>4 DEF SpawnFails, Fails
<1>5. ASSUME NEW s \in Session, Boot(s) PROVE SpawnsFit'
  BY <1>5 DEF Boot
<1>6. ASSUME NEW s \in Session, FirstPoll(s) PROVE SpawnsFit'
  BY <1>6 DEF FirstPoll
<1>7. ASSUME NEW s \in Session, Heed(s) PROVE SpawnsFit'
  BY <1>7 DEF Heed
<1>8. ASSUME NEW s \in Session, Die(s) PROVE SpawnsFit'
  BY <1>8 DEF Die, Gone, Fails
<1>9. ASSUME NEW s \in Session, Close(s) PROVE SpawnsFit'
  BY <1>9 DEF Close
<1>10. CASE HostRestart
  BY <1>10 DEF HostRestart
<1>11. ASSUME NEW o \in todo, Install(o) PROVE SpawnsFit'
  <2>1. /\ o.s \in Session /\ o.s \in sessions
        /\ \A s \in Session : /\ s \in entry' <=> s \in entry
                              /\ spawn'[s] = spawn[s] /\ home'[s] = home[s]
                              /\ s # o.s => notes'[s] = notes[s]
    BY <1>11 DEF Install, Done, Announced, Planned, Kill, Build, Fails
  <2>2. \A s \in Session : (box'[s] = box[s] /\ held'[s] = held[s])
                           \/ (box'[s] = "none" /\ held'[s] = {})
    BY <1>11 DEF Install, Done, Announced, Planned, Kill, Build, Fails
  <2>3. home[o.s] # NoGroup
    BY <2>1, AgentGroupsAssumption
  <2> QED
    BY <2>1, <2>2, <2>3
<1>12. ASSUME NEW o \in todo, AddMcpServer(o) PROVE SpawnsFit'
  <2>1. /\ o.s \in Session /\ o.s \in sessions
        /\ \A s \in Session : /\ s \in entry' <=> s \in entry
                              /\ spawn'[s] = spawn[s] /\ home'[s] = home[s]
                              /\ s # o.s => notes'[s] = notes[s]
    BY <1>12 DEF AddMcpServer, Done, Announced, Planned, Kill
  <2>2. \A s \in Session : (box'[s] = box[s] /\ held'[s] = held[s])
                           \/ (box'[s] = "none" /\ held'[s] = {})
    BY <1>12 DEF AddMcpServer, Done, Announced, Planned, Kill
  <2>3. home[o.s] # NoGroup
    BY <2>1, AgentGroupsAssumption
  <2> QED
    BY <2>1, <2>2, <2>3
<1>13. ASSUME NEW o \in todo, Configure(o) PROVE SpawnsFit'
  BY <1>13 DEF Configure, Done
<1>14. ASSUME NEW o \in todo, Refused(o) PROVE SpawnsFit'
  BY <1>14 DEF Refused, Done
<1>15. ASSUME NEW o \in todo, RestartGroup(o) PROVE SpawnsFit'
  BY <1>15 DEF RestartGroup, Done, Restarted, SessionsOf, Build
<1>16. ASSUME NEW o \in todo, RebuildFails(o) PROVE SpawnsFit'
  BY <1>16 DEF RebuildFails, Done, Fails
<1>17. ASSUME NEW o \in todo, CreateAgent(o) PROVE SpawnsFit'
  BY <1>17 DEF CreateAgent, Done, Fails, Free, Fresh, ProjectCaller, SessionsOf, Targets
<1>18. ASSUME NEW o \in todo, CreateGroup(o) PROVE SpawnsFit'
  BY <1>18 DEF CreateGroup, Done, Fresh
<1>19. ASSUME NEW o \in todo, DeleteGroup(o) PROVE SpawnsFit'
  BY <1>19 DEF DeleteGroup, Done, SessionsOf
<1>20. ASSUME NEW o \in todo, AddDestination(o) PROVE SpawnsFit'
  BY <1>20 DEF AddDestination, Done, Free
<1>21. ASSUME NEW o \in todo, RemoveDestination(o) PROVE SpawnsFit'
  BY <1>21 DEF RemoveDestination, Done, Free
<1>22. ASSUME NEW o \in todo, Wire(o) PROVE SpawnsFit'
  BY <1>22 DEF Wire, Done, Free, SessionsOf
<1>23. ASSUME NEW o \in todo, Greet(o) PROVE SpawnsFit'
  BY <1>23 DEF Greet, Done, NewSession
<1>25. ASSUME NEW s \in Session, NEW note \in BOOLEAN, RestartNext(s, note)
       PROVE  SpawnsFit'
  BY <1>25 DEF RestartNext, Kill
<1>26. CASE Stopped
  BY <1>26 DEF Stopped, Gone
<1>27. ASSUME NEW o \in projecting, ProjectToSessions(o) PROVE SpawnsFit'
  BY <1>27 DEF ProjectToSessions, Project, SessionsOf, Fails
<1>24. CASE UNCHANGED groupVars
  BY <1>24
<1> QED
  BY <1>1, <1>2, <1>3, <1>4, <1>5, <1>6, <1>7, <1>8, <1>9, <1>10, <1>11, <1>12, <1>13,
     <1>14, <1>15, <1>16, <1>17, <1>18, <1>19, <1>20, <1>21, <1>22, <1>23, <1>24,
     <1>25, <1>26, <1>27
     DEF GroupStep

\* Groups without a config row.
LEMMA BareUnlistedStep ==
  ASSUME TypeOK, SpawnsFit, Told, [GroupStep]_groupVars
  PROVE  BareUnlisted'
<1> USE AgentGroupsAssumption, Operations
        DEF TypeOK, Item, Note, SpawnsFit, Told, BareUnlisted, NotesListed,
            SpawnKnows, BoxKnows, NoteTrue, groupVars, databaseVars, diskVars,
            hostVars, stopVars, boxVars, historyVars
<1>1. ASSUME NEW s \in Session, Wake(s) PROVE BareUnlisted'
  BY <1>1 DEF Wake
<1>2. ASSUME NEW s \in Session, Materialize(s) PROVE BareUnlisted'
  BY <1>2 DEF Materialize, Resolved, Targets
<1>3. ASSUME NEW s \in Session, Run(s) PROVE BareUnlisted'
  BY <1>3 DEF Run
<1>4. ASSUME NEW s \in Session, SpawnFails(s) PROVE BareUnlisted'
  BY <1>4 DEF SpawnFails, Fails
<1>5. ASSUME NEW s \in Session, Boot(s) PROVE BareUnlisted'
  BY <1>5 DEF Boot
<1>6. ASSUME NEW s \in Session, FirstPoll(s) PROVE BareUnlisted'
  BY <1>6 DEF FirstPoll
<1>7. ASSUME NEW s \in Session, Heed(s) PROVE BareUnlisted'
  BY <1>7 DEF Heed
<1>8. ASSUME NEW s \in Session, Die(s) PROVE BareUnlisted'
  BY <1>8 DEF Die, Gone, Fails
<1>9. ASSUME NEW s \in Session, Close(s) PROVE BareUnlisted'
  BY <1>9 DEF Close
<1>10. CASE HostRestart
  BY <1>10 DEF HostRestart
<1>11. ASSUME NEW o \in todo, Install(o) PROVE BareUnlisted'
  BY <1>11 DEF Install, Done, Announced, Planned, Kill, Build, Fails
<1>12. ASSUME NEW o \in todo, AddMcpServer(o) PROVE BareUnlisted'
  BY <1>12 DEF AddMcpServer, Done, Announced, Planned, Kill
<1>13. ASSUME NEW o \in todo, Configure(o) PROVE BareUnlisted'
  BY <1>13 DEF Configure, Done
<1>14. ASSUME NEW o \in todo, Refused(o) PROVE BareUnlisted'
  BY <1>14 DEF Refused, Done
<1>15. ASSUME NEW o \in todo, RestartGroup(o) PROVE BareUnlisted'
  BY <1>15 DEF RestartGroup, Done, Restarted, SessionsOf, Build
<1>16. ASSUME NEW o \in todo, RebuildFails(o) PROVE BareUnlisted'
  BY <1>16 DEF RebuildFails, Done, Fails
<1>17. ASSUME NEW o \in todo, CreateAgent(o) PROVE BareUnlisted'
  BY <1>17 DEF CreateAgent, Done, Fails, Free, Fresh, ProjectCaller, SessionsOf, Targets
<1>18. ASSUME NEW o \in todo, CreateGroup(o) PROVE BareUnlisted'
  BY <1>18 DEF CreateGroup, Done, Fresh
<1>19. ASSUME NEW o \in todo, DeleteGroup(o) PROVE BareUnlisted'
  BY <1>19 DEF DeleteGroup, Done, SessionsOf
<1>20. ASSUME NEW o \in todo, AddDestination(o) PROVE BareUnlisted'
  BY <1>20 DEF AddDestination, Done, Free
<1>21. ASSUME NEW o \in todo, RemoveDestination(o) PROVE BareUnlisted'
  BY <1>21 DEF RemoveDestination, Done, Free
<1>22. ASSUME NEW o \in todo, Wire(o) PROVE BareUnlisted'
  BY <1>22 DEF Wire, Done, Free, SessionsOf
<1>23. ASSUME NEW o \in todo, Greet(o) PROVE BareUnlisted'
  BY <1>23 DEF Greet, Done, NewSession
<1>25. ASSUME NEW s \in Session, NEW note \in BOOLEAN, RestartNext(s, note)
       PROVE  BareUnlisted'
  BY <1>25 DEF RestartNext, Kill
<1>26. CASE Stopped
  BY <1>26 DEF Stopped, Gone
<1>27. ASSUME NEW o \in projecting, ProjectToSessions(o) PROVE BareUnlisted'
  BY <1>27 DEF ProjectToSessions, Project, SessionsOf, Fails
<1>24. CASE UNCHANGED groupVars
  BY <1>24
<1> QED
  BY <1>1, <1>2, <1>3, <1>4, <1>5, <1>6, <1>7, <1>8, <1>9, <1>10, <1>11, <1>12, <1>13,
     <1>14, <1>15, <1>16, <1>17, <1>18, <1>19, <1>20, <1>21, <1>22, <1>23, <1>24,
     <1>25, <1>26, <1>27
     DEF GroupStep

\* Notes and the database.
LEMMA NotesListedStep ==
  ASSUME TypeOK, SpawnsFit, Told, [GroupStep]_groupVars
  PROVE  NotesListed'
<1> USE AgentGroupsAssumption, Operations
        DEF TypeOK, Item, Note, SpawnsFit, Told, BareUnlisted, NotesListed,
            SpawnKnows, BoxKnows, NoteTrue, groupVars, databaseVars, diskVars,
            hostVars, stopVars, boxVars, historyVars
<1>1. ASSUME NEW s \in Session, Wake(s) PROVE NotesListed'
  BY <1>1 DEF Wake
<1>2. ASSUME NEW s \in Session, Materialize(s) PROVE NotesListed'
  BY <1>2 DEF Materialize, Resolved, Targets
<1>3. ASSUME NEW s \in Session, Run(s) PROVE NotesListed'
  BY <1>3 DEF Run
<1>4. ASSUME NEW s \in Session, SpawnFails(s) PROVE NotesListed'
  BY <1>4 DEF SpawnFails, Fails
<1>5. ASSUME NEW s \in Session, Boot(s) PROVE NotesListed'
  BY <1>5 DEF Boot
<1>6. ASSUME NEW s \in Session, FirstPoll(s) PROVE NotesListed'
  BY <1>6 DEF FirstPoll
<1>7. ASSUME NEW s \in Session, Heed(s) PROVE NotesListed'
  BY <1>7 DEF Heed
<1>8. ASSUME NEW s \in Session, Die(s) PROVE NotesListed'
  BY <1>8 DEF Die, Gone, Fails
<1>9. ASSUME NEW s \in Session, Close(s) PROVE NotesListed'
  BY <1>9 DEF Close
<1>10. CASE HostRestart
  BY <1>10 DEF HostRestart
<1>11. ASSUME NEW o \in todo, Install(o) PROVE NotesListed'
  <2>1. /\ o.s \in Session /\ o.x \in Package /\ home[o.s] \in Group
        /\ UNCHANGED <<home, sessions, spawn, tagged, json>>
        /\ listed' = [listed EXCEPT ![home[o.s]] = @ \cup {o.x}]
    BY <1>11 DEF Install
  <2>2. CASE Build(home[o.s], listed[home[o.s]] \cup {o.x}) /\ Announced(o.s, o.x)
    BY <2>1, <2>2 DEF Build, Announced, Planned
  <2>3. CASE UNCHANGED <<built, image, notes, overtaken>>
    BY <2>1, <2>3
  <2> QED
    BY <1>11, <2>2, <2>3 DEF Install
<1>12. ASSUME NEW o \in todo, AddMcpServer(o) PROVE NotesListed'
  BY <1>12 DEF AddMcpServer, Done, Announced, Planned, Kill
<1>13. ASSUME NEW o \in todo, Configure(o) PROVE NotesListed'
  BY <1>13 DEF Configure, Done
<1>14. ASSUME NEW o \in todo, Refused(o) PROVE NotesListed'
  BY <1>14 DEF Refused, Done
<1>15. ASSUME NEW o \in todo, RestartGroup(o) PROVE NotesListed'
  BY <1>15 DEF RestartGroup, Done, Restarted, SessionsOf, Build
<1>16. ASSUME NEW o \in todo, RebuildFails(o) PROVE NotesListed'
  BY <1>16 DEF RebuildFails, Done, Fails
<1>17. ASSUME NEW o \in todo, CreateAgent(o) PROVE NotesListed'
  BY <1>17 DEF CreateAgent, Done, Fails, Free, Fresh, ProjectCaller, SessionsOf, Targets
<1>18. ASSUME NEW o \in todo, CreateGroup(o) PROVE NotesListed'
  BY <1>18 DEF CreateGroup, Done, Fresh
<1>19. ASSUME NEW o \in todo, DeleteGroup(o) PROVE NotesListed'
  BY <1>19 DEF DeleteGroup, Done, SessionsOf
<1>20. ASSUME NEW o \in todo, AddDestination(o) PROVE NotesListed'
  BY <1>20 DEF AddDestination, Done, Free
<1>21. ASSUME NEW o \in todo, RemoveDestination(o) PROVE NotesListed'
  BY <1>21 DEF RemoveDestination, Done, Free
<1>22. ASSUME NEW o \in todo, Wire(o) PROVE NotesListed'
  BY <1>22 DEF Wire, Done, Free, SessionsOf
<1>23. ASSUME NEW o \in todo, Greet(o) PROVE NotesListed'
  BY <1>23 DEF Greet, Done, NewSession
<1>25. ASSUME NEW s \in Session, NEW note \in BOOLEAN, RestartNext(s, note)
       PROVE  NotesListed'
  BY <1>25 DEF RestartNext, Kill
<1>26. CASE Stopped
  BY <1>26 DEF Stopped, Gone
<1>27. ASSUME NEW o \in projecting, ProjectToSessions(o) PROVE NotesListed'
  BY <1>27 DEF ProjectToSessions, Project, SessionsOf, Fails
<1>24. CASE UNCHANGED groupVars
  BY <1>24
<1> QED
  BY <1>1, <1>2, <1>3, <1>4, <1>5, <1>6, <1>7, <1>8, <1>9, <1>10, <1>11, <1>12, <1>13,
     <1>14, <1>15, <1>16, <1>17, <1>18, <1>19, <1>20, <1>21, <1>22, <1>23, <1>24,
     <1>25, <1>26, <1>27
     DEF GroupStep

\* Notes and spawns.
LEMMA SpawnKnowsStep ==
  ASSUME TypeOK, SpawnsFit, Told, [GroupStep]_groupVars
  PROVE  SpawnKnows'
<1> USE AgentGroupsAssumption, Operations
        DEF TypeOK, Item, Note, SpawnsFit, Told, BareUnlisted, NotesListed,
            SpawnKnows, BoxKnows, NoteTrue, groupVars, databaseVars, diskVars,
            hostVars, stopVars, boxVars, historyVars
<1>1. ASSUME NEW s \in Session, Wake(s) PROVE SpawnKnows'
  BY <1>1 DEF Wake
<1>2. ASSUME NEW s \in Session, Materialize(s) PROVE SpawnKnows'
  <2>1. /\ home[s] \in Group /\ UNCHANGED <<home, sessions, listed, notes>>
        /\ UNCHANGED <<overtaken, built>>
        /\ \A r \in Session \ {s} : spawn'[r] = spawn[r] /\ tagged'[r] = tagged[r]
        /\ \A g \in Group : json'[g] = json[g] \/ json'[g] = listed[g] \cap Server
    BY <1>2 DEF Materialize
  <2>2. spawn'[s] = "gateway" =>
          tagged'[s] = (home[s] \in built) /\ json'[home[s]] = listed[home[s]] \cap Server
    BY <1>2, <2>1 DEF Materialize
  <2> SUFFICES ASSUME NEW r \in sessions, spawn'[r] = "gateway"
               PROVE  /\ ~tagged'[r] => notes[r] \cap Package \subseteq overtaken[r]
                      /\ notes[r] \cap Server \subseteq json'[home[r]] \cup overtaken[r]
    BY <2>1
  <2>3. notes[r] \cap Server \subseteq listed[home[r]] \cup overtaken[r]
    OBVIOUS
  <2>4. CASE r = s
    BY <2>2, <2>3, <2>4
  <2>5. CASE r # s
    BY <2>1, <2>3, <2>5
  <2> QED
    BY <2>4, <2>5
<1>3. ASSUME NEW s \in Session, Run(s) PROVE SpawnKnows'
  BY <1>3 DEF Run
<1>4. ASSUME NEW s \in Session, SpawnFails(s) PROVE SpawnKnows'
  BY <1>4 DEF SpawnFails, Fails
<1>5. ASSUME NEW s \in Session, Boot(s) PROVE SpawnKnows'
  BY <1>5 DEF Boot
<1>6. ASSUME NEW s \in Session, FirstPoll(s) PROVE SpawnKnows'
  BY <1>6 DEF FirstPoll
<1>7. ASSUME NEW s \in Session, Heed(s) PROVE SpawnKnows'
  BY <1>7 DEF Heed
<1>8. ASSUME NEW s \in Session, Die(s) PROVE SpawnKnows'
  BY <1>8 DEF Die, Gone, Fails
<1>9. ASSUME NEW s \in Session, Close(s) PROVE SpawnKnows'
  BY <1>9 DEF Close
<1>10. CASE HostRestart
  BY <1>10 DEF HostRestart
<1>11. ASSUME NEW o \in todo, Install(o) PROVE SpawnKnows'
  <2>1. /\ o.s \in Session /\ o.x \in Package /\ home[o.s] \in Group
        /\ UNCHANGED <<home, sessions, spawn, tagged, json>>
        /\ listed' = [listed EXCEPT ![home[o.s]] = @ \cup {o.x}]
    BY <1>11 DEF Install
  <2>2. CASE Build(home[o.s], listed[home[o.s]] \cup {o.x}) /\ Announced(o.s, o.x)
    BY <2>1, <2>2 DEF Build, Announced, Planned
  <2>3. CASE UNCHANGED <<built, image, notes, overtaken>>
    BY <2>1, <2>3
  <2> QED
    BY <1>11, <2>2, <2>3 DEF Install
<1>12. ASSUME NEW o \in todo, AddMcpServer(o) PROVE SpawnKnows'
  BY <1>12 DEF AddMcpServer, Done, Announced, Planned, Kill
<1>13. ASSUME NEW o \in todo, Configure(o) PROVE SpawnKnows'
  BY <1>13 DEF Configure, Done
<1>14. ASSUME NEW o \in todo, Refused(o) PROVE SpawnKnows'
  BY <1>14 DEF Refused, Done
<1>15. ASSUME NEW o \in todo, RestartGroup(o) PROVE SpawnKnows'
  BY <1>15 DEF RestartGroup, Done, Restarted, SessionsOf, Build
<1>16. ASSUME NEW o \in todo, RebuildFails(o) PROVE SpawnKnows'
  BY <1>16 DEF RebuildFails, Done, Fails
<1>17. ASSUME NEW o \in todo, CreateAgent(o) PROVE SpawnKnows'
  BY <1>17 DEF CreateAgent, Done, Fails, Free, Fresh, ProjectCaller, SessionsOf, Targets
<1>18. ASSUME NEW o \in todo, CreateGroup(o) PROVE SpawnKnows'
  BY <1>18 DEF CreateGroup, Done, Fresh
<1>19. ASSUME NEW o \in todo, DeleteGroup(o) PROVE SpawnKnows'
  BY <1>19 DEF DeleteGroup, Done, SessionsOf
<1>20. ASSUME NEW o \in todo, AddDestination(o) PROVE SpawnKnows'
  BY <1>20 DEF AddDestination, Done, Free
<1>21. ASSUME NEW o \in todo, RemoveDestination(o) PROVE SpawnKnows'
  BY <1>21 DEF RemoveDestination, Done, Free
<1>22. ASSUME NEW o \in todo, Wire(o) PROVE SpawnKnows'
  BY <1>22 DEF Wire, Done, Free, SessionsOf
<1>23. ASSUME NEW o \in todo, Greet(o) PROVE SpawnKnows'
  BY <1>23 DEF Greet, Done, NewSession
<1>25. ASSUME NEW s \in Session, NEW note \in BOOLEAN, RestartNext(s, note)
       PROVE  SpawnKnows'
  BY <1>25 DEF RestartNext, Kill
<1>26. CASE Stopped
  BY <1>26 DEF Stopped, Gone
<1>27. ASSUME NEW o \in projecting, ProjectToSessions(o) PROVE SpawnKnows'
  BY <1>27 DEF ProjectToSessions, Project, SessionsOf, Fails
<1>24. CASE UNCHANGED groupVars
  BY <1>24
<1> QED
  BY <1>1, <1>2, <1>3, <1>4, <1>5, <1>6, <1>7, <1>8, <1>9, <1>10, <1>11, <1>12, <1>13,
     <1>14, <1>15, <1>16, <1>17, <1>18, <1>19, <1>20, <1>21, <1>22, <1>23, <1>24,
     <1>25, <1>26, <1>27
     DEF GroupStep

\* Notes and containers.
LEMMA BoxKnowsStep ==
  ASSUME TypeOK, SpawnsFit, Told, [GroupStep]_groupVars
  PROVE  BoxKnows'
<1> USE AgentGroupsAssumption, Operations
        DEF TypeOK, Item, Note, SpawnsFit, Told, BareUnlisted, NotesListed,
            SpawnKnows, BoxKnows, NoteTrue, groupVars, databaseVars, diskVars,
            hostVars, stopVars, boxVars, historyVars
<1>1. ASSUME NEW s \in Session, Wake(s) PROVE BoxKnows'
  BY <1>1 DEF Wake
<1>2. ASSUME NEW s \in Session, Materialize(s) PROVE BoxKnows'
  BY <1>2 DEF Materialize, Resolved, Targets
<1>3. ASSUME NEW s \in Session, Run(s) PROVE BoxKnows'
  BY <1>3 DEF Run
<1>4. ASSUME NEW s \in Session, SpawnFails(s) PROVE BoxKnows'
  BY <1>4 DEF SpawnFails, Fails
<1>5. ASSUME NEW s \in Session, Boot(s) PROVE BoxKnows'
  BY <1>5 DEF Boot
<1>6. ASSUME NEW s \in Session, FirstPoll(s) PROVE BoxKnows'
  BY <1>6 DEF FirstPoll
<1>7. ASSUME NEW s \in Session, Heed(s) PROVE BoxKnows'
  BY <1>7 DEF Heed
<1>8. ASSUME NEW s \in Session, Die(s) PROVE BoxKnows'
  BY <1>8 DEF Die, Gone, Fails
<1>9. ASSUME NEW s \in Session, Close(s) PROVE BoxKnows'
  BY <1>9 DEF Close
<1>10. CASE HostRestart
  BY <1>10 DEF HostRestart
<1>11. ASSUME NEW o \in todo, Install(o) PROVE BoxKnows'
  <2>1. /\ o.s \in Session /\ o.x \in Package /\ UNCHANGED <<home, sessions, entry>>
        /\ UNCHANGED <<box, has, held, json>>
    BY <1>11 DEF Install
  <2>2. stopping \notin Session
    BY <1>11 DEF Install, Done, HostIdle, NoSession, Session
  <2>3. CASE Announced(o.s, o.x)
    BY <2>1, <2>2, <2>3 DEF Announced, Planned, Kill
  <2>4. CASE UNCHANGED <<notes, overtaken, stopping>>
    BY <2>1, <2>4
  <2> QED
    BY <1>11, <2>3, <2>4 DEF Install
<1>12. ASSUME NEW o \in todo, AddMcpServer(o) PROVE BoxKnows'
  <2>1. /\ o.s \in Session /\ o.x \in Server /\ UNCHANGED <<home, sessions, entry>>
        /\ UNCHANGED <<box, has, held, json>> /\ Announced(o.s, o.x)
    BY <1>12 DEF AddMcpServer
  <2>2. stopping \notin Session
    BY <1>12 DEF AddMcpServer, Done, HostIdle, NoSession, Session
  <2> QED
    BY <2>1, <2>2 DEF Announced, Planned, Kill
<1>13. ASSUME NEW o \in todo, Configure(o) PROVE BoxKnows'
  BY <1>13 DEF Configure, Done
<1>14. ASSUME NEW o \in todo, Refused(o) PROVE BoxKnows'
  BY <1>14 DEF Refused, Done
<1>15. ASSUME NEW o \in todo, RestartGroup(o) PROVE BoxKnows'
  BY <1>15 DEF RestartGroup, Done, Restarted, SessionsOf, Build
<1>16. ASSUME NEW o \in todo, RebuildFails(o) PROVE BoxKnows'
  BY <1>16 DEF RebuildFails, Done, Fails
<1>17. ASSUME NEW o \in todo, CreateAgent(o) PROVE BoxKnows'
  BY <1>17 DEF CreateAgent, Done, Fails, Free, Fresh, ProjectCaller, SessionsOf, Targets
<1>18. ASSUME NEW o \in todo, CreateGroup(o) PROVE BoxKnows'
  BY <1>18 DEF CreateGroup, Done, Fresh
<1>19. ASSUME NEW o \in todo, DeleteGroup(o) PROVE BoxKnows'
  BY <1>19 DEF DeleteGroup, Done, SessionsOf
<1>20. ASSUME NEW o \in todo, AddDestination(o) PROVE BoxKnows'
  BY <1>20 DEF AddDestination, Done, Free
<1>21. ASSUME NEW o \in todo, RemoveDestination(o) PROVE BoxKnows'
  BY <1>21 DEF RemoveDestination, Done, Free
<1>22. ASSUME NEW o \in todo, Wire(o) PROVE BoxKnows'
  BY <1>22 DEF Wire, Done, Free, SessionsOf
<1>23. ASSUME NEW o \in todo, Greet(o) PROVE BoxKnows'
  BY <1>23 DEF Greet, Done, NewSession
<1>25. ASSUME NEW s \in Session, NEW note \in BOOLEAN, RestartNext(s, note)
       PROVE  BoxKnows'
  BY <1>25 DEF RestartNext, Kill, NoSession, Session
<1>26. CASE Stopped
  BY <1>26 DEF Stopped, Gone
<1>27. ASSUME NEW o \in projecting, ProjectToSessions(o) PROVE BoxKnows'
  BY <1>27 DEF ProjectToSessions, Project, SessionsOf, Fails
<1>24. CASE UNCHANGED groupVars
  BY <1>24
<1> QED
  BY <1>1, <1>2, <1>3, <1>4, <1>5, <1>6, <1>7, <1>8, <1>9, <1>10, <1>11, <1>12, <1>13,
     <1>14, <1>15, <1>16, <1>17, <1>18, <1>19, <1>20, <1>21, <1>22, <1>23, <1>24,
     <1>25, <1>26, <1>27
     DEF GroupStep

\* Notes and first polls.
LEMMA NoteTrueStep ==
  ASSUME TypeOK, SpawnsFit, Told, [GroupStep]_groupVars
  PROVE  NoteTrue'
<1> USE AgentGroupsAssumption, Operations
        DEF TypeOK, Item, Note, SpawnsFit, Told, BareUnlisted, NotesListed,
            SpawnKnows, BoxKnows, NoteTrue, groupVars, databaseVars, diskVars,
            hostVars, stopVars, boxVars, historyVars
<1>1. ASSUME NEW s \in Session, Wake(s) PROVE NoteTrue'
  BY <1>1 DEF Wake
<1>2. ASSUME NEW s \in Session, Materialize(s) PROVE NoteTrue'
  BY <1>2 DEF Materialize, Resolved, Targets
<1>3. ASSUME NEW s \in Session, Run(s) PROVE NoteTrue'
  BY <1>3 DEF Run
<1>4. ASSUME NEW s \in Session, SpawnFails(s) PROVE NoteTrue'
  BY <1>4 DEF SpawnFails, Fails
<1>5. ASSUME NEW s \in Session, Boot(s) PROVE NoteTrue'
  BY <1>5 DEF Boot
<1>6. ASSUME NEW s \in Session, FirstPoll(s) PROVE NoteTrue'
  BY <1>6 DEF FirstPoll
<1>7. ASSUME NEW s \in Session, Heed(s) PROVE NoteTrue'
  BY <1>7 DEF Heed
<1>8. ASSUME NEW s \in Session, Die(s) PROVE NoteTrue'
  BY <1>8 DEF Die, Gone, Fails
<1>9. ASSUME NEW s \in Session, Close(s) PROVE NoteTrue'
  BY <1>9 DEF Close
<1>10. CASE HostRestart
  BY <1>10 DEF HostRestart
<1>11. ASSUME NEW o \in todo, Install(o) PROVE NoteTrue'
  <2>1. /\ o.s \in Session /\ o.x \in Package /\ UNCHANGED <<home, sessions, entry>>
        /\ UNCHANGED <<box, has, held, json>>
    BY <1>11 DEF Install
  <2>2. stopping \notin Session
    BY <1>11 DEF Install, Done, HostIdle, NoSession, Session
  <2>3. CASE Announced(o.s, o.x)
    BY <2>1, <2>2, <2>3 DEF Announced, Planned, Kill
  <2>4. CASE UNCHANGED <<notes, overtaken, stopping>>
    BY <2>1, <2>4
  <2> QED
    BY <1>11, <2>3, <2>4 DEF Install
<1>12. ASSUME NEW o \in todo, AddMcpServer(o) PROVE NoteTrue'
  <2>1. /\ o.s \in Session /\ o.x \in Server /\ UNCHANGED <<home, sessions, entry>>
        /\ UNCHANGED <<box, has, held, json>> /\ Announced(o.s, o.x)
    BY <1>12 DEF AddMcpServer
  <2>2. stopping \notin Session
    BY <1>12 DEF AddMcpServer, Done, HostIdle, NoSession, Session
  <2> QED
    BY <2>1, <2>2 DEF Announced, Planned, Kill
<1>13. ASSUME NEW o \in todo, Configure(o) PROVE NoteTrue'
  BY <1>13 DEF Configure, Done
<1>14. ASSUME NEW o \in todo, Refused(o) PROVE NoteTrue'
  BY <1>14 DEF Refused, Done
<1>15. ASSUME NEW o \in todo, RestartGroup(o) PROVE NoteTrue'
  BY <1>15 DEF RestartGroup, Done, Restarted, SessionsOf, Build
<1>16. ASSUME NEW o \in todo, RebuildFails(o) PROVE NoteTrue'
  BY <1>16 DEF RebuildFails, Done, Fails
<1>17. ASSUME NEW o \in todo, CreateAgent(o) PROVE NoteTrue'
  BY <1>17 DEF CreateAgent, Done, Fails, Free, Fresh, ProjectCaller, SessionsOf, Targets
<1>18. ASSUME NEW o \in todo, CreateGroup(o) PROVE NoteTrue'
  BY <1>18 DEF CreateGroup, Done, Fresh
<1>19. ASSUME NEW o \in todo, DeleteGroup(o) PROVE NoteTrue'
  BY <1>19 DEF DeleteGroup, Done, SessionsOf
<1>20. ASSUME NEW o \in todo, AddDestination(o) PROVE NoteTrue'
  BY <1>20 DEF AddDestination, Done, Free
<1>21. ASSUME NEW o \in todo, RemoveDestination(o) PROVE NoteTrue'
  BY <1>21 DEF RemoveDestination, Done, Free
<1>22. ASSUME NEW o \in todo, Wire(o) PROVE NoteTrue'
  BY <1>22 DEF Wire, Done, Free, SessionsOf
<1>23. ASSUME NEW o \in todo, Greet(o) PROVE NoteTrue'
  BY <1>23 DEF Greet, Done, NewSession
<1>25. ASSUME NEW s \in Session, NEW note \in BOOLEAN, RestartNext(s, note)
       PROVE  NoteTrue'
  BY <1>25 DEF RestartNext, Kill, NoSession, Session
<1>26. CASE Stopped
  BY <1>26 DEF Stopped, Gone
<1>27. ASSUME NEW o \in projecting, ProjectToSessions(o) PROVE NoteTrue'
  BY <1>27 DEF ProjectToSessions, Project, SessionsOf, Fails
<1>24. CASE UNCHANGED groupVars
  BY <1>24
<1> QED
  BY <1>1, <1>2, <1>3, <1>4, <1>5, <1>6, <1>7, <1>8, <1>9, <1>10, <1>11, <1>12, <1>13,
     <1>14, <1>15, <1>16, <1>17, <1>18, <1>19, <1>20, <1>21, <1>22, <1>23, <1>24,
     <1>25, <1>26, <1>27
     DEF GroupStep

\* Destinations and their projections.
LEMMA ProjectionStep ==
  ASSUME TypeOK, SpawnsFit, ProjectionCurrent, [GroupStep]_groupVars
  PROVE  ProjectionCurrent'
<1> USE AgentGroupsAssumption, Operations
        DEF TypeOK, SpawnsFit, ProjectionCurrent, Resolved, Targets, groupVars,
            databaseVars, diskVars, hostVars, stopVars, boxVars, historyVars
<1>1. ASSUME NEW s \in Session, Wake(s) PROVE ProjectionCurrent'
  BY <1>1 DEF Wake
<1>2. ASSUME NEW s \in Session, Materialize(s) PROVE ProjectionCurrent'
  BY <1>2 DEF Materialize, Resolved, Targets
<1>3. ASSUME NEW s \in Session, Run(s) PROVE ProjectionCurrent'
  BY <1>3 DEF Run
<1>4. ASSUME NEW s \in Session, SpawnFails(s) PROVE ProjectionCurrent'
  BY <1>4 DEF SpawnFails, Fails
<1>5. ASSUME NEW s \in Session, Boot(s) PROVE ProjectionCurrent'
  BY <1>5 DEF Boot
<1>6. ASSUME NEW s \in Session, FirstPoll(s) PROVE ProjectionCurrent'
  BY <1>6 DEF FirstPoll
<1>7. ASSUME NEW s \in Session, Heed(s) PROVE ProjectionCurrent'
  BY <1>7 DEF Heed
<1>8. ASSUME NEW s \in Session, Die(s) PROVE ProjectionCurrent'
  BY <1>8 DEF Die, Gone, Fails
<1>9. ASSUME NEW s \in Session, Close(s) PROVE ProjectionCurrent'
  BY <1>9 DEF Close
<1>10. CASE HostRestart
  BY <1>10 DEF HostRestart
<1>11. ASSUME NEW o \in todo, Install(o) PROVE ProjectionCurrent'
  BY <1>11 DEF Install, Done, Announced, Planned, Kill, Build, Fails
<1>12. ASSUME NEW o \in todo, AddMcpServer(o) PROVE ProjectionCurrent'
  BY <1>12 DEF AddMcpServer, Done, Announced, Planned, Kill
<1>13. ASSUME NEW o \in todo, Configure(o) PROVE ProjectionCurrent'
  BY <1>13 DEF Configure, Done
<1>14. ASSUME NEW o \in todo, Refused(o) PROVE ProjectionCurrent'
  BY <1>14 DEF Refused, Done
<1>15. ASSUME NEW o \in todo, RestartGroup(o) PROVE ProjectionCurrent'
  BY <1>15 DEF RestartGroup, Done, Restarted, SessionsOf, Build
<1>16. ASSUME NEW o \in todo, RebuildFails(o) PROVE ProjectionCurrent'
  BY <1>16 DEF RebuildFails, Done, Fails
<1>17. ASSUME NEW o \in todo, CreateAgent(o) PROVE ProjectionCurrent'
  <2>1. /\ o.s \in sessions /\ o.g \in Group /\ Fresh(o.g) /\ groups' = groups \cup {o.g}
        /\ UNCHANGED <<sessions, home, entry, spawn>>
        /\ dests' = [dests EXCEPT
                       ![home[o.s]] = @ \cup {[name |-> o.name, to |-> o.g]},
                       ![o.g] = {[name |-> Parent, to |-> home[o.s]]}]
        /\ \/ /\ proj' = [proj EXCEPT ![o.s] = Targets(dests'[home[o.s]], groups')]
              /\ stale' = (stale \cup SessionsOf(home[o.s])) \ {o.s}
           \/ UNCHANGED proj /\ stale' = stale \cup SessionsOf(home[o.s])
        /\ UNCHANGED projecting
    BY <1>17 DEF CreateAgent, ProjectCaller
  <2> SUFFICES ASSUME NEW r \in sessions \ stale', r \in entry \/ spawn[r] = "gateway"
               PROVE  proj'[r] = Resolved(home[r])' \/ \E p \in projecting : p.g = home[r]
    BY <2>1 DEF ProjectionCurrent
  <2>2. Resolved(home[r])' = Targets(dests'[home[r]], groups')
    BY <2>1 DEF Resolved
  <2>3. CASE r = o.s
    BY <2>1, <2>2, <2>3 DEF SessionsOf
  <2>4. CASE r # o.s
    <3>1. home[r] # home[o.s] /\ home[r] # o.g /\ home[r] \in Group /\ r \notin stale
      BY <2>1, <2>4 DEF SessionsOf, Fresh
    <3>2. dests'[home[r]] = dests[home[r]] /\ proj'[r] = proj[r]
      BY <2>1, <2>4, <3>1
    <3>3. Targets(dests[home[r]], groups') = Targets(dests[home[r]], groups)
      BY <2>1, <3>1 DEF Fresh
    <3> QED
      BY <2>2, <3>1, <3>2, <3>3
  <2> QED
    BY <2>3, <2>4
<1>18. ASSUME NEW o \in todo, CreateGroup(o) PROVE ProjectionCurrent'
  BY <1>18 DEF CreateGroup, Done, Fresh
<1>19. ASSUME NEW o \in todo, DeleteGroup(o) PROVE ProjectionCurrent'
  BY <1>19 DEF DeleteGroup, Done, SessionsOf
<1>20. ASSUME NEW o \in todo, AddDestination(o) PROVE ProjectionCurrent'
  BY <1>20 DEF AddDestination, Done, Free
<1>21. ASSUME NEW o \in todo, RemoveDestination(o) PROVE ProjectionCurrent'
  BY <1>21 DEF RemoveDestination, Done, Free
<1>22. ASSUME NEW o \in todo, Wire(o) PROVE ProjectionCurrent'
  BY <1>22 DEF Wire, Done, Free, SessionsOf
<1>23. ASSUME NEW o \in todo, Greet(o) PROVE ProjectionCurrent'
  BY <1>23 DEF Greet, Done, NewSession
<1>25. ASSUME NEW s \in Session, NEW note \in BOOLEAN, RestartNext(s, note)
       PROVE  ProjectionCurrent'
  BY <1>25 DEF RestartNext, Kill
<1>26. CASE Stopped
  BY <1>26 DEF Stopped, Gone
<1>27. ASSUME NEW o \in projecting, ProjectToSessions(o) PROVE ProjectionCurrent'
  BY <1>27 DEF ProjectToSessions, Project, SessionsOf, Fails
<1>24. CASE UNCHANGED groupVars
  BY <1>24
<1> QED
  BY <1>1, <1>2, <1>3, <1>4, <1>5, <1>6, <1>7, <1>8, <1>9, <1>10, <1>11, <1>12, <1>13,
     <1>14, <1>15, <1>16, <1>17, <1>18, <1>19, <1>20, <1>21, <1>22, <1>23, <1>24,
     <1>25, <1>26, <1>27
     DEF GroupStep

\* Every step of the groups keeps the invariant.
LEMMA GroupInvStep ==
  ASSUME GroupInv, [GroupStep]_groupVars
  PROVE  GroupInv'
<1>1. TypeOK' /\ SpawnsFit'
  BY TypeStep, SpawnsFitStep DEF GroupInv
<1>2. Told'
  BY BareUnlistedStep, NotesListedStep, SpawnKnowsStep, BoxKnowsStep, NoteTrueStep
     DEF GroupInv, Told
<1>3. ProjectionCurrent'
  BY ProjectionStep DEF GroupInv
<1> QED
  BY <1>1, <1>2, <1>3 DEF GroupInv

\* It holds at the outset.
LEMMA GroupInvInit == Init => GroupInv
<1> SUFFICES ASSUME Init PROVE GroupInv
  OBVIOUS
<1> USE AgentGroupsAssumption DEF Init
<1>1. /\ home \in [Session -> Group \cup {NoGroup}]
      /\ \A s \in Session : home[s] \in groups => s \in Founding[home[s]]
      /\ \A s \in Session, g \in groups : s \in Founding[g] => home[s] \in groups
  OBVIOUS
<1>2. sessions = {s \in Session : home[s] \in groups}
  BY <1>1
<1>3. /\ todo \subseteq Operation /\ restarts \in Nat /\ failures \in Nat
      /\ dests \in [Group -> SUBSET Destination]
  OBVIOUS
<1>4. TypeOK
  BY <1>1, <1>2, <1>3 DEF TypeOK
<1>5. SpawnsFit /\ Told /\ ProjectionCurrent
  BY <1>4 DEF TypeOK, SpawnsFit, Told, BareUnlisted, NotesListed, SpawnKnows, BoxKnows,
     NoteTrue, ProjectionCurrent
<1> QED
  BY <1>4, <1>5 DEF GroupInv

\* A session that is created is none that anything was known of.
LEMMA GroupInvNew ==
  ASSUME GroupInv, NEW g \in groups, NEW s \in Session, NewSession(g, s),
         UNCHANGED <<groups, configs, listed, built, image, dests, diskVars, hostVars,
                     boxVars, historyVars, todo, restarts, failures>>
  PROVE  GroupInv'
<1> USE AgentGroupsAssumption
        DEF GroupInv, NewSession, diskVars, hostVars, stopVars, boxVars, historyVars
<1>1. TypeOK'
  BY DEF TypeOK
<1>2. /\ home[s] = NoGroup /\ s \notin entry /\ spawn[s] = "none" /\ notes[s] = {}
      /\ box[s] = "none" /\ held[s] = {}
  BY DEF SpawnsFit, TypeOK
<1>3. /\ \A r \in Session \ {s} : home'[r] = home[r]
      /\ home'[s] = g /\ sessions' = sessions \cup {s}
  BY DEF TypeOK
<1>4. SpawnsFit'
  BY <1>2, <1>3 DEF SpawnsFit, TypeOK
<1>5. BareUnlisted' /\ NotesListed' /\ SpawnKnows' /\ BoxKnows' /\ NoteTrue'
  BY <1>2, <1>3
     DEF TypeOK, Told, BareUnlisted, NotesListed, SpawnKnows, BoxKnows, NoteTrue
<1>6. ProjectionCurrent'
  BY <1>2, <1>3 DEF TypeOK, ProjectionCurrent, Resolved, Targets
<1> QED
  BY <1>1, <1>4, <1>5, <1>6 DEF Told

\* A container takes its turns until it is gone; a session keeps its group.
TurnKept(r) ==
  /\ box[r] \in {"first", "running"} => box'[r] \in {"none", "first", "running"}
  /\ home[r] # NoGroup => home'[r] = home[r]

LEMMA TurnsGoOn ==
  ASSUME TypeOK, SpawnsFit, [GroupStep]_groupVars
  PROVE  \A r \in Session : TurnKept(r)
<1> USE AgentGroupsAssumption
        DEF TypeOK, SpawnsFit, TurnKept, groupVars, databaseVars, diskVars,
            hostVars, stopVars, boxVars, historyVars
<1>1. ASSUME NEW s \in Session, Wake(s) PROVE \A r \in Session : TurnKept(r)
  BY <1>1 DEF Wake
<1>2. ASSUME NEW s \in Session, Materialize(s) PROVE \A r \in Session : TurnKept(r)
  BY <1>2 DEF Materialize, Resolved, Targets
<1>3. ASSUME NEW s \in Session, Run(s) PROVE \A r \in Session : TurnKept(r)
  BY <1>3 DEF Run
<1>4. ASSUME NEW s \in Session, SpawnFails(s) PROVE \A r \in Session : TurnKept(r)
  BY <1>4 DEF SpawnFails, Fails
<1>5. ASSUME NEW s \in Session, Boot(s) PROVE \A r \in Session : TurnKept(r)
  BY <1>5 DEF Boot
<1>6. ASSUME NEW s \in Session, FirstPoll(s) PROVE \A r \in Session : TurnKept(r)
  BY <1>6 DEF FirstPoll
<1>7. ASSUME NEW s \in Session, Heed(s) PROVE \A r \in Session : TurnKept(r)
  BY <1>7 DEF Heed
<1>8. ASSUME NEW s \in Session, Die(s) PROVE \A r \in Session : TurnKept(r)
  BY <1>8 DEF Die, Gone, Fails
<1>9. ASSUME NEW s \in Session, Close(s) PROVE \A r \in Session : TurnKept(r)
  BY <1>9 DEF Close
<1>10. CASE HostRestart
  BY <1>10 DEF HostRestart
<1>11. ASSUME NEW o \in todo, Install(o) PROVE \A r \in Session : TurnKept(r)
  BY <1>11 DEF Install, Done, Announced, Planned, Kill, Build, Fails
<1>12. ASSUME NEW o \in todo, AddMcpServer(o) PROVE \A r \in Session : TurnKept(r)
  BY <1>12 DEF AddMcpServer, Done, Announced, Planned, Kill
<1>13. ASSUME NEW o \in todo, Configure(o) PROVE \A r \in Session : TurnKept(r)
  BY <1>13 DEF Configure, Done
<1>14. ASSUME NEW o \in todo, Refused(o) PROVE \A r \in Session : TurnKept(r)
  BY <1>14 DEF Refused, Done
<1>15. ASSUME NEW o \in todo, RestartGroup(o) PROVE \A r \in Session : TurnKept(r)
  BY <1>15 DEF RestartGroup, Done, Restarted, SessionsOf, Build
<1>16. ASSUME NEW o \in todo, RebuildFails(o) PROVE \A r \in Session : TurnKept(r)
  BY <1>16 DEF RebuildFails, Done, Fails
<1>17. ASSUME NEW o \in todo, CreateAgent(o) PROVE \A r \in Session : TurnKept(r)
  BY <1>17 DEF CreateAgent, Done, Fails, Free, Fresh, ProjectCaller, SessionsOf, Targets
<1>18. ASSUME NEW o \in todo, CreateGroup(o) PROVE \A r \in Session : TurnKept(r)
  BY <1>18 DEF CreateGroup, Done, Fresh
<1>19. ASSUME NEW o \in todo, DeleteGroup(o) PROVE \A r \in Session : TurnKept(r)
  BY <1>19 DEF DeleteGroup, Done, SessionsOf
<1>20. ASSUME NEW o \in todo, AddDestination(o) PROVE \A r \in Session : TurnKept(r)
  BY <1>20 DEF AddDestination, Done, Free
<1>21. ASSUME NEW o \in todo, RemoveDestination(o) PROVE \A r \in Session : TurnKept(r)
  BY <1>21 DEF RemoveDestination, Done, Free
<1>22. ASSUME NEW o \in todo, Wire(o) PROVE \A r \in Session : TurnKept(r)
  BY <1>22 DEF Wire, Done, Free, SessionsOf
<1>23. ASSUME NEW o \in todo, Greet(o) PROVE \A r \in Session : TurnKept(r)
  BY <1>23 DEF Greet, Done, NewSession
<1>25. ASSUME NEW s \in Session, NEW note \in BOOLEAN, RestartNext(s, note)
       PROVE  \A r \in Session : TurnKept(r)
  BY <1>25 DEF RestartNext, Kill
<1>26. CASE Stopped
  BY <1>26 DEF Stopped, Gone
<1>27. ASSUME NEW o \in projecting, ProjectToSessions(o)
       PROVE  \A r \in Session : TurnKept(r)
  BY <1>27 DEF ProjectToSessions, Project, SessionsOf, Fails
<1>24. CASE UNCHANGED groupVars
  BY <1>24
<1> QED
  BY <1>1, <1>2, <1>3, <1>4, <1>5, <1>6, <1>7, <1>8, <1>9, <1>10, <1>11, <1>12, <1>13,
     <1>14, <1>15, <1>16, <1>17, <1>18, <1>19, <1>20, <1>21, <1>22, <1>23, <1>24,
     <1>25, <1>26, <1>27
     DEF GroupStep

-----------------------------------------------------------------------------
(* The mail.                                                               *)

\* What becomes of the mail while the groups take a step.
LEMMA MailAmid ==
  ASSUME Inv, Amid(GroupStep)
  PROVE  Inv'
<1>1. GroupInv'
  BY GroupInvStep DEF Inv, Amid
<1>2. \A s \in Session : TurnKept(s)
  BY TurnsGoOn DEF Inv, GroupInv, Amid
<1>3. MailTypeOK'
  BY <1>1, <1>2 DEF Inv, GroupInv, MailTypeOK, Amid, TurnKept
<1>4. RowsAreSigned'
  BY <1>2, AgentGroupsAssumption DEF Inv, RowsAreSigned, Amid, TurnKept
<1>5. RepliesFit'
  BY DEF Inv, RepliesFit, Amid, From
<1> QED
  BY <1>1, <1>3, <1>4, <1>5 DEF Inv

\* The groups are left alone.
LEMMA GroupsAlone ==
  ASSUME GroupInv, UNCHANGED groupVars
  PROVE  GroupInv'
  BY GroupInvStep

\* A row is appended to the inbox of t.
LEMMA Appended ==
  ASSUME Inv, NEW t \in Session, NEW r \in Row,
         inbox' = [inbox EXCEPT ![t] = Append(@, r)]
  PROVE  /\ inbox' \in [Session -> Seq(Row)]
         /\ \A s \in Session : /\ Len(inbox[s]) <= Len(inbox'[s])
                               /\ \A i \in 1 .. Len(inbox[s]) : inbox'[s][i] = inbox[s][i]
                               /\ \A i \in 1 .. Len(inbox'[s]) :
                                    i <= Len(inbox[s]) \/ inbox'[s][i] = r
         /\ \A m \in outbox :
              m.by \in Session /\ From(m.by, m.to) \subseteq From(m.by, m.to)'
<1>1. /\ inbox'[t] \in Seq(Row) /\ Len(inbox'[t]) = Len(inbox[t]) + 1
      /\ \A i \in 1 .. Len(inbox[t]) : inbox'[t][i] = inbox[t][i]
      /\ inbox'[t][Len(inbox[t]) + 1] = r
  BY DEF Inv, MailTypeOK
<1>2. \A s \in Session \ {t} : inbox'[s] = inbox[s]
  BY DEF Inv, MailTypeOK
<1>3. inbox' \in [Session -> Seq(Row)]
  BY <1>1 DEF Inv, MailTypeOK
<1>4. \A s \in Session : /\ Len(inbox[s]) <= Len(inbox'[s])
                         /\ \A i \in 1 .. Len(inbox[s]) : inbox'[s][i] = inbox[s][i]
                         /\ \A i \in 1 .. Len(inbox'[s]) :
                              i <= Len(inbox[s]) \/ inbox'[s][i] = r
  BY <1>1, <1>2 DEF Inv, MailTypeOK
<1>5. \A m \in outbox : m.by \in Session /\ m.to \in Group
  BY DEF Inv, MailTypeOK, Mail
<1>6. \A s \in Session : \A g \in Group : From(s, g) \subseteq From(s, g)'
  BY <1>3, <1>4 DEF From, Inv, MailTypeOK
<1> QED
  BY <1>3, <1>4, <1>5, <1>6

\* The rows of an inbox are signed still.
LEMMA SignedOn ==
  ASSUME Inv, NEW t \in Session, NEW r \in Row,
         inbox' = [inbox EXCEPT ![t] = Append(@, r)],
         \A s \in Session : home[s] # NoGroup => home'[s] = home[s],
         r.from \in Group => r.src \in Session /\ home[r.src] = r.from
  PROVE  RowsAreSigned'
<1> SUFFICES ASSUME NEW s \in Session, NEW i \in 1 .. Len(inbox'[s]),
                    inbox'[s][i].from \in Group
             PROVE  /\ inbox'[s][i].src \in Session
                    /\ home'[inbox'[s][i].src] = inbox'[s][i].from
  BY DEF RowsAreSigned
<1>1. CASE i <= Len(inbox[s])
  <2>1. i \in 1 .. Len(inbox[s]) /\ inbox'[s][i] = inbox[s][i]
    BY <1>1, Appended DEF Inv, MailTypeOK
  <2> QED
    BY <2>1, AgentGroupsAssumption DEF Inv, RowsAreSigned
<1>2. CASE inbox'[s][i] = r
  BY <1>2, AgentGroupsAssumption
<1> QED
  BY <1>1, <1>2, Appended

\* So fit the replies.
LEMMA RepliesFitOn ==
  ASSUME Inv, NEW t \in Session, NEW r \in Row,
         inbox' = [inbox EXCEPT ![t] = Append(@, r)],
         outbox' \subseteq outbox
  PROVE  RepliesFit'
<1> SUFFICES ASSUME NEW m \in outbox
             PROVE  /\ m.ref <= Len(inbox'[m.by]) /\ m.about \in 1 .. Len(inbox'[m.by])
                    /\ m.about \in From(m.by, m.to)' =>
                         m.ref = 0 \/ (m.ref \in From(m.by, m.to)' /\ m.ref >= m.about)
  BY DEF RepliesFit, From
<1>1. /\ m.by \in Session /\ m.ref \in Nat /\ m.ref <= Len(inbox[m.by])
      /\ m.about \in 1 .. Len(inbox[m.by])
      /\ Len(inbox[m.by]) \in Nat /\ Len(inbox'[m.by]) \in Nat
  BY Appended DEF Inv, MailTypeOK, Mail, RepliesFit
<1>2. Len(inbox[m.by]) <= Len(inbox'[m.by])
  BY <1>1, Appended
<1>3. inbox'[m.by][m.about] = inbox[m.by][m.about]
  BY <1>1, Appended
<1>4. m.about \in From(m.by, m.to)' => m.about \in From(m.by, m.to)
  BY <1>1, <1>3 DEF From
<1>5. From(m.by, m.to) \subseteq From(m.by, m.to)'
  BY Appended
<1> QED
  BY <1>1, <1>2, <1>4, <1>5 DEF Inv, RepliesFit

\* A chat message.
LEMMA ChatStep ==
  ASSUME Inv, NEW o \in todo, Chat(o)
  PROVE  Inv'
<1>1. o.s \in Session /\ [from |-> "chat", src |-> NoSession] \in Row
  BY Operations DEF Inv, MailTypeOK, TypeOK, Chat, Row
<1>2. /\ inbox' = [inbox EXCEPT ![o.s] = Append(@, [from |-> "chat", src |-> NoSession])]
      /\ UNCHANGED <<databaseVars, diskVars, hostVars, boxVars, historyVars, restarts,
                     failures, taken, turn, outbox, written>>
      /\ todo' \subseteq todo
  BY DEF Chat, Done
<1>3. GroupInv'
  BY <1>2 DEF Inv, GroupInv, TypeOK, SpawnsFit, Told, BareUnlisted, NotesListed,
     SpawnKnows, BoxKnows, NoteTrue, ProjectionCurrent, Resolved, databaseVars, diskVars,
     hostVars, stopVars, boxVars, historyVars
<1>4. MailTypeOK'
  BY <1>1, <1>2, <1>3, Appended DEF GroupInv, Inv, MailTypeOK, boxVars
<1>5. RowsAreSigned'
  BY <1>1, <1>2, SignedOn, AgentMailAssumption DEF databaseVars
<1>6. RepliesFit'
  BY <1>1, <1>2, RepliesFitOn
<1> QED
  BY <1>3, <1>4, <1>5, <1>6 DEF Inv

\* A message to another agent is routed.
LEMMA RouteStep ==
  ASSUME Inv, NEW m \in outbox, NEW t \in Session, Route(m, t)
  PROVE  Inv'
<1> DEFINE r == [from |-> home[m.by], src |-> m.by]
<1>1. /\ m.by \in sessions /\ home[m.by] \in groups /\ r \in Row /\ m.to \in groups
  BY DEF Route, MayReach, Inv, MailTypeOK, TypeOK, Row
<1>2. /\ inbox' = [inbox EXCEPT ![t] = Append(@, r)]
      /\ UNCHANGED <<groups, configs, listed, built, image, dests, diskVars, hostVars,
                     boxVars, historyVars, todo, restarts, failures, taken, turn,
                     written>>
      /\ outbox' \subseteq outbox
      /\ UNCHANGED <<home, sessions>> \/ NewSession(m.to, t)
  BY DEF Route
<1>3. GroupInv'
  <2>1. CASE UNCHANGED <<home, sessions>>
    BY <1>2, <2>1, GroupsAlone DEF Inv, groupVars, databaseVars
  <2>2. CASE NewSession(m.to, t)
    BY <1>1, <1>2, <2>2, GroupInvNew DEF Inv
  <2> QED
    BY <1>2, <2>1, <2>2
<1>4. \A s \in Session : home[s] # NoGroup => home'[s] = home[s]
  BY <1>2 DEF NewSession, Inv, MailTypeOK, TypeOK
<1> HIDE DEF r
<1>5. MailTypeOK'
  BY <1>1, <1>2, <1>3, Appended DEF GroupInv, Inv, MailTypeOK, boxVars
<1>6. RowsAreSigned'
  <2>1. r.from = home[m.by] /\ r.src = m.by
    BY DEF r
  <2> QED
    BY <1>1, <1>2, <1>4, <2>1, SignedOn DEF Inv, MailTypeOK, TypeOK
<1>7. RepliesFit'
  BY <1>1, <1>2, RepliesFitOn
<1> QED
  BY <1>3, <1>5, <1>6, <1>7 DEF Inv

-----------------------------------------------------------------------------
(* The latest row.                                                         *)

\* A set of numbers has a least one.
LEMMA Least ==
  ASSUME NEW T \in SUBSET Nat, T # {}
  PROVE  \E x \in T : \A y \in T : x <= y
<1> DEFINE R == OpToRel(<, Nat)
<1>1. IsWellFoundedOn(R, Nat)
  BY NatLessThanWellFounded
<1>2. \A x, y \in Nat : y < x => <<y, x>> \in R
  BY DEF OpToRel
<1> HIDE DEF R
<1>3. PICK x \in T : \A y \in T : ~(<<y, x>> \in R)
  BY <1>1, WFMin
<1>4. \A y \in T : ~(y < x)
  BY <1>2, <1>3
<1>5. \A y \in T : x <= y
  BY <1>4
<1> QED
  BY <1>5

\* So a set of rows of one inbox has a last one.
LEMMA LatestIsLast ==
  ASSUME NEW n \in Nat, NEW T \in SUBSET (1 .. n), T # {}
  PROVE  Latest(T) \in T /\ \A y \in T : y <= Latest(T)
<1> DEFINE M == {n - i : i \in T}
<1>1. M # {} /\ M \in SUBSET Nat
  <2>1. PICK i \in T : TRUE
    OBVIOUS
  <2>2. n - i \in M
    OBVIOUS
  <2>3. \A j \in T : n - j \in Nat
    OBVIOUS
  <2> QED
    BY <2>2, <2>3
<1>2. PICK d \in M : \A e \in M : d <= e
  BY <1>1, Least
<1>3. PICK x \in T : d = n - x
  OBVIOUS
<1>4. \A y \in T : n - x <= n - y
  BY <1>2, <1>3
<1>5. \A y \in T : y <= x
  BY <1>4
<1> QED
  BY <1>5 DEF Latest

\* An agent writes to a group.
LEMMA WriteStep ==
  ASSUME Inv, NEW s \in Session, NEW g \in Group, NEW i \in 1 .. MaxMail + 1,
         SendByTool(s, g, i) \/ SendByBlock(s, g, i)
  PROVE  Inv'
<1>1. PICK ref \in {0, ReplyTo(s, g)} : Writes(s, g, ref, i)
  BY DEF SendByTool, SendByBlock
<1>2. /\ turn[s] # 0 /\ written' = written + 1 /\ written < MaxMail
      /\ outbox' = outbox \cup {[by |-> s, to |-> g, ref |-> ref, about |-> i]}
      /\ i \in taken[s] + 1 .. turn[s]
      /\ UNCHANGED <<groupVars, inbox, taken, turn>>
  BY <1>1 DEF Writes
<1>3. From(s, g) # {} => /\ ReplyTo(s, g) \in From(s, g)
                         /\ \A j \in From(s, g) : j <= ReplyTo(s, g)
  <2>1. Len(inbox[s]) \in Nat /\ From(s, g) \in SUBSET (1 .. Len(inbox[s]))
    BY DEF From, Inv, MailTypeOK
  <2> QED
    BY <2>1, LatestIsLast DEF ReplyTo
<1>4. ref \in Nat /\ ref <= Len(inbox[s])
  BY <1>2, <1>3, AgentMailAssumption DEF ReplyTo, From, Inv, MailTypeOK
<1>5. GroupInv'
  BY <1>2, GroupsAlone DEF Inv
<1>6. i \in 1 .. Len(inbox[s])
  BY <1>2 DEF Inv, MailTypeOK
<1>7. MailTypeOK'
  <2>1. [by |-> s, to |-> g, ref |-> ref, about |-> i] \in Mail
    BY <1>4, <1>6, AgentMailAssumption DEF Mail
  <2>2. TypeOK' /\ UNCHANGED <<inbox, taken, turn, box>>
    BY <1>2, <1>5 DEF GroupInv, groupVars, boxVars
  <2>3. written' \in 0 .. MaxMail
    BY <1>2, AgentMailAssumption DEF Inv, MailTypeOK
  <2> QED
    BY <1>2, <2>1, <2>2, <2>3 DEF Inv, MailTypeOK
<1>8. RowsAreSigned'
  BY <1>2 DEF Inv, RowsAreSigned, groupVars, databaseVars
<1>9. RepliesFit'
  <2>1. i \in From(s, g) => ref = 0 \/ (ref \in From(s, g) /\ ref >= i)
    BY <1>3 DEF From
  <2>2. \A m \in outbox' : m \in outbox \/
          m = [by |-> s, to |-> g, ref |-> ref, about |-> i]
    BY <1>2
  <2>3. inbox' = inbox /\ \A r \in Session, h \in Group : From(r, h)' = From(r, h)
    BY <1>2 DEF From
  <2> SUFFICES ASSUME NEW m \in outbox'
               PROVE  /\ m.ref <= Len(inbox[m.by]) /\ m.about \in 1 .. Len(inbox[m.by])
                      /\ m.about \in From(m.by, m.to)' =>
                           m.ref = 0 \/ (m.ref \in From(m.by, m.to)' /\ m.ref >= m.about)
    BY <2>3 DEF RepliesFit, From
  <2>4. CASE m \in outbox
    <3>1. m.by \in Session /\ m.to \in Group
      BY <2>4 DEF Inv, MailTypeOK, Mail
    <3> QED
      BY <2>3, <2>4, <3>1 DEF Inv, RepliesFit
  <2>5. CASE m \notin outbox
    <3>1. m.by = s /\ m.to = g /\ m.ref = ref /\ m.about = i
      BY <2>2, <2>5
    <3> QED
      BY <1>4, <1>6, <2>1, <2>3, <3>1
  <2> QED
    BY <2>4, <2>5
<1> QED
  BY <1>5, <1>7, <1>8, <1>9 DEF Inv

\* Turns, and what cannot be delivered.
LEMMA QuietStep ==
  ASSUME Inv,
         \/ \E s \in Session : TakeBatch(s) \/ EndTurn(s)
         \/ \E m \in outbox : Unroutable(m)
         \/ UNCHANGED vars
  PROVE  Inv'
<1>1. UNCHANGED <<groupVars, inbox, written>> /\ outbox' \subseteq outbox
  BY DEF TakeBatch, EndTurn, Unroutable, vars, mailVars
<1>2. GroupInv'
  BY <1>1, GroupsAlone DEF Inv
<1>3. MailTypeOK'
  <2>1. TypeOK' /\ box' = box /\ inbox' = inbox
    BY <1>1, <1>2 DEF GroupInv, groupVars, boxVars
  <2>2. CASE UNCHANGED <<taken, turn>>
    BY <1>1, <2>1, <2>2 DEF Inv, MailTypeOK
  <2>3. ASSUME NEW s \in Session, TakeBatch(s) PROVE MailTypeOK'
    BY <1>1, <2>1, <2>3 DEF TakeBatch, Inv, MailTypeOK
  <2>4. ASSUME NEW s \in Session, EndTurn(s) PROVE MailTypeOK'
    BY <1>1, <2>1, <2>4 DEF EndTurn, Inv, MailTypeOK
  <2> QED
    BY <2>2, <2>3, <2>4 DEF Unroutable, vars, mailVars
<1>4. RowsAreSigned' /\ RepliesFit'
  BY <1>1 DEF Inv, RowsAreSigned, RepliesFit, From, groupVars, databaseVars
<1> QED
  BY <1>2, <1>3, <1>4 DEF Inv

\* The initial states.
LEMMA InvInit == MailInit => Inv
<1> SUFFICES ASSUME MailInit PROVE Inv
  OBVIOUS
<1>1. GroupInv
  BY GroupInvInit DEF MailInit
<1>2. MailTypeOK
  BY <1>1, AgentMailAssumption DEF MailInit, MailTypeOK, GroupInv
<1> QED
  BY <1>1, <1>2 DEF MailInit, Inv, RowsAreSigned, RepliesFit

\* All steps.
LEMMA InvStep ==
  ASSUME Inv, [Next]_vars
  PROVE  Inv'
  BY MailAmid, ChatStep, RouteStep, WriteStep, QuietStep DEF Next

\* The invariant.
LEMMA Invariance == Spec => []Inv
  BY InvInit, InvStep, PTL DEF Spec

\* Where an answer goes.
LEMMA BackToAsker ==
  ASSUME Inv, NEW m \in outbox, NEW t \in Session, Route(m, t)
  PROVE  LET rows == From(m.by, m.to) IN
         /\ m.ref \in rows => t = inbox[m.by][m.ref].src
         /\ m.about \in rows =>
              \E i \in rows : i >= m.about /\ t = inbox[m.by][i].src
<1> DEFINE rows == From(m.by, m.to)
<1>1. /\ m.by \in Session /\ m.to \in Group /\ m.to \in groups /\ m.ref \in Nat
      /\ m.about \in Nat /\ Len(inbox[m.by]) \in Nat
      /\ rows \in SUBSET (1 .. Len(inbox[m.by]))
      /\ m.about \in rows => m.ref = 0 \/ (m.ref \in rows /\ m.ref >= m.about)
  BY DEF Inv, MailTypeOK, Mail, RepliesFit, Route, MayReach, From
<1>2. \A i \in rows : /\ inbox[m.by][i].src \in SessionsOf(m.to)
                     /\ inbox[m.by][i].src # NoSession
  <2> SUFFICES ASSUME NEW i \in rows
               PROVE  /\ inbox[m.by][i].src \in SessionsOf(m.to)
                      /\ inbox[m.by][i].src # NoSession
    OBVIOUS
  <2>1. inbox[m.by][i].src \in Session /\ home[inbox[m.by][i].src] = m.to
    BY <1>1 DEF Inv, RowsAreSigned, From
  <2>2. 0 \notin Session
    BY AgentGroupsAssumption DEF Session
  <2> QED
    BY <1>1, <2>1, <2>2 DEF Inv, MailTypeOK, TypeOK, SessionsOf, NoSession
<1>3. ASSUME m.ref \in rows PROVE t = inbox[m.by][m.ref].src
  <2>1. m.ref # 0
    BY <1>1, <1>3
  <2>2. Origin(m) = inbox[m.by][m.ref].src
    BY <1>2, <1>3, <2>1 DEF Origin
  <2> QED
    BY <1>2, <1>3, <2>2 DEF Route
<1>4. ASSUME m.about \in rows, m.ref = 0
      PROVE  \E i \in rows : i >= m.about /\ t = inbox[m.by][i].src
  <2>1. Latest(rows) \in rows /\ Latest(rows) >= m.about
    BY <1>1, <1>4, LatestIsLast
  <2>2. Origin(m) = inbox[m.by][Latest(rows)].src
    BY <1>4 DEF Origin
  <2> QED
    BY <1>2, <2>1, <2>2 DEF Route
<1> QED
  BY <1>1, <1>3, <1>4

-----------------------------------------------------------------------------
(* The theorems.                                                           *)

\* Groups, containers and mail keep their types: a projection names each
\* destination once, a turn is one of a container that polls.
THEOREM TypeCorrect == Spec => []MailTypeOK
<1>1. Inv => MailTypeOK
  BY DEF Inv
<1> QED
  BY <1>1, Invariance, PTL

\* However changes of the destinations (ncl, wiring, create_agent, deletion)
\* fall between the steps of spawns, a container finds the destinations its
\* group has, but while a command is between change and projection, where the
\* projection failed, and for the code that does not project.
THEOREM DestinationsAreCurrent == Spec => []ProjectionCurrent
<1>1. Inv => ProjectionCurrent
  BY DEF Inv, GroupInv
<1> QED
  BY <1>1, Invariance, PTL

\* However many installs, restarts, deaths and failed builds: a container has
\* what the on_wake note it reads says it has, unless its spawn was planned
\* before the change or it is being stopped.
THEOREM NotesAreTrue == Spec => []NoteTrue
<1>1. Inv => NoteTrue
  BY DEF Inv, GroupInv, Told
<1> QED
  BY <1>1, Invariance, PTL

\* A reply lands in the session of the row it names; whichever way an answer was
\* written, it lands in the session that asked or one that wrote after it.
THEOREM RepliesGoBack == Spec => GoesToAsker
<1>1. Inv /\ [Next]_vars =>
        [\A m \in outbox, t \in Session :
           m \notin outbox' /\ inbox'[t] # inbox[t] =>
             LET rows == From(m.by, m.to) IN
             /\ m.ref \in rows => t = inbox[m.by][m.ref].src
             /\ m.about \in rows =>
                  \E i \in rows : i >= m.about /\ t = inbox[m.by][i].src]_vars
  <2> SUFFICES ASSUME Inv, [Next]_vars, NEW m \in outbox, NEW t \in Session,
                      m \notin outbox', inbox'[t] # inbox[t]
               PROVE  LET rows == From(m.by, m.to) IN
                      /\ m.ref \in rows => t = inbox[m.by][m.ref].src
                      /\ m.about \in rows =>
                           \E i \in rows : i >= m.about /\ t = inbox[m.by][i].src
    OBVIOUS
  <2>1. ~UNCHANGED vars /\ ~UNCHANGED outbox /\ ~UNCHANGED inbox
    BY DEF vars, mailVars
  <2>2. PICK n \in outbox, r \in Session : Route(n, r)
    BY <2>1 DEF Next, Amid, TakeBatch, EndTurn, SendByTool, SendByBlock, Writes, Chat,
       Unroutable
  <2>3. n = m
    BY <2>2 DEF Route
  <2>4. t = r
    BY <2>2 DEF Route, Inv, MailTypeOK
  <2> QED
    BY <2>2, <2>3, <2>4, BackToAsker
<1> QED
  BY <1>1, Invariance, PTL DEF Spec, GoesToAsker
===============================================================================
