----------------------------- MODULE MCAgentMail -----------------------------
(***************************************************************************)
(* Two groups, the first with two sessions; a third group may be created.  *)
(* Each behaviour sees one of the small sets of operations below.          *)
(***************************************************************************)
EXTENDS AgentMail

MCFounding == [g \in {"main", "side"} |-> IF g = "main" THEN {1, 2} ELSE {}]

MCKnown == [g \in Group |-> CASE g = "main" -> {[name |-> "aide", to |-> "side"]}
                              [] g = "side" -> {[name |-> "boss", to |-> "main"]}
                              [] OTHER -> {}]

InstallPackage == [op |-> "install", s |-> 1, x |-> "ffmpeg"]
AddServer == [op |-> "server", s |-> 1, x |-> "search"]
AddServer2 == [op |-> "server", s |-> 2, x |-> "search"]
AddPackage == [op |-> "add", g |-> "main", x |-> "ffmpeg"]
RemoveServer == [op |-> "remove", g |-> "main", x |-> "search"]
Rebuild == [op |-> "restart", g |-> "main", rebuild |-> TRUE, note |-> TRUE]
Stop == [op |-> "restart", g |-> "main", rebuild |-> FALSE, note |-> FALSE]
Child == [op |-> "child", s |-> 1, g |-> "kid", name |-> "helper"]
Create == [op |-> "create", g |-> "kid"]
GreetKid == [op |-> "greet", g |-> "kid"]
Delete == [op |-> "delete", g |-> "side"]
Helper == [op |-> "dest", g |-> "main", name |-> "helper", to |-> "room"]
NoAide == [op |-> "undest", g |-> "main", name |-> "aide"]
Chat1 == [op |-> "chat", s |-> 1]
Chat2 == [op |-> "chat", s |-> 2]
Room == [op |-> "wire", g |-> "main", name |-> "aide", to |-> "room"]

Faults(ops, r, f) == [ops |-> ops, restarts |-> r, failures |-> f]

MCWorkload ==
  {Faults(ops, 1, 1) : ops \in {{InstallPackage, AddServer2}, {AddServer, RemoveServer},
                               {AddPackage, Rebuild}, {Child, Helper},
                               {Create, GreetKid}, {Delete, NoAide}, {Room, Helper},
                               {Stop}}}
  \cup {Faults({Chat1, Chat2}, 0, 0), Faults({Chat1}, 0, 1),
         Faults({Chat1, NoAide}, 0, 0)}
=============================================================================
