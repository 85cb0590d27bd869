----------------------------- MODULE MCRouting -----------------------------
(***************************************************************************)
(* Two agents wired to a threaded group, a group nobody knows yet, and the *)
(* owner's DM, wired to the session agent 1 shares over its chats; and a   *)
(* public hall, where ncl changes the policy or a wiring meanwhile.        *)
(***************************************************************************)
EXTENDS Routing, TLC

MCAgent == {1, 2, 3}
MCFirstAgents == {1, 2}
MCDmOf == ("owner" :> "dm")
MCEvent == {"hello", "again", "clear", "help", "knock", "ring", "reply", "blank", "speech"}
MCSenderOf == [e \in MCEvent |-> CASE e \in {"reply", "blank"} -> "owner" [] e = "ring" -> "nobody"
                                   [] OTHER -> "stranger"]
MCChatOf == [e \in MCEvent |-> CASE e \in {"knock", "ring"} -> "lobby" [] e \in {"reply", "blank"} -> "dm"
                                 [] e = "speech" -> "hall" [] OTHER -> "team"]
MCWorkload == {{"hello", "again"}, {"knock", "reply"}, {"clear"}, {"help"}, {"knock", "blank"},
               {"ring", "reply"}, {"speech"}}
MCThreadOf == [e \in MCEvent |-> IF e \in {"reply", "blank"} THEN 0 ELSE 1]
MCPolicy == ("team" :> "request_approval" @@ "dm" :> "strict" @@ "hall" :> "public"
             @@ "lobby" :> "unknown")
MCWiring ==
  [c \in {"team", "lobby", "dm", "hall"} |-> [a \in MCAgent |->
     CASE c = "team" /\ a = 2 -> [mode |-> "sticky", known |-> TRUE, keep |-> TRUE,
                                  session |-> "shared"]
       [] c = "team" /\ a = 1 -> [mode |-> "pattern", known |-> FALSE, keep |-> FALSE,
                                  session |-> "shared"]
       [] c = "dm" /\ a = 1 -> [mode |-> "always", known |-> FALSE, keep |-> FALSE,
                                session |-> "agent-shared"]
       [] c = "hall" /\ a # 3 -> [mode |-> "always", known |-> FALSE, keep |-> FALSE,
                                  session |-> "shared"]
       [] OTHER -> Unwired]]
MCRewirings ==
  {<<"hall", 1, [mode |-> "always", known |-> TRUE, keep |-> FALSE, session |-> "shared"]>>,
   <<"team", 1, Unwired>>}
MCRepolicies == {<<"hall", "strict">>}
=============================================================================
