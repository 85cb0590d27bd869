------------------------------ MODULE AgentMail ------------------------------
(***************************************************************************)
(* Messages between agents (modules/agent-to-agent/agent-route.ts).  An    *)
(* agent writes a message to a group, by its local name; the host checks   *)
(* that the group may, and picks the session of the target group that gets *)
(* it: for a reply the session that asked, found through the row replied   *)
(* to, else the session whose message came last, else the newest session.  *)
(* The agents live in the groups, sessions and containers of AgentGroups,  *)
(* whose every step goes on in between.                                    *)
(*                                                                         *)
(* The tools run in an MCP server, a process of its own                    *)
(* (mcp-tools/index.ts), where the current batch the poll loop sets is     *)
(* never set: what send_message writes replies to nothing.                 *)
(***************************************************************************)
EXTENDS AgentGroups, Sequences

CONSTANT MaxMail \* bound on messages between agents

ASSUME AgentMailAssumption == MaxMail \in Nat /\ "chat" \notin Group

VARIABLES
  inbox, \* messages_in, as rows [from |-> group or "chat", src |-> session]
  taken, \* how many rows of it the container has completed
  turn,  \* rows of the turn under way: 0, or the last row of its batch
  outbox, \* messages_out not delivered yet
  written \* how many messages between agents were written

mailVars == <<inbox, taken, turn, outbox, written>>
vars == <<groupVars, mailVars>>

Row == [from : Group \cup {"chat"}, src : Session \cup {NoSession}]
\* `ref` is the row replied to, 0 for none.  History: `about`, the row of the
\* batch the agent answers.
Mail == [by : Session, to : Group, ref : Nat, about : Nat]

MailTypeOK ==
  /\ TypeOK
  /\ inbox \in [Session -> Seq(Row)]
  /\ taken \in [Session -> Nat] /\ turn \in [Session -> Nat]
  /\ \A s \in Session :
       /\ taken[s] <= Len(inbox[s]) /\ turn[s] <= Len(inbox[s])
       /\ turn[s] # 0 => taken[s] < turn[s] /\ box[s] \in {"first", "running"}
  /\ outbox \subseteq Mail /\ written \in 0 .. MaxMail

MailInit ==
  /\ Init
  /\ inbox = [s \in Session |-> <<>>]
  /\ taken = [s \in Session |-> 0] /\ turn = [s \in Session |-> 0]
  /\ outbox = {} /\ written = 0

-----------------------------------------------------------------------------
(* A chat message, the operation [op |-> "chat", s |-> session], and what   *)
(* the container does with its rows.                                       *)

Chat(o) ==
  /\ o.op = "chat" /\ o.s \in sessions /\ Done(o)
  /\ inbox' = [inbox EXCEPT ![o.s] = Append(@, [from |-> "chat", src |-> NoSession])]
  /\ UNCHANGED <<databaseVars, diskVars, hostVars, boxVars, historyVars, restarts,
                 failures, taken, turn, outbox, written>>

\* A poll takes all rows that wait, as one batch.
TakeBatch(s) ==
  /\ box[s] \in {"first", "running"} /\ turn[s] = 0 /\ taken[s] < Len(inbox[s])
  /\ turn' = [turn EXCEPT ![s] = Len(inbox[s])]
  /\ UNCHANGED <<groupVars, inbox, taken, outbox, written>>

\* The turn ends: its rows are completed.
EndTurn(s) ==
  /\ turn[s] # 0
  /\ taken' = [taken EXCEPT ![s] = turn[s]]
  /\ turn' = [turn EXCEPT ![s] = 0]
  /\ UNCHANGED <<groupVars, inbox, outbox, written>>

\* Rows of s that came from g.
From(s, g) == {i \in 1 .. Len(inbox[s]) : inbox[s][i].from = g}

\* The name is looked up in the projection; the agent writes once per row.
Writes(s, g, ref, about) ==
  /\ turn[s] # 0 /\ about \in taken[s] + 1 .. turn[s]
  /\ \E d \in proj[s] : d.to = g
  /\ written < MaxMail /\ written' = written + 1
  /\ \A m \in outbox : m.by # s
  /\ outbox' = outbox \cup {[by |-> s, to |-> g, ref |-> ref, about |-> about]}
  /\ UNCHANGED <<groupVars, inbox, taken, turn>>

\* send_message: in_reply_to is null.
SendByTool(s, g, i) == Writes(s, g, 0, i)

Latest(rows) == CHOOSE i \in rows : \A j \in rows : j <= i

\* resolveDestinationThread, else the first row of the batch.
ReplyTo(s, g) == IF From(s, g) # {} THEN Latest(From(s, g)) ELSE taken[s] + 1

\* A <message to="..."> block of the final text.
SendByBlock(s, g, i) == Writes(s, g, ReplyTo(s, g), i)

-----------------------------------------------------------------------------
(* In the host.                                                            *)

\* Mutant: the newest session, whoever asked.
NoOrigin(m) == NoSession

\* The session a message goes back to: that of the row replied to, else that
\* of the last row from the group.
Origin(m) ==
  LET direct == IF m.ref = 0 THEN NoSession ELSE inbox[m.by][m.ref].src
      peer == From(m.by, m.to) IN
  IF direct # NoSession THEN direct
  ELSE IF peer # {} THEN inbox[m.by][Latest(peer)].src
  ELSE NoSession

MayReach(m) ==
  /\ m.to = home[m.by] \/ \E d \in dests[home[m.by]] : d.to = m.to
  /\ m.to \in groups

\* routeAgentMessage: to the origin if it is a session of the target group,
\* else to the group's newest session, else to a new one.
Route(m, t) ==
  /\ HostIdle /\ m \in outbox /\ m.by \in sessions /\ MayReach(m)
  /\ outbox' = outbox \ {m}
  /\ LET S == SessionsOf(m.to) IN
       IF Origin(m) \in S THEN t = Origin(m) /\ UNCHANGED <<home, sessions>>
       ELSE IF S # {} THEN t = Latest(S) /\ UNCHANGED <<home, sessions>>
       ELSE NewSession(m.to, t)
  /\ inbox' = [inbox EXCEPT ![t] = Append(@, [from |-> home[m.by], src |-> m.by])]
  /\ UNCHANGED <<groups, configs, listed, built, image, dests, diskVars, hostVars,
                 boxVars, historyVars, todo, restarts, failures, taken, turn, written>>

\* It may not, or the group is gone: after its retries it is given up.  What a
\* deleted session wrote is never read.
Unroutable(m) ==
  /\ HostIdle /\ m \in outbox /\ m.by \in sessions /\ ~MayReach(m)
  /\ outbox' = outbox \ {m}
  /\ UNCHANGED <<groupVars, inbox, taken, turn, written>>

\* A step of the groups; the turn of a container that is no more is lost, its
\* rows come again.
Amid(A) ==
  /\ A
  /\ turn' = [s \in Session |-> IF box'[s] = "none" THEN 0 ELSE turn[s]]
  /\ UNCHANGED <<inbox, taken, outbox, written>>

Next ==
  \/ Amid(GroupStep)
  \/ \E s \in Session :
       \/ TakeBatch(s) \/ EndTurn(s)
       \/ \E g \in Group, i \in 1 .. MaxMail + 1 :
            g # home[s] /\ (SendByTool(s, g, i) \/ SendByBlock(s, g, i))
  \/ \E o \in todo : Chat(o)
  \/ \E m \in outbox : Unroutable(m) \/ \E t \in Session : Route(m, t)

Spec == MailInit /\ [][Next]_vars

FairSpec ==
  /\ Spec
  /\ WF_vars(Amid(Stopped))
  /\ \A s \in Session :
       /\ \A note \in BOOLEAN : WF_vars(Amid(RestartNext(s, note)))
       /\ WF_vars(Amid(Wake(s))) /\ WF_vars(Amid(Materialize(s)))
       /\ WF_vars(Amid(Run(s))) /\ WF_vars(Amid(Boot(s)))
       /\ WF_vars(Amid(FirstPoll(s))) /\ WF_vars(Amid(Heed(s)))
       /\ WF_vars(Amid(Close(s)))

-----------------------------------------------------------------------------
\* A reply lands in the session whose row it replies to.  An answer that names
\* no row, or a later one than the agent had in mind, lands in the session that
\* asked or in one of the same group that has written since, and never in one
\* that has not: a session that only was there before, or the newest one.
GoesToAsker ==
  [][\A m \in outbox, t \in Session :
       m \notin outbox' /\ inbox'[t] # inbox[t] =>
         LET rows == From(m.by, m.to) IN
         /\ m.ref \in rows => t = inbox[m.by][m.ref].src
         /\ m.about \in rows =>
              \E i \in rows : i >= m.about /\ t = inbox[m.by][i].src]_vars
=============================================================================
