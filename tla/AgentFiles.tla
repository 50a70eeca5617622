----------------------------- MODULE AgentFiles -----------------------------
(***************************************************************************)
(* The directory of agents: packages/state/src/agent-store.ts.  An agent   *)
(* is a directory of profile.json, settings.json, group.json (of a group)  *)
(* and agent.json, written one after the other, each emptied first; it     *)
(* exists for a reader when the ones it needs all parse.                   *)
(***************************************************************************)
EXTENDS Naturals, Sequences, FiniteSets

CONSTANTS
    AgentIds,
    AgentLimit,       \* 50 in the code
    MaxStoreCalls, MaxStoreCrashes

ASSUME AgentFilesAssumption == AgentLimit \in Nat /\ MaxStoreCalls \in Nat /\ MaxStoreCrashes \in Nat

VARIABLES
    dirs,   \* agent -> its directory: there or not, and the state of its files
    calls,  \* the calls under way
    agents  \* ghost: created and not deleted since, harmed; counters

agentFileVars == <<dirs, calls, agents>>

FileNames == {"profile", "settings", "group", "meta"}
FileStates == {"absent", "torn", "whole"}
NoDir == [there |-> FALSE, file |-> [f \in FileNames |-> "absent"]]

AgentFilesTypeOK ==
    /\ dirs \in [AgentIds -> [there : BOOLEAN, file : [FileNames -> FileStates]]]
    /\ \A c \in calls : c.agent \in AgentIds /\ c.left \in Seq(FileNames)

AgentFilesInit ==
    /\ dirs = [a \in AgentIds |-> NoDir]
    /\ calls = {}
    /\ agents = [fresh |-> AgentIds, groups |-> {}, created |-> {}, deleting |-> {}, harmed |-> {}, calls |-> 0, crashes |-> 0]

-----------------------------------------------------------------------------
\* read(): the three files every agent has; what group.json is worth is not asked.
Readable(a) == \A f \in {"profile", "settings", "meta"} : dirs[a].file[f] = "whole"

Called(kind, a, left) ==
    /\ calls' = calls \cup {[id |-> agents.calls, kind |-> kind, agent |-> a, at |-> "next", left |-> left]}
    /\ agents.calls < MaxStoreCalls

\* Fault: agent.json, which makes the agent readable, comes first.
FilesMetaFirst(group) == <<"meta", "profile", "settings">> \o (IF group THEN <<"group">> ELSE <<>>)

Files(group) == <<"profile", "settings">> \o (IF group THEN <<"group">> ELSE <<>>) \o <<"meta">>

\* create(): the count is taken, the directory made.
CreateAgent(a, group) ==
    /\ a \in agents.fresh
    /\ Cardinality({b \in AgentIds : Readable(b)}) < AgentLimit
    /\ Called("create", a, Files(group))
    /\ dirs' = [dirs EXCEPT ![a].there = TRUE]
    /\ agents' = [agents EXCEPT !.fresh = @ \ {a}, !.groups = IF group THEN @ \cup {a} ELSE @, !.calls = @ + 1]

\* updateProfile() and updateSettings() of an agent that can be read.
Change(a, f) ==
    /\ Readable(a)
    /\ Called("update", a, <<f, "meta">>)
    /\ agents' = [agents EXCEPT !.calls = @ + 1]
    /\ UNCHANGED dirs

\* delete()
BeginDelete(a) ==
    /\ Called("delete", a, <<>>)
    /\ agents' = [agents EXCEPT !.calls = @ + 1, !.created = @ \ {a}, !.deleting = @ \cup {a}]
    /\ UNCHANGED dirs

-----------------------------------------------------------------------------
\* writeFile() of the next file, in a directory that is there.
OpenNext(c) ==
    /\ c \in calls /\ c.at = "next" /\ c.left # <<>>
    /\ IF dirs[c.agent].there
       THEN /\ dirs' = [dirs EXCEPT ![c.agent].file[Head(c.left)] = "torn"]
            /\ calls' = (calls \ {c}) \cup {[c EXCEPT !.at = "open"]}
       ELSE /\ calls' = calls \ {c}
            /\ UNCHANGED dirs
    /\ UNCHANGED agents

\* It is written (the text of a file that was removed meanwhile goes nowhere).
\* Two writes of one file that meet may leave a text that does not parse.
FillFile(c) ==
    /\ c \in calls /\ c.at = "open"
    /\ LET f == Head(c.left)
           met == \E d \in calls \ {c} : d.agent = c.agent /\ d.at = "open" /\ Head(d.left) = f
           bad == met \/ c.agent \in agents.harmed
       IN  /\ \E text \in IF bad THEN {"whole", "torn"} ELSE {"whole"} :
                 dirs' = [dirs EXCEPT ![c.agent].file[f] = IF @ = "absent" THEN @ ELSE text]
           /\ agents' = [agents EXCEPT !.harmed = IF met THEN @ \cup {c.agent} ELSE @,
                            !.created = IF c.kind = "create" /\ Len(c.left) = 1 /\ c.agent \notin agents.deleting
                                        THEN @ \cup {c.agent} ELSE @]
    /\ calls' = (calls \ {c}) \cup (IF Len(c.left) = 1 THEN {} ELSE {[c EXCEPT !.at = "next", !.left = Tail(@)]})

\* rm -r: the files in some order, and the directory when it is empty; a file that
\* came back meanwhile makes it fail.
RemoveFile(c) ==
    /\ c \in calls /\ c.kind = "delete"
    /\ \E f \in FileNames :
          /\ dirs[c.agent].file[f] # "absent"
          /\ dirs' = [dirs EXCEPT ![c.agent].file[f] = "absent"]
    /\ UNCHANGED <<calls, agents>>

DeleteEnds(c) ==
    /\ c \in calls /\ c.kind = "delete"
    /\ dirs' = IF dirs[c.agent].file = NoDir.file THEN [dirs EXCEPT ![c.agent] = NoDir] ELSE dirs
    /\ dirs[c.agent].file = NoDir.file \/ \E d \in calls \ {c} : d.agent = c.agent
    /\ calls' = calls \ {c}
    /\ UNCHANGED agents

\* The host ends; a file that was being written stays torn.
StoreCrashes ==
    /\ agents.crashes < MaxStoreCrashes
    /\ calls' = {}
    /\ agents' = [agents EXCEPT !.crashes = @ + 1, !.harmed = @ \cup {c.agent : c \in {d \in calls : d.at = "open"}}]
    /\ UNCHANGED dirs

AgentFilesNext ==
    \/ \E a \in AgentIds :
          \/ \E group \in BOOLEAN : CreateAgent(a, group)
          \/ \E f \in {"profile", "settings"} : Change(a, f)
          \/ BeginDelete(a)
    \/ \E c \in calls : OpenNext(c) \/ FillFile(c) \/ RemoveFile(c) \/ DeleteEnds(c)
    \/ StoreCrashes

-----------------------------------------------------------------------------
\* An agent that can be read is whole: a group that is not being deleted has its
\* members.  And an agent whose creation has returned can be read until it is
\* deleted, except while one of its files is being written, or when a crash or two
\* updates met in one of them (`harmed').
AgentsAreWhole ==
    \A a \in AgentIds \ agents.deleting :
        /\ (Readable(a) /\ a \in agents.groups) => dirs[a].file["group"] = "whole"
        /\ (a \in agents.created \ agents.harmed) => Readable(a) \/ \E c \in calls : c.agent = a /\ c.at = "open"
=============================================================================
