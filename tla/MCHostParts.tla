----------------------------- MODULE MCHostParts ------------------------------
(***************************************************************************)
(* The parts of packages/ that hold a protocol of their own beside the     *)
(* scheduling of runs: the stores, the links between the processes, group  *)
(* chats and sub-agents.  They share no state, and are checked as a sum: a *)
(* behaviour is one of `part', and the others keep still.                  *)
(***************************************************************************)
EXTENDS SendLedger, TranscriptFile, Automations, AgentFiles, StoreSync,
        PortSession, GatewayStream, GatewaySends, GroupRoom, Subagents

VARIABLE part

storeVars == <<ledgerVars, transcriptVars, autoVars, agentFileVars, syncVars>>
linkVars == <<portVars, streamVars, sendVars>>
teamVars == <<groupVars, subVars>>
partsVars == <<part, storeVars, linkVars, teamVars>>

\* GroupRoom and GatewaySends begin in several states: only of the part that moves.
Init ==
    /\ part \in {"ledger", "transcript", "automations", "agents", "sync", "ports", "stream", "sends", "group", "subagents"}
    /\ LedgerInit /\ TranscriptInit /\ AutomationInit /\ AgentFilesInit /\ SyncInit
    /\ PortInit /\ StreamInit /\ SendInit /\ GroupInit /\ SubInit
    /\ part # "group" => Len(room.members) = Len(MemberOrder)
    /\ part # "sends" => gateway.dedupes = Gateways /\ gateway.current = CHOOSE g \in Gateways : TRUE

NextStores ==
    /\ UNCHANGED <<linkVars, teamVars>>
    /\ \/ part = "ledger" /\ LedgerNext /\ UNCHANGED <<transcriptVars, autoVars, agentFileVars, syncVars>>
       \/ part = "transcript" /\ TranscriptNext /\ UNCHANGED <<ledgerVars, autoVars, agentFileVars, syncVars>>
       \/ part = "automations" /\ AutomationNext /\ UNCHANGED <<ledgerVars, transcriptVars, agentFileVars, syncVars>>
       \/ part = "agents" /\ AgentFilesNext /\ UNCHANGED <<ledgerVars, transcriptVars, autoVars, syncVars>>
       \/ part = "sync" /\ SyncNext /\ UNCHANGED <<ledgerVars, transcriptVars, autoVars, agentFileVars>>

NextLinks ==
    /\ UNCHANGED <<storeVars, teamVars>>
    /\ \/ part = "ports" /\ PortNext /\ UNCHANGED <<streamVars, sendVars>>
       \/ part = "stream" /\ StreamNext /\ UNCHANGED <<portVars, sendVars>>
       \/ part = "sends" /\ SendNext /\ UNCHANGED <<portVars, streamVars>>

NextTeams ==
    /\ UNCHANGED <<storeVars, linkVars>>
    /\ \/ part = "group" /\ GroupNext /\ UNCHANGED subVars
       \/ part = "subagents" /\ SubNext /\ UNCHANGED groupVars

Next ==
    /\ UNCHANGED part
    /\ NextStores \/ NextLinks \/ NextTeams

Spec == Init /\ [][Next]_partsVars

-----------------------------------------------------------------------------
(* The instance. *)

CONSTANTS ma, mb, mc

ThreeMembers == <<ma, mb, mc>>
=============================================================================
