----------------------------- MODULE GroupRoom -----------------------------
(***************************************************************************)
(* A group chat of agents: GroupChatOrchestrator.run() and the rules of    *)
(* group-chat.ts, packages/messaging.  Members speak one after the other,  *)
(* round by round; a user message may supersede the conversation while a   *)
(* member is thinking.                                                     *)
(***************************************************************************)
EXTENDS Filters, SequencesExt

CONSTANTS
    MemberOrder,          \* the members of the room, as listed
    MaxRounds,            \* GROUP_MAX_ROUNDS, 3 in the code
    MaxTurns,             \* GROUP_MAX_MEMBER_TURNS, 10
    MaxPerTurn            \* GROUP_MAX_MESSAGES_PER_TURN, 2

ASSUME GroupAssumption ==
    MemberOrder \in Seq(ToSet(MemberOrder)) /\ MaxRounds \in Nat /\ MaxTurns \in Nat \ {0} /\ MaxPerTurn \in Nat

VARIABLES room, told   \* the run; ghost: the messages a member has been prompted with

groupVars == <<room, told>>

Members == ToSet(MemberOrder)
NoMember == "nobody"

GroupTypeOK ==
    /\ room.at \in {"round", "speakers", "thinking", "ended"}
    /\ room.history \in Seq(Members) /\ room.mentioned \subseteq Members
    /\ told \in [Members -> SUBSET Nat]

\* run(): members that no longer exist are dropped.
GroupInit ==
    /\ \E there \in SUBSET Members \ {{}} :
          room = [at |-> "round", members |-> Among(MemberOrder, there), round |-> 0, order |-> <<>>,
                  speaker |-> NoMember, history |-> <<>>, mentioned |-> {}, inRound |-> 0, current |-> TRUE]
    /\ told = [m \in Members |-> {}]

\* Another message of the user: isCurrent() is false from now on.
Supersede ==
    /\ room.current /\ room.at # "ended"
    /\ room' = [room EXCEPT !.current = FALSE]
    /\ UNCHANGED told

\* orderRoundSpeakers(): another one begins every round.
Rotated(s, round) == LET k == round % Len(s) IN SubSeq(s, k + 1, Len(s)) \o SubSeq(s, 1, k)

\* resolveResponders(): those the last message mentions (everyone, by @all or by none).
Responders ==
    IF room.mentioned = {} THEN room.members
    ELSE Among(room.members, room.mentioned)

RunEnds == [room EXCEPT !.at = "ended", !.speaker = NoMember]

BeginRound ==
    /\ room.at = "round"
    /\ room' = IF room.round >= MaxRounds \/ ~room.current THEN RunEnds
               ELSE [room EXCEPT !.at = "speakers", !.inRound = 0,
                                 !.order = IF Responders = <<>> THEN <<>> ELSE Rotated(Responders, room.round)]
    /\ UNCHANGED told

\* Fault: what came right after the last message of the member counts as read.
SinceLastButOne(m) ==
    LET own == {i \in DOMAIN room.history : room.history[i] = m}
    IN  {i \in DOMAIN room.history : \A j \in own : i > j + 1}

\* messagesSinceMemberLastSpoke()
SinceSpoke(m) ==
    LET own == {i \in DOMAIN room.history : room.history[i] = m}
    IN  {i \in DOMAIN room.history : \A j \in own : i > j}

\* The next speaker is prompted, with what is new to it.
NextSpeaker ==
    /\ room.at = "speakers" /\ room.order # <<>>
    /\ IF Len(room.history) >= MaxTurns \/ ~room.current THEN room' = RunEnds /\ UNCHANGED told
       ELSE /\ room' = [room EXCEPT !.at = "thinking", !.speaker = Head(room.order), !.order = Tail(@)]
            /\ told' = [told EXCEPT ![Head(room.order)] = @ \cup SinceSpoke(Head(room.order))]

\* Fault: the cap on messages is looked at between turns only.
PostedUncapped(sent) == room.history \o sent

\* The messages of the turn are posted until the cap, whether the run is still current or not.
Posted(sent) ==
    LET left == MaxTurns - Len(room.history)
    IN  room.history \o SubSeq(sent, 1, IF Len(sent) < left THEN Len(sent) ELSE left)

\* The turn is over: it has sent some messages, or passed, or its runner is not there.
TurnEnds ==
    /\ room.at = "thinking"
    /\ \E n \in 0..MaxPerTurn, mentions \in SUBSET ToSet(room.members) :
          LET sent == [i \in 1..n |-> room.speaker]
              last == IF n = 0 THEN room.mentioned ELSE IF Len(Posted(sent)) - Len(room.history) < n THEN {} ELSE mentions
              now == [room EXCEPT !.history = Posted(sent), !.mentioned = last, !.inRound = @ + n, !.speaker = NoMember]
          IN  room' = IF n > 0 /\ Len(Posted(sent)) >= MaxTurns THEN [now EXCEPT !.at = "ended"]
                      ELSE [now EXCEPT !.at = "speakers"]
    /\ UNCHANGED told

\* A round in which nobody said anything is the last.
EndRound ==
    /\ room.at = "speakers" /\ room.order = <<>>
    /\ room' = IF room.inRound = 0 THEN RunEnds ELSE [room EXCEPT !.at = "round", !.round = @ + 1]
    /\ UNCHANGED told

GroupNext == Supersede \/ BeginRound \/ NextSpeaker \/ TurnEnds \/ EndRound

-----------------------------------------------------------------------------
\* A member that is asked to speak has been told every message of the others so far,
\* whatever it passed on, was not mentioned in, or wrote in between.
MembersHearAll ==
    room.at = "thinking" =>
        \A i \in DOMAIN room.history : room.history[i] # room.speaker => i \in told[room.speaker]

\* The room falls silent: never more messages than the cap, however many a turn
\* sends, and nobody is asked again after the cap or the last round.
RoomIsBounded ==
    /\ Len(room.history) <= MaxTurns
    /\ room.at = "thinking" => Len(room.history) < MaxTurns /\ room.round < MaxRounds

\* What the members and the user may rely on.
RoomIsFair == MembersHearAll /\ RoomIsBounded
=============================================================================
