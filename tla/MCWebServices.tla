---------------------------- MODULE MCWebServices -----------------------------
(***************************************************************************)
(* What stands beside the conversations of apps/community: notifications,  *)
(* the mailbox, the setup of the bot and its calls of the models; the      *)
(* terminals of a desktop, the broker of desktops, and the release of all  *)
(* of it.  They share no state, and are checked as a sum: a behaviour is   *)
(* one of `feature', and the others keep still.                            *)
(***************************************************************************)
EXTENDS WebPush, WebMail, BotSetup, ModelCalls, Terminals, DesktopPool, Release, TLC

VARIABLE feature

servicesVars == <<feature, pushVars, mailVars, setupVars, modelVars, terminalVars, desktopVars, releaseVars>>

Init ==
    /\ feature \in {"push", "mail", "setup", "models", "terminals", "desktops", "release"}
    /\ PushInit /\ MailInit /\ SetupInit /\ ModelInit /\ TerminalInit /\ DesktopInit /\ ReleaseInit
    /\ feature # "models" => ~pool.fresh

Still(f, vars) == feature # f => UNCHANGED vars

Next ==
    /\ UNCHANGED feature
    /\ \/ feature = "push" /\ PushNext
       \/ feature = "mail" /\ MailNext
       \/ feature = "setup" /\ SetupNext
       \/ feature = "models" /\ ModelNext
       \/ feature = "terminals" /\ TerminalNext
       \/ feature = "desktops" /\ DesktopNext
       \/ feature = "release" /\ ReleaseNext
    /\ Still("push", pushVars) /\ Still("mail", mailVars) /\ Still("setup", setupVars) /\ Still("models", modelVars)
    /\ Still("terminals", terminalVars) /\ Still("desktops", desktopVars) /\ Still("release", releaseVars)

Spec == Init /\ [][Next]_servicesVars

-----------------------------------------------------------------------------
(* The instance. *)

CONSTANTS p1, p2

\* Keys of two providers.
NamesOfSlots == [s \in Slots |-> IF s = 1 THEN p1 ELSE p2]

\* Two models that see; the first key has both.
ModelsSeen == [s \in Slots |-> IF s = 1 THEN {1, 2} ELSE {2}]

\* The second commit changes the desktop, the third does not.
DesktopOfCommit(c) == IF c = 3 THEN 2 ELSE c

\* No bot and no viewer is told from another by its name.
Symmetry == Permutations(Bots) \cup Permutations(Viewers)
=============================================================================
