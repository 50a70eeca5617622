------------------------------ MODULE BotSetup ------------------------------
(***************************************************************************)
(* Setting up the bot: the administrator's dialog of                       *)
(* apps/community/public/setup.js, the setup routes of                     *)
(* apps/community/server.mjs and the encrypted vault of                    *)
(* apps/community/setup-vault.mjs.                                         *)
(*                                                                         *)
(* A setting is saved by writing the whole vault to a new file that is     *)
(* renamed over the old one; its key is made in memory and written once,   *)
(* before the first vault.  The server may stop between any two of these   *)
(* steps, and each of them may throw, after which it goes on serving.  It  *)
(* does not start with a vault it cannot read.  Another server on the same *)
(* files is not modelled.  The dialog ignores what belongs to an earlier   *)
(* epoch or to another administrator.                                      *)
(***************************************************************************)
EXTENDS Naturals, FiniteSets

CONSTANTS
    Admins, NoAdmin,
    EnvBackends,   \* what the environment connects: a subset of {"api", "gateway"}
    MaxSaves, MaxStops, MaxSetupCalls

ASSUME SetupAssumption ==
    EnvBackends \subseteq {"api", "gateway"} /\ MaxSaves \in Nat /\ MaxStops \in Nat /\ MaxSetupCalls \in Nat

VARIABLES
    setup,  \* the dialog: who is logged in, whether it is open and busy, its calls
    vault,  \* the server: settings and key in memory, the files, whether it runs a job
    kept    \* the newest setting the server has acknowledged

setupVars == <<setup, vault, kept>>

Backends == {"none", "api", "gateway"}
\* What the vault holds: a serial number of its last change, what is connected and chosen.
Settings == [serial : 0..MaxSaves, connected : SUBSET {"api", "gateway"}, backend : Backends, completed : BOOLEAN]
NoSettings == [serial |-> 0, connected |-> {}, backend |-> "none", completed |-> FALSE]
Torn == [NoSettings EXCEPT !.backend = "torn"]

SetupCalls == [kind : {"open", "onboard", "save", "probe"}, what : {"profile", "api", "gateway", "use-api", "use-gateway", ""},
               current : BOOLEAN, served : {"no", "ok", "refused", "lost"}, required : BOOLEAN]

SetupInit ==
    /\ setup = [user |-> NoAdmin, open |-> FALSE, form |-> FALSE, busy |-> FALSE, prompted |-> {}, calls |-> {}]
    /\ vault = [mem |-> NoSettings, disk |-> NoSettings, hasKey |-> FALSE, key |-> "absent",
                unkeyed |-> FALSE, up |-> TRUE, jobs |-> FALSE, stops |-> 0]
    /\ kept = 0

-----------------------------------------------------------------------------
(* The vault.  hasKey: `key' of createSetupVault() is set; key: its file.  *)
(* unkeyed is a history: this server's key could not be written.           *)

\* The file of the key after a save: it is written by the first one, and only then.
KeyFile == IF vault.hasKey THEN vault.key ELSE "written"

\* Fault: the file is written in place.
StepsInPlace(next) == {[vault EXCEPT !.key = KeyFile, !.disk = d] : d \in {vault.disk, Torn, next}}

\* What a stop during save(next) may leave behind: the key, new on the first save, is
\* itself not written in one step; the vault is.
Steps(next) ==
    IF vault.hasKey
    THEN {[vault EXCEPT !.disk = d] : d \in {vault.disk, next}}
    ELSE {[vault EXCEPT !.key = k] : k \in {"absent", "torn", "written"}} \cup {[vault EXCEPT !.key = "written", !.disk = next]}

SaveVault(next) == [vault EXCEPT !.hasKey = TRUE, !.key = KeyFile, !.disk = next, !.mem = next]

\* save() throws: in writing the key, which is set all the same, or in writing or
\* renaming the new file, or the vault is too large.
SaveThrows ==
    IF vault.hasKey THEN {vault}
    ELSE {[vault EXCEPT !.hasKey = TRUE, !.key = k, !.unkeyed = (k # "written")] : k \in {"absent", "torn", "written"}}

StopDuring(next) ==
    /\ vault.stops < MaxStops
    /\ \E v \in Steps(next) : vault' = [v EXCEPT !.up = FALSE, !.jobs = FALSE, !.stops = @ + 1]

StopServer ==
    /\ vault.up /\ vault.stops < MaxStops
    /\ vault' = [vault EXCEPT !.up = FALSE, !.jobs = FALSE, !.stops = @ + 1]
    /\ UNCHANGED <<setup, kept>>

\* createSetupVault(): a vault without its key, or either of them torn, is an error.
Readable == vault.key # "torn" /\ vault.disk # Torn /\ (vault.disk # NoSettings => vault.key = "written")
StartServer ==
    /\ ~vault.up /\ Readable
    /\ vault' = [vault EXCEPT !.up = TRUE, !.mem = vault.disk, !.hasKey = (vault.key = "written"), !.unkeyed = FALSE]
    /\ UNCHANGED <<setup, kept>>

\* An answer or a room title is being written.
JobChanges == vault.up /\ vault' = [vault EXCEPT !.jobs = ~@] /\ UNCHANGED <<setup, kept>>

Connected == vault.mem.connected \cup EnvBackends

\* profile(), provider(), gateway() and selectBackend(), which needs its connection.
Changed(what) ==
    LET next == [vault.mem EXCEPT !.serial = @ + 1]
    IN CASE what = "profile" -> [next EXCEPT !.completed = TRUE]
         [] what \in {"api", "gateway"} -> [next EXCEPT !.connected = @ \cup {what}]
         [] what = "use-api" -> [next EXCEPT !.backend = "api"]
         [] what = "use-gateway" -> [next EXCEPT !.backend = "gateway"]
MayChange(what) ==
    /\ ~vault.jobs /\ vault.mem.serial < MaxSaves
    /\ what = "use-api" => "api" \in Connected
    /\ what = "use-gateway" => "gateway" \in Connected

-----------------------------------------------------------------------------
(* The routes *)

Served(c, how) == setup' = [setup EXCEPT !.calls = (@ \ {c}) \cup {[c EXCEPT !.served = how,
                                 !.required = (c.kind = "onboard" /\ ~vault.mem.completed /\ Connected = {})]}]

ServeSave(c) ==
    /\ c \in setup.calls /\ c.kind = "save" /\ c.served = "no" /\ vault.up
    /\ IF MayChange(c.what)
       THEN /\ vault' = SaveVault(Changed(c.what))
            /\ kept' = Changed(c.what).serial
            /\ Served(c, "ok")
       ELSE Served(c, "refused") /\ UNCHANGED <<vault, kept>>

\* A write fails, and the server goes on.
SaveFails(c) ==
    /\ c \in setup.calls /\ c.kind = "save" /\ c.served = "no" /\ vault.up /\ MayChange(c.what)
    /\ vault' \in SaveThrows
    /\ Served(c, "refused") /\ UNCHANGED kept

\* The server stops while it saves.
CrashInSave(c) ==
    /\ c \in setup.calls /\ c.kind = "save" /\ c.served = "no" /\ vault.up /\ MayChange(c.what)
    /\ StopDuring(Changed(c.what))
    /\ Served(c, "lost") /\ UNCHANGED kept

ServeOther(c) ==
    /\ c \in setup.calls /\ c.kind # "save" /\ c.served = "no" /\ vault.up
    /\ Served(c, "ok") /\ UNCHANGED <<vault, kept>>

CallLost(c) ==
    /\ c \in setup.calls /\ c.served = "no" /\ ~vault.up
    /\ Served(c, "lost") /\ UNCHANGED <<vault, kept>>

-----------------------------------------------------------------------------
(* The dialog *)

MaySend == Cardinality(setup.calls) < MaxSetupCalls
SetupCall(kind, what) == [kind |-> kind, what |-> what, current |-> TRUE, served |-> "no", required |-> FALSE]
NextEpoch(s) == [s EXCEPT !.calls = {[c EXCEPT !.current = FALSE] : c \in @}]

\* reset(), and the handler of "close".
ResetSetup(s) == [NextEpoch(s) EXCEPT !.busy = FALSE, !.open = FALSE, !.form = FALSE]

\* open(): onboarding shows the dialog only when the answer says so.
OpenSetup(s, kind) ==
    [NextEpoch(s) EXCEPT !.open = (kind = "open"), !.form = FALSE,
                         !.calls = @ \cup {SetupCall(kind, "")}]

AdminEnters(a) ==
    /\ setup.user = NoAdmin /\ setup' = [setup EXCEPT !.user = a]
    /\ UNCHANGED <<vault, kept>>
AdminLeaves ==
    /\ setup.user # NoAdmin /\ setup' = [ResetSetup(setup) EXCEPT !.user = NoAdmin]
    /\ UNCHANGED <<vault, kept>>

\* maybePrompt(): once per administrator.
MaybePrompt ==
    /\ setup.user \notin setup.prompted \cup {NoAdmin} /\ ~setup.open /\ MaySend
    /\ setup' = OpenSetup([setup EXCEPT !.prompted = @ \cup {setup.user}], "onboard")
    /\ UNCHANGED <<vault, kept>>

ClickOpen ==
    /\ setup.user # NoAdmin /\ ~setup.open /\ MaySend
    /\ setup' = OpenSetup(setup, "open")
    /\ UNCHANGED <<vault, kept>>

ClickClose == setup.open /\ setup' = ResetSetup(setup) /\ UNCHANGED <<vault, kept>>

\* save(), and verifyConnection() or exportRecipe() (a probe), to their await.
ClickSetup(kind, what) ==
    /\ setup.open /\ setup.form /\ ~setup.busy /\ setup.user # NoAdmin /\ MaySend
    /\ (kind = "save") = (what # "")
    /\ setup' = [setup EXCEPT !.busy = TRUE, !.calls = @ \cup {SetupCall(kind, what)}]
    /\ UNCHANGED <<vault, kept>>

\* s: the dialog without the call.
Answered(s, c) ==
    CASE ~c.current -> s
      [] c.current /\ c.kind = "onboard" ->
            IF c.served = "ok" /\ c.required THEN [s EXCEPT !.open = TRUE, !.form = TRUE] ELSE s
      [] c.current /\ c.kind = "open" -> [s EXCEPT !.form = (c.served = "ok")]
      [] c.current /\ c.kind \in {"save", "probe"} -> IF s.open THEN [s EXCEPT !.busy = FALSE] ELSE s

SetupReplied(c) ==
    /\ c \in setup.calls /\ c.served # "no"
    /\ setup' = Answered([setup EXCEPT !.calls = @ \ {c}], c)
    /\ UNCHANGED <<vault, kept>>

-----------------------------------------------------------------------------
SetupNext ==
    \/ StopServer \/ StartServer \/ JobChanges \/ AdminLeaves \/ MaybePrompt \/ ClickOpen \/ ClickClose
    \/ \E a \in Admins : AdminEnters(a)
    \/ \E w \in {"profile", "api", "gateway", "use-api", "use-gateway"} : ClickSetup("save", w)
    \/ ClickSetup("probe", "")
    \/ \E c \in setup.calls : ServeSave(c) \/ SaveFails(c) \/ CrashInSave(c) \/ ServeOther(c) \/ CallLost(c) \/ SetupReplied(c)

-----------------------------------------------------------------------------
(* Properties *)

SetupTypeOK ==
    /\ setup.calls \subseteq SetupCalls /\ setup.user \in Admins \cup {NoAdmin}
    /\ vault.mem \in Settings /\ vault.disk \in Settings \cup {Torn} /\ kept \in 0..MaxSaves

\* A server that is up has every setting it ever acknowledged, also when it stopped in the
\* middle of a save or went on after one that threw; and whenever it stops it can be
\* started again (createSetupVault, save).  There are two exceptions.  A stop during the
\* very first save may tear the key, before there is anything to lose.  And a server that
\* could not write its key goes on to save under it: what it acknowledges then is in a
\* vault that no later server can read.
SavedSettingsSurvive ==
    /\ vault.disk # Torn /\ vault.disk.serial >= kept
    /\ vault.up => vault.mem = vault.disk
    /\ ~vault.unkeyed => Readable \/ (vault.disk = NoSettings /\ vault.key = "torn")
=============================================================================
