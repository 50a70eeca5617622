----------------------------- MODULE SendLedger -----------------------------
(***************************************************************************)
(* The acceptance ledger of packages/state/src/acceptance-ledger.ts: one   *)
(* record per nonce of a send, so that a retry of the client is not        *)
(* dispatched again.                                                       *)
(*                                                                         *)
(* A send runs from admitSend() to the call that settles it, and           *)
(* interleaves with the others wherever the code awaits: in the read of    *)
(* the file by the first load() (`loaded' is set before that read, so the  *)
(* sends after the first do not wait for it), and in every persist().      *)
(***************************************************************************)
EXTENDS Persistence, Sequences, FiniteSets

CONSTANTS
    Nonces, Digests,
    None,        \* no record
    MaxSends,    \* sends and retries
    MaxRestarts

VARIABLES
    ledger,      \* records, loaded, and how many sends there were
    ledgerFile,  \* options.file
    sends,       \* the sends under way
    admitted     \* ghost: admissions of a nonce, clears of it, and whether the file let it down

ledgerVars == <<ledger, ledgerFile, sends, admitted>>

States == {"pending", "accepted", "rejected"}
Records == [digest : Digests, state : States]

ASSUME LedgerAssumption ==
    /\ MaxSends \in Nat /\ MaxRestarts \in Nat
    /\ None \notin Records /\ Torn \notin [Nonces -> Records \cup {None}]

NoRecords == [n \in Nonces |-> None]

LedgerTypeOK ==
    /\ \A n \in Nonces : ledger.records[n] \in Records \cup {None}
    /\ sends \subseteq [id : 1..MaxSends, nonce : Nonces, digest : Digests, op : {"admit", "mark", "clear"},
                        at : {"load", "reading", "admit", "mkdir", "writing", "dispatched"}]

LedgerInit ==
    /\ ledger = [records |-> NoRecords, loaded |-> FALSE, sends |-> 0, restarts |-> 0]
    /\ ledgerFile = NewFile(NoRecords)
    /\ sends = {}
    /\ admitted = [dispatched |-> [n \in Nonces |-> 0], cleared |-> [n \in Nonces |-> 0], harmed |-> FALSE]

Moves(s, at) == sends' = (sends \ {s}) \cup {[s EXCEPT !.at = at]}
Ends(s) == sends' = sends \ {s}

\* The client sends, or sends again after a timeout: admitSend() up to load().
SendArrives(n, d) ==
    /\ ledger.sends < MaxSends
    /\ sends' = sends \cup {[id |-> ledger.sends + 1, nonce |-> n, digest |-> d, op |-> "admit",
                             at |-> IF ledger.loaded THEN "admit" ELSE "reading"]}
    /\ ledger' = [ledger EXCEPT !.sends = @ + 1, !.loaded = TRUE]
    /\ UNCHANGED <<ledgerFile, admitted>>

\* The read of load() is done: what the file holds replaces what came meanwhile.
Loaded(s) ==
    /\ s \in sends /\ s.at = "reading"
    /\ ledger' = [ledger EXCEPT !.records = [n \in Nonces |->
                     IF ledgerFile.text # Torn /\ ledgerFile.text[n] # None THEN ledgerFile.text[n] ELSE @[n]]]
    /\ Moves(s, "admit")
    /\ UNCHANGED <<ledgerFile, admitted>>

\* Fault: only a record that was accepted stops a retry.
KnownIfAccepted(n) == ledger.records[n] # None /\ ledger.records[n].state = "accepted"

Known(n) == ledger.records[n] # None

\* The rest of admitSend(): a duplicate or a digest that differs ends it.
Admit(s) ==
    /\ s \in sends /\ s.at = "admit"
    /\ IF Known(s.nonce)
       THEN Ends(s) /\ UNCHANGED <<ledger, admitted>>
       ELSE /\ ledger' = [ledger EXCEPT !.records[s.nonce] = [digest |-> s.digest, state |-> "pending"]]
            /\ Moves(s, "mkdir")
            /\ admitted' = [admitted EXCEPT !.harmed = @ \/ \E r \in sends : r.at = "reading"]
    /\ UNCHANGED ledgerFile

\* persist(): the directory is there, the file is opened with the records of this moment.
OpenLedger(s) ==
    /\ s \in sends /\ s.at = "mkdir"
    /\ ledgerFile' = Opened(ledgerFile, s.id, ledger.records)
    /\ Moves(s, "writing")
    /\ admitted' = [admitted EXCEPT !.harmed = @ \/ ledgerFile'.mixed]
    /\ UNCHANGED ledger

\* The send is on file; one that was admitted is dispatched to the agent.
Persisted(s) ==
    /\ s \in sends /\ s.at = "writing"
    /\ ledgerFile' \in Written(ledgerFile, s.id)
    /\ IF s.op = "admit"
       THEN Moves(s, "dispatched") /\ admitted' = [admitted EXCEPT !.dispatched[s.nonce] = @ + 1]
       ELSE Ends(s) /\ UNCHANGED admitted
    /\ UNCHANGED ledger

\* markAccepted() and markRejected()
Mark(s, state) ==
    /\ s \in sends /\ s.at = "dispatched" /\ state \in {"accepted", "rejected"}
    /\ IF Known(s.nonce)
       THEN /\ ledger' = [ledger EXCEPT !.records[s.nonce].state = state]
            /\ sends' = (sends \ {s}) \cup {[s EXCEPT !.op = "mark", !.at = "mkdir"]}
       ELSE Ends(s) /\ UNCHANGED ledger
    /\ UNCHANGED <<ledgerFile, admitted>>

\* clear(): the send failed on its way, the client may send it afresh.
Clear(s) ==
    /\ s \in sends /\ s.at = "dispatched"
    /\ ledger' = [ledger EXCEPT !.records[s.nonce] = None]
    /\ sends' = (sends \ {s}) \cup {[s EXCEPT !.op = "clear", !.at = "mkdir"]}
    /\ admitted' = [admitted EXCEPT !.cleared[s.nonce] = @ + 1]
    /\ UNCHANGED ledgerFile

\* The host stops anywhere and starts again.
LedgerRestarts ==
    /\ ledger.restarts < MaxRestarts
    /\ ledger' = [ledger EXCEPT !.records = NoRecords, !.loaded = FALSE, !.restarts = @ + 1]
    /\ ledgerFile' = Abandoned(ledgerFile)
    /\ sends' = {}
    /\ admitted' = [admitted EXCEPT !.harmed = @ \/ ledgerFile.writing # {}]

LedgerNext ==
    \/ \E n \in Nonces, d \in Digests : SendArrives(n, d)
    \/ \E s \in sends :
          \/ Loaded(s) \/ Admit(s) \/ OpenLedger(s) \/ Persisted(s) \/ Clear(s)
          \/ \E state \in {"accepted", "rejected"} : Mark(s, state)
    \/ LedgerRestarts

-----------------------------------------------------------------------------
\* A nonce is dispatched once for the first send and once more for every time
\* it was cleared, however sends, retries and restarts fall.  The three cases
\* that break it are the ones in `harmed': an admission during the first read,
\* writes that overlap, and a host that ends inside a write.
SentOncePerNonce ==
    ~admitted.harmed => \A n \in Nonces : admitted.dispatched[n] <= 1 + admitted.cleared[n]
=============================================================================
