--------------------------- MODULE TranscriptFile ---------------------------
(***************************************************************************)
(* The transcript of an agent: packages/state/src/transcript.ts, a list in *)
(* memory and the lines of transcript.jsonl.                               *)
(*                                                                         *)
(* append() and appendMany() add their entries to the list at once and to  *)
(* the end of the file after an await; deleteEntry() and clear() rewrite   *)
(* the file, opening (emptying) it first.  Nothing orders the two.  A host *)
(* that ends inside an append may leave a line without its end, to which   *)
(* the next append is glued.                                               *)
(***************************************************************************)
EXTENDS Filters, SequencesExt

CONSTANTS
    Entries,          \* each is appended once
    Corrupt,          \* a line that JSON.parse rejects
    MaxTranscriptRestarts, MaxRewrites

ASSUME TranscriptAssumption ==
    /\ IsFiniteSet(Entries) /\ Corrupt \notin Entries
    /\ MaxTranscriptRestarts \in Nat /\ MaxRewrites \in Nat

VARIABLES
    transcript,  \* the store: entries, loaded
    jsonl,       \* transcript.jsonl: its lines, and whether the last one is ended
    persists,    \* the persistAppend(), persistAppendMany() and persistRewrite() under way
    kept         \* ghost: entries that were acknowledged, deleted, and whether writes collided

transcriptVars == <<transcript, jsonl, persists, kept>>

Lines == Entries \cup {Corrupt}
InOrder(s) == SetToSeqs(s)   \* the orders in which the entries of a set can come

TranscriptTypeOK ==
    /\ transcript.entries \in Seq(Entries) /\ jsonl.lines \in Seq(Lines)
    /\ \A p \in persists : p.kind \in {"append", "rewrite"} /\ p.at \in {"mkdir", "opened"}

TranscriptInit ==
    /\ transcript = [entries |-> <<>>, loaded |-> FALSE, rewrites |-> 0, restarts |-> 0]
    /\ jsonl = [lines |-> <<>>, ended |-> TRUE]
    /\ persists = {}
    /\ kept = [fresh |-> Entries, acked |-> {}, collided |-> FALSE]

\* Fault: a corrupt line ends the load.
LoadableUntilCorrupt(lines) ==
    LET good == {i \in DOMAIN lines : \A j \in 1..i : lines[j] # Corrupt}
    IN  SubSeq(lines, 1, Cardinality(good))

\* load() skips the corrupt lines.
Loadable(lines) == Among(lines, Entries)

\* load(), before the transcript is used.
LoadTranscript ==
    /\ ~transcript.loaded
    /\ transcript' = [transcript EXCEPT !.loaded = TRUE, !.entries = Loadable(jsonl.lines)]
    /\ UNCHANGED <<jsonl, persists, kept>>

Rewriting == \E p \in persists : p.kind = "rewrite"

\* append() of one entry, and appendMany() of several, which write all lines at once.
AppendEntries(new) ==
    /\ transcript.loaded /\ new # {} /\ new \subseteq kept.fresh
    /\ \E batch \in InOrder(new) :
          /\ transcript' = [transcript EXCEPT !.entries = @ \o batch]
          /\ persists' = persists \cup {[kind |-> "append", batch |-> batch, at |-> "mkdir"]}
    /\ kept' = [kept EXCEPT !.fresh = @ \ new, !.collided = @ \/ Rewriting]
    /\ UNCHANGED jsonl

\* The lines after the ones there are; a line that was never ended takes the first of them in.
Extended(file, batch) ==
    [lines |-> IF file.ended THEN file.lines \o batch ELSE Front(file.lines) \o <<Corrupt>> \o Tail(batch),
     ended |-> TRUE]

Appended(p) ==
    /\ p \in persists /\ p.kind = "append"
    /\ jsonl' = Extended(jsonl, p.batch)
    /\ persists' = persists \ {p}
    /\ kept' = [kept EXCEPT !.acked = @ \cup (IF jsonl.ended THEN ToSet(p.batch) ELSE ToSet(Tail(p.batch)))]
    /\ UNCHANGED transcript

\* deleteEntry() of some entry, clear() of all.
RemoveEntries(gone) ==
    /\ transcript.loaded /\ gone # {} /\ transcript.rewrites < MaxRewrites
    /\ gone = ToSet(transcript.entries) \/ Cardinality(gone \cap ToSet(transcript.entries)) = 1
    /\ transcript' = [transcript EXCEPT !.entries = Among(@, Entries \ gone), !.rewrites = @ + 1]
    /\ persists' = persists \cup {[kind |-> "rewrite", batch |-> <<transcript.rewrites>>, at |-> "mkdir"]}
    /\ kept' = [kept EXCEPT !.acked = @ \ gone, !.collided = @ \/ persists # {}]
    /\ UNCHANGED jsonl

\* The rewrite opens the file, with the entries of this moment to write.
OpenRewrite(p) ==
    /\ p \in persists /\ p.kind = "rewrite" /\ p.at = "mkdir"
    /\ persists' = (persists \ {p}) \cup {[p EXCEPT !.at = "opened", !.batch = transcript.entries]}
    /\ jsonl' = [lines |-> <<>>, ended |-> TRUE]
    /\ UNCHANGED <<transcript, kept>>

\* Its text goes to the start of the file, over what others wrote meanwhile.
Over(new, old) ==
    {new} \cup {new \o <<Corrupt>> \o SubSeq(old, k, Len(old)) : k \in 2..(IF old = <<>> THEN 0 ELSE Len(old) + 1)}

Rewritten(p) ==
    /\ p \in persists /\ p.kind = "rewrite" /\ p.at = "opened"
    /\ \E text \in Over(p.batch, jsonl.lines) : jsonl' = [lines |-> text, ended |-> TRUE]
    /\ persists' = persists \ {p}
    /\ UNCHANGED <<transcript, kept>>

\* The host ends: an append under way may have written a piece of its first line.
TranscriptRestarts ==
    /\ transcript.loaded /\ transcript.restarts < MaxTranscriptRestarts
    /\ transcript' = [transcript EXCEPT !.entries = <<>>, !.loaded = FALSE, !.restarts = @ + 1]
    /\ \/ UNCHANGED jsonl
       \/ \E p \in {q \in persists : q.kind = "append"} : \E k \in 0..(Len(p.batch) - 1) :
             jsonl' = [Extended(jsonl, SubSeq(p.batch, 1, k) \o <<Corrupt>>) EXCEPT !.ended = FALSE]
    /\ persists' = {}
    /\ kept' = [kept EXCEPT !.collided = @ \/ Rewriting]

TranscriptNext ==
    \/ LoadTranscript
    \/ \E s \in SUBSET Entries : AppendEntries(s) \/ RemoveEntries(s)
    \/ \E p \in persists : Appended(p) \/ OpenRewrite(p) \/ Rewritten(p)
    \/ TranscriptRestarts

-----------------------------------------------------------------------------
\* Every entry whose append has returned and which nobody removed is in the file
\* once, and in the store when that is loaded, after torn lines and restarts too.
\* Not promised: an entry glued to a torn line, a rewrite that meets another write
\* or the end of the host (`collided').
AcknowledgedEntriesStay ==
    ~kept.collided =>
        \A e \in kept.acked :
            /\ Rewriting \/ Cardinality({i \in DOMAIN jsonl.lines : jsonl.lines[i] = e}) = 1
            /\ transcript.loaded => e \in ToSet(transcript.entries)
=============================================================================
