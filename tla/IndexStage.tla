----------------------------- MODULE IndexStage -----------------------------
(***************************************************************************)
(* What the index stage of one book promises, whatever is run, lost and    *)
(* run again: a run wants some chunks, stores rows of chunks it wants,     *)
(* embeds none of them before every one has its row, and is done only when *)
(* each has both.  Runs come one at a time, what one of them committed     *)
(* stays for the next, and nothing is taken away but with the whole book.  *)
(***************************************************************************)

CONSTANT Chunks

VARIABLES
    stored,     \* the chunks that have a row
    embedded,   \* the chunks that have an embedding
    wanted,     \* what the run under way is to leave behind
    phase       \* idle, storing, embedding or done

vars == <<stored, embedded, wanted, phase>>

Init ==
    /\ stored = {}
    /\ embedded = {}
    /\ wanted = {}
    /\ phase = "idle"

StoreSome ==
    /\ phase = "storing"
    /\ stored \subseteq stored'
    /\ stored' \subseteq stored \cup wanted
    /\ UNCHANGED embedded

EmbedSome ==
    /\ phase = "embedding"
    /\ embedded \subseteq embedded'
    /\ embedded' \subseteq embedded \cup wanted
    /\ UNCHANGED stored

\* A run starts over from what there is; a success may be followed by another.
Begin ==
    /\ phase \in {"idle", "done"}
    /\ wanted' \in (SUBSET Chunks) \ {{}}
    /\ phase' = "storing"
    /\ UNCHANGED <<stored, embedded>>

Store ==
    /\ StoreSome
    /\ \/ phase' = "storing"
       \/ phase' = "embedding" /\ wanted \subseteq stored'
    /\ UNCHANGED wanted

\* Earlier runs left nothing to embed.
AllThere ==
    /\ phase = "storing"
    /\ wanted \subseteq stored
    /\ wanted \subseteq embedded
    /\ phase' = "done"
    /\ UNCHANGED <<stored, embedded, wanted>>

Embed ==
    /\ EmbedSome
    /\ \/ phase' = "embedding"
       \/ phase' = "done" /\ wanted \subseteq embedded'
    /\ UNCHANGED wanted

\* The run ends, or is lost, with or without the write it was making.
Leave ==
    /\ phase # "idle"
    /\ StoreSome \/ EmbedSome \/ UNCHANGED <<stored, embedded>>
    /\ wanted' = {}
    /\ phase' = "idle"

\* The book is deleted; a run under way can do nothing for it any more.
Removed ==
    /\ stored' = {}
    /\ embedded' = {}
    /\ wanted' = {}
    /\ phase' = "idle"

Next == Begin \/ Store \/ AllThere \/ Embed \/ Leave \/ Removed

Spec == Init /\ [][Next]_vars
=============================================================================
