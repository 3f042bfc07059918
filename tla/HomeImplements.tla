--------------------------- MODULE HomeImplements ---------------------------
(***************************************************************************)
(* Home implements SavedHome as long as processes are alone: the calls a   *)
(* save is made of, and the deaths and failures between them, show in no   *)
(* net.                                                                    *)
(***************************************************************************)
EXTENDS Home

Running == {p \in Process : Runs(p)}

Memory == IF Running = {} THEN None ELSE UNION {proc[p].net : p \in Running}

Saved == INSTANCE SavedHome WITH
    file <- toml, secrets <- {k \in Key : Readable(k)}, memory <- Memory,
    answered <- acked, forgotten <- forgot

(* Seen from outside, network.toml is replaced in one step and by all that  *)
(* the process has in memory, which is lost whole or kept whole, wherever   *)
(* between two calls it dies (save; init; start).                           *)
SavesAreAtomic == Saved!Init /\ [][alone' => Saved!Next]_(Saved!vars)
=============================================================================
