------------------------------- MODULE MCHome -------------------------------
(* Small instances of Home. *)
EXTENDS HomeImplements, TLC

Interchangeable ==
    Permutations(Process) \cup Permutations(Handshake) \cup Permutations(Key \ Handshake)

(* What was answered, forgotten and failed is told apart as long as a       *)
(* property speaks of it; no guard does.                                    *)
Seen ==
    <<toml, tmp, store, socket, proc, doctor, alone,
      IF alone THEN <<acked, forgot, failed>> ELSE <<>> >>
=============================================================================
