--------------------------- MODULE MCRegistration ---------------------------
(* Small instances of Registration. *)
EXTENDS Registration, TLC

(* For safety properties, and where no slot is for asking. *)
Interchangeable ==
    Permutations(Name) \cup Permutations(Process) \cup Permutations(Conn) \cup Permutations(Hint)
=============================================================================
