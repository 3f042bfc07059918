----------------------------- MODULE SavedHome -----------------------------
(***************************************************************************)
(* What a home promises, however a save is carried out: the abstract       *)
(* specification that Home implements (HomeImplements).                    *)
(*                                                                         *)
(* There is a file and a memory, each a net, which is the set of the keys  *)
(* it names.  The file is replaced by the memory in one step, and what is  *)
(* answered for is in it by then; the memory comes from the file and grows *)
(* by keys that have never been before; stopping loses it and nothing      *)
(* else.  Only where nothing runs does the operator remove a key, and that *)
(* one is gone for good.                                                   *)
(***************************************************************************)
CONSTANTS Key, None

VARIABLES
    file,       \* the net on file, or None
    secrets,    \* keys whose secret can be read
    memory,     \* the net of the program that runs, or None
    answered,   \* keys a command was answered for
    forgotten   \* keys the operator removed

vars == <<file, secrets, memory, answered, forgotten>>

Init == file = None /\ secrets = {} /\ memory = None /\ answered = {} /\ forgotten = {}

(* `init`, where there is no file; *)
Begin ==
    /\ memory = None /\ file = None
    /\ memory' = {}
    /\ UNCHANGED <<file, secrets, answered, forgotten>>

(* a daemon, where it has the secrets of the keys it reads. *)
Load ==
    /\ memory = None /\ file # None
    /\ file \subseteq secrets
    /\ memory' = file
    /\ UNCHANGED <<file, secrets, answered, forgotten>>

Make(k) ==
    /\ memory # None
    /\ k \notin memory \cup secrets \cup forgotten
    /\ memory' = memory \cup {k}
    /\ secrets' = secrets \cup {k}
    /\ UNCHANGED <<file, answered, forgotten>>

(* What was on file stays.  `init` ends with its save, a daemon goes on. *)
Save ==
    /\ memory \notin {None, {}}
    /\ file # None => file \subseteq memory
    /\ file' = memory
    /\ \E S \in SUBSET memory : answered' = answered \cup S
    /\ memory' = IF file = None THEN None ELSE memory
    /\ UNCHANGED <<secrets, forgotten>>

Stop ==
    /\ memory # None
    /\ memory' = None
    /\ UNCHANGED <<file, secrets, answered, forgotten>>

Forget(k) ==
    /\ memory = None /\ file # None /\ k \in file
    /\ file' = file \ {k}
    /\ secrets' = secrets \ {k}
    /\ forgotten' = forgotten \cup {k}
    /\ UNCHANGED <<memory, answered>>

Next == Begin \/ Load \/ Save \/ Stop \/ \E k \in Key : Make(k) \/ Forget(k)

Spec == Init /\ [][Next]_vars
=============================================================================
