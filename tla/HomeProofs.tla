----------------------------- MODULE HomeProofs -----------------------------
(***************************************************************************)
(* That a home works on, keeps what it answered for, and does not bring    *)
(* back what was forgotten, as long as processes are alone in it, and that *)
(* its file is of use whoever else runs.  Orderly is kept by every step of *)
(* a process that is alone, with one lemma per action and a step per part  *)
(* of Orderly; NetsAreUsable by every step there is; IInv is both.         *)
(***************************************************************************)
EXTENDS HomeImplements, TLAPS

(* Where one process is alone, the others are none. *)
LEMMA OthersStopped ==
    ASSUME TypeOK, OneRuns, NEW p \in Process, Runs(p)
    PROVE  proc[p] \in Run /\ \A q \in Process \ {p} : proc[q] = None
  BY DEF TypeOK, OneRuns, Runs

(* There is no file yet, and the key it begins was never made or forgotten. *)
LEMMA InitStartsKeeps ==
    ASSUME Orderly, NEW p \in Process, NEW k \in Key, InitStarts(p, k)
    PROVE  Orderly'
<1>1. TypeOK'
      BY NoneIsNoValue, HandshakeKeysAreKeys DEF Orderly, InitStarts, TypeOK, Run
<1>2. OneRuns'
      BY NoneIsNoValue, HandshakeKeysAreKeys DEF Orderly, InitStarts, OneRuns, Runs, Nobody
<1>3. FileIsSound'
      BY NoneIsNoValue, HandshakeKeysAreKeys DEF Orderly, InitStarts, FileIsSound, FileIsWhole
<1>4. MemoryIsSound'
      BY NoneIsNoValue, HandshakeKeysAreKeys DEF Orderly, InitStarts, MemoryIsSound, Sound,
         Readable,
         ForgottenIsDeleted, Runs, TypeOK
<1>5. SaveIsInOrder'
      BY NoneIsNoValue, HandshakeKeysAreKeys DEF Orderly, InitStarts, SaveIsInOrder, Runs
<1>6. ForgottenIsDeleted'
      BY NoneIsNoValue, HandshakeKeysAreKeys DEF Orderly, InitStarts, ForgottenIsDeleted
<1>7. DoctorReads'
      BY NoneIsNoValue, HandshakeKeysAreKeys DEF Orderly, InitStarts, DoctorReads, Readable
<1>8. MemoryIsAhead'
      BY NoneIsNoValue DEF Orderly, InitStarts, MemoryIsAhead, Runs, TypeOK, Run
<1> QED BY <1>1, <1>2, <1>3, <1>4, <1>5, <1>6, <1>7, <1>8 DEF Orderly

(* What a daemon reads is the file, and the file is a sound net. *)
LEMMA DaemonStartsKeeps ==
    ASSUME alone', Orderly, NEW p \in Process, DaemonStarts(p)
    PROVE  Orderly'
<1>0. Nobody
      BY Zenon DEF DaemonStarts
<1>1. TypeOK'
      BY NoneIsNoValue, HandshakeKeysAreKeys DEF Orderly, DaemonStarts, Startable, TypeOK, Run,
         File,
         Whole
<1>2. OneRuns'
      BY <1>0, NoneIsNoValue, HandshakeKeysAreKeys DEF Orderly, DaemonStarts, Startable, OneRuns,
         Runs,
         Nobody
<1>3. FileIsSound'
      BY NoneIsNoValue, HandshakeKeysAreKeys DEF Orderly, DaemonStarts, Startable, FileIsSound,
         FileIsWhole, Sound, Readable
<1>4. MemoryIsSound'
      BY NoneIsNoValue, HandshakeKeysAreKeys DEF Orderly, DaemonStarts, Startable, MemoryIsSound,
         FileIsSound, Sound, Readable, Runs, Whole
<1>5. SaveIsInOrder'
      BY NoneIsNoValue, HandshakeKeysAreKeys DEF Orderly, DaemonStarts, Startable, SaveIsInOrder,
         Runs
<1>6. ForgottenIsDeleted'
      BY NoneIsNoValue, HandshakeKeysAreKeys DEF Orderly, DaemonStarts, Startable,
         ForgottenIsDeleted
<1>7. DoctorReads'
      BY NoneIsNoValue, HandshakeKeysAreKeys DEF Orderly, DaemonStarts, Startable, DoctorReads,
         Readable
<1>8. MemoryIsAhead'
      BY NoneIsNoValue DEF Orderly, DaemonStarts, MemoryIsAhead, Runs, TypeOK, Run
<1> QED BY <1>1, <1>2, <1>3, <1>4, <1>5, <1>6, <1>7, <1>8 DEF Orderly

(* The socket bears on no file. *)
LEMMA UnlinkKeeps ==
    ASSUME Orderly, NEW p \in Process, Unlink(p)
    PROVE  Orderly'
<1>0. proc[p] \in Run /\ \A q \in Process \ {p} : proc[q] = None
      BY OthersStopped DEF Orderly, Unlink, Runs
<1>1. TypeOK'
      BY <1>0, NoneIsNoValue, HandshakeKeysAreKeys DEF Orderly, Unlink, TypeOK, Run
<1>2. OneRuns'
      BY <1>0 DEF Orderly, Unlink, OneRuns, Runs, TypeOK
<1>3. FileIsSound'
      BY <1>0, NoneIsNoValue, HandshakeKeysAreKeys DEF Orderly, Unlink, FileIsSound, FileIsWhole,
         Sound, Readable
<1>4. MemoryIsSound'
      BY <1>0, NoneIsNoValue, HandshakeKeysAreKeys DEF Orderly, Unlink, MemoryIsSound, Sound,
         Readable, Runs
<1>5. SaveIsInOrder'
      BY <1>0, NoneIsNoValue, HandshakeKeysAreKeys DEF Orderly, Unlink, SaveIsInOrder, Runs
<1>6. ForgottenIsDeleted'
      BY <1>0, NoneIsNoValue, HandshakeKeysAreKeys DEF Orderly, Unlink, ForgottenIsDeleted
<1>7. DoctorReads'
      BY <1>0, NoneIsNoValue, HandshakeKeysAreKeys DEF Orderly, Unlink, DoctorReads, Readable
<1>8. MemoryIsAhead'
      BY <1>0, NoneIsNoValue DEF Orderly, Unlink, MemoryIsAhead, Runs, TypeOK, Run
<1> QED BY <1>1, <1>2, <1>3, <1>4, <1>5, <1>6, <1>7, <1>8 DEF Orderly

(* A bind that fails ends the daemon; its net is on file or was lost before. *)
LEMMA BindKeeps ==
    ASSUME Orderly, NEW p \in Process, Bind(p)
    PROVE  Orderly'
<1>0. proc[p] \in Run /\ \A q \in Process \ {p} : proc[q] = None
      BY OthersStopped DEF Orderly, Bind, Runs
<1>1. TypeOK'
      BY <1>0, NoneIsNoValue, HandshakeKeysAreKeys DEF Orderly, Bind, TypeOK, Run
<1>2. OneRuns'
      BY <1>0 DEF Orderly, Bind, OneRuns, Runs, TypeOK
<1>3. FileIsSound'
      BY <1>0, NoneIsNoValue, HandshakeKeysAreKeys DEF Orderly, Bind, FileIsSound, FileIsWhole,
         Sound,
         Readable
<1>4. MemoryIsSound'
      BY <1>0, NoneIsNoValue, HandshakeKeysAreKeys DEF Orderly, Bind, MemoryIsSound, Sound,
         Readable,
         Runs, TypeOK, Run
<1>5. SaveIsInOrder'
      BY <1>0, NoneIsNoValue, HandshakeKeysAreKeys DEF Orderly, Bind, SaveIsInOrder, Runs, TypeOK,
         Run
<1>6. ForgottenIsDeleted'
      BY <1>0, NoneIsNoValue, HandshakeKeysAreKeys DEF Orderly, Bind, ForgottenIsDeleted
<1>7. DoctorReads'
      BY <1>0, NoneIsNoValue, HandshakeKeysAreKeys DEF Orderly, Bind, DoctorReads, Readable
<1>8. MemoryIsAhead'
      BY <1>0, NoneIsNoValue DEF Orderly, Bind, MemoryIsAhead, Runs, TypeOK, Run
<1> QED BY <1>1, <1>2, <1>3, <1>4, <1>5, <1>6, <1>7, <1>8 DEF Orderly

(* What is left is what is on file. *)
LEMMA KilledKeeps ==
    ASSUME Orderly, NEW p \in Process, Killed(p)
    PROVE  Orderly'
<1>0. proc[p] \in Run /\ \A q \in Process \ {p} : proc[q] = None
      BY OthersStopped DEF Orderly, Killed, Runs
<1>1. TypeOK'
      BY <1>0, NoneIsNoValue, HandshakeKeysAreKeys DEF Orderly, Killed, TypeOK
<1>2. OneRuns'
      BY <1>0 DEF Orderly, Killed, OneRuns, Runs, TypeOK
<1>3. FileIsSound'
      BY <1>0, NoneIsNoValue, HandshakeKeysAreKeys DEF Orderly, Killed, FileIsSound, FileIsWhole,
         Sound, Readable
<1>4. MemoryIsSound'
      BY <1>0, NoneIsNoValue, HandshakeKeysAreKeys DEF Orderly, Killed, MemoryIsSound, Sound,
         Readable, Runs
<1>5. SaveIsInOrder'
      BY <1>0, NoneIsNoValue, HandshakeKeysAreKeys DEF Orderly, Killed, SaveIsInOrder, Runs
<1>6. ForgottenIsDeleted'
      BY <1>0, NoneIsNoValue, HandshakeKeysAreKeys DEF Orderly, Killed, ForgottenIsDeleted
<1>7. DoctorReads'
      BY <1>0, NoneIsNoValue, HandshakeKeysAreKeys DEF Orderly, Killed, DoctorReads, Readable
<1>8. MemoryIsAhead'
      BY <1>0, NoneIsNoValue DEF Orderly, Killed, MemoryIsAhead, Runs, TypeOK, Run
<1> QED BY <1>1, <1>2, <1>3, <1>4, <1>5, <1>6, <1>7, <1>8 DEF Orderly

(* The key a command begins is in no net yet, and was never forgotten. *)
LEMMA CommandKeeps ==
    ASSUME Orderly, NEW p \in Process, NEW k \in Key, Command(p, k)
    PROVE  Orderly'
<1>0. proc[p] \in Run /\ \A q \in Process \ {p} : proc[q] = None
      BY OthersStopped DEF Orderly, Command, Runs, Idle
<1>1. TypeOK'
      BY <1>0, NoneIsNoValue, HandshakeKeysAreKeys DEF Orderly, Command, TypeOK, Run
<1>2. OneRuns'
      BY <1>0 DEF Orderly, Command, Idle, OneRuns, Runs, TypeOK
<1>3. FileIsSound'
      BY <1>0, NoneIsNoValue, HandshakeKeysAreKeys DEF Orderly, Command, FileIsSound, FileIsWhole,
         Sound, Readable
<1>4. MemoryIsSound'
      BY <1>0, NoneIsNoValue, HandshakeKeysAreKeys DEF Orderly, Command, Idle, MemoryIsSound, Sound,
         Readable, ForgottenIsDeleted, Runs, TypeOK
<1>5. SaveIsInOrder'
      BY <1>0, NoneIsNoValue, HandshakeKeysAreKeys DEF Orderly, Command, SaveIsInOrder, Runs, TypeOK
<1>6. ForgottenIsDeleted'
      BY <1>0, NoneIsNoValue, HandshakeKeysAreKeys DEF Orderly, Command, ForgottenIsDeleted
<1>7. DoctorReads'
      BY <1>0, NoneIsNoValue, HandshakeKeysAreKeys DEF Orderly, Command, DoctorReads, Readable
<1>8. MemoryIsAhead'
      BY <1>0, NoneIsNoValue DEF Orderly, Command, MemoryIsAhead, Runs, TypeOK, Run
<1> QED BY <1>1, <1>2, <1>3, <1>4, <1>5, <1>6, <1>7, <1>8 DEF Orderly

(* The net that is to be saved is the one in memory. *)
LEMMA GreetedKeeps ==
    ASSUME Orderly, NEW p \in Process, Greeted(p)
    PROVE  Orderly'
<1>0. proc[p] \in Run /\ \A q \in Process \ {p} : proc[q] = None
      BY OthersStopped DEF Orderly, Greeted, Runs, Idle
<1>1. TypeOK'
      BY <1>0, NoneIsNoValue, HandshakeKeysAreKeys DEF Orderly, Greeted, TypeOK, Run
<1>2. OneRuns'
      BY <1>0 DEF Orderly, Greeted, Idle, OneRuns, Runs, TypeOK
<1>3. FileIsSound'
      BY <1>0, NoneIsNoValue, HandshakeKeysAreKeys DEF Orderly, Greeted, FileIsSound, FileIsWhole,
         Sound, Readable
<1>4. MemoryIsSound'
      BY <1>0, NoneIsNoValue, HandshakeKeysAreKeys DEF Orderly, Greeted, Idle, MemoryIsSound, Sound,
         Readable, Runs
<1>5. SaveIsInOrder'
      BY <1>0, NoneIsNoValue, HandshakeKeysAreKeys DEF Orderly, Greeted, Idle, SaveIsInOrder, Runs
<1>6. ForgottenIsDeleted'
      BY <1>0, NoneIsNoValue, HandshakeKeysAreKeys DEF Orderly, Greeted, ForgottenIsDeleted
<1>7. DoctorReads'
      BY <1>0, NoneIsNoValue, HandshakeKeysAreKeys DEF Orderly, Greeted, DoctorReads, Readable
<1>8. MemoryIsAhead'
      BY <1>0, NoneIsNoValue DEF Orderly, Greeted, MemoryIsAhead, Runs, TypeOK, Run
<1> QED BY <1>1, <1>2, <1>3, <1>4, <1>5, <1>6, <1>7, <1>8 DEF Orderly

(* What a key that is made changes of a process and of the files. *)
LEMMA MintedRun ==
    ASSUME TypeOK, NEW p \in Process, Minted(p), proc[p].key \in Key
    PROVE  /\ TypeOK'
           /\ proc[p] \in Run /\ proc[p].job = "mint"
           /\ proc'[p] \in Run /\ proc'[p].job = "open"
           /\ proc'[p].prog = proc[p].prog /\ proc'[p].key = proc[p].key
           /\ proc'[p].net = proc[p].net \cup {proc[p].key}
           /\ \A q \in Process \ {p} : proc'[q] = proc[q]
           /\ \A k \in Key : store'[k] = IF k = proc[p].key THEN "whole" ELSE store[k]
<1>. DEFINE k == proc[p].key
            r == [proc[p] EXCEPT !.net = @ \cup {k}, !.job = "open"]
<1>1. proc[p] \in Run /\ proc[p].job = "mint"
      BY DEF Minted, At, Runs, TypeOK
<1>2. /\ r \in Run /\ r.job = "open" /\ r.prog = proc[p].prog /\ r.key = proc[p].key
      /\ r.net = proc[p].net \cup {k}
      BY <1>1 DEF Run
<1>3. proc' = [proc EXCEPT ![p] = r]
      BY Zenon DEF Minted
<1>. HIDE DEF r
<1>4. /\ proc' \in [Process -> Run \cup {None}] /\ proc'[p] = r
      /\ \A q \in Process \ {p} : proc'[q] = proc[q]
      BY <1>2, <1>3 DEF TypeOK
<1>5. /\ store' \in [Key -> {"absent", "partial", "whole", "deleted"}]
      /\ \A l \in Key : store'[l] = IF l = k THEN "whole" ELSE store[l]
      BY DEF Minted, TypeOK
<1>6. TypeOK'
      BY <1>4, <1>5 DEF Minted, TypeOK
<1> QED BY <1>1, <1>2, <1>4, <1>5, <1>6

(* The key is whole by the time its entry is in the net. *)
LEMMA MintedKeeps ==
    ASSUME Orderly, NEW p \in Process, Minted(p)
    PROVE  Orderly'
<1>. DEFINE k == proc[p].key
<1>a. Runs(p) /\ k \in Key \ forgot /\ store[k] = "partial"
      BY DEF Orderly, MemoryIsSound, Minted, At
<1>b. /\ TypeOK' /\ proc[p] \in Run /\ proc'[p] \in Run
      /\ proc[p].job = "mint" /\ proc'[p].job = "open"
      /\ proc'[p].prog = proc[p].prog /\ proc'[p].key = k /\ proc'[p].net = proc[p].net \cup {k}
      /\ \A l \in Key : store'[l] = IF l = k THEN "whole" ELSE store[l]
      BY <1>a, MintedRun DEF Orderly
<1>c. UNCHANGED <<toml, tmp, doctor, acked, forgot, failed>>
      BY DEF Minted
<1>0. \A q \in Process : Runs(q)' => q = p
      BY <1>a, OthersStopped, MintedRun DEF Orderly, Runs
<1>d. /\ acked \subseteq Key /\ forgot \subseteq Key /\ doctor \subseteq Key
      /\ proc[p].net \subseteq Key /\ (Whole(toml) => toml \subseteq Key)
      BY <1>b, HandshakeKeysAreKeys DEF Orderly, TypeOK, Run, File, Whole
<1>e. \A l \in Key : Readable(l) => Readable(l)'
      BY <1>b DEF Readable
<1>1. TypeOK'
      BY <1>b
<1>2. OneRuns'
      BY <1>0 DEF OneRuns
<1>3. FileIsSound'
      BY <1>c, <1>d, <1>e DEF Orderly, FileIsSound, FileIsWhole, Sound, Whole
<1>4. MemoryIsSound'
  <2>1. Sound(proc[p].net)'
    <3>1. CASE proc[p].prog = "init"
      <4>1. proc[p].net = {} /\ k \in Handshake /\ toml = None /\ acked = {}
            BY <1>a, <1>b, <3>1 DEF Orderly, MemoryIsSound, FileIsSound
      <4> QED BY <1>a, <1>b, <1>c, <4>1 DEF Sound, Readable
    <3>2. CASE proc[p].prog = "daemon"
      <4>1. Sound(proc[p].net)
            BY <1>a, <3>2 DEF Orderly, MemoryIsSound
      <4> QED BY <1>a, <1>b, <1>c, <1>d, <1>e, <4>1 DEF Sound, Readable
    <3> QED BY <1>b, <3>1, <3>2 DEF Run
  <2>2. /\ proc'[p].prog = "init" => toml' = None
        /\ proc'[p].prog = "daemon" => toml' # None
        BY <1>a, <1>b, <1>c DEF Orderly, MemoryIsSound
  <2> QED BY <1>0, <1>b, <2>1, <2>2 DEF MemoryIsSound
<1>5. SaveIsInOrder'
      BY <1>0, <1>b DEF SaveIsInOrder
<1>6. ForgottenIsDeleted'
      BY <1>a, <1>b, <1>c, <1>d DEF Orderly, ForgottenIsDeleted
<1>7. DoctorReads'
      BY <1>c, <1>d, <1>e DEF Orderly, DoctorReads
<1>8. MemoryIsAhead'
      BY <1>0, <1>a, <1>b, <1>c DEF Orderly, MemoryIsAhead
<1> QED BY <1>1, <1>2, <1>3, <1>4, <1>5, <1>6, <1>7, <1>8 DEF Orderly

(* Only the file beside is torn. *)
LEMMA TruncateKeeps ==
    ASSUME Orderly, NEW p \in Process, Truncate(p)
    PROVE  Orderly'
<1>0. proc[p] \in Run /\ \A q \in Process \ {p} : proc[q] = None
      BY OthersStopped DEF Orderly, Truncate, Runs, At
<1>1. TypeOK'
  <2>1. [proc[p] EXCEPT !.job = "write", !.fd = "tmp"] \in Run
        BY <1>0 DEF Run
  <2> QED BY <2>1 DEF Orderly, Truncate, TypeOK, File
<1>2. OneRuns'
      BY <1>0 DEF Orderly, Truncate, At, OneRuns, Runs, TypeOK
<1>3. FileIsSound'
      BY <1>0, NoneIsNoValue, HandshakeKeysAreKeys DEF Orderly, Truncate, FileIsSound, FileIsWhole,
         Sound, Readable
<1>4. MemoryIsSound'
      BY <1>0, NoneIsNoValue, HandshakeKeysAreKeys DEF Orderly, Truncate, At, MemoryIsSound, Sound,
         Readable, Runs, TypeOK
<1>5. SaveIsInOrder'
      BY <1>0, NoneIsNoValue, HandshakeKeysAreKeys DEF Orderly, Truncate, At, SaveIsInOrder, Runs,
         TypeOK
<1>6. ForgottenIsDeleted'
      BY <1>0, NoneIsNoValue, HandshakeKeysAreKeys DEF Orderly, Truncate, ForgottenIsDeleted
<1>7. DoctorReads'
      BY <1>0, NoneIsNoValue, HandshakeKeysAreKeys DEF Orderly, Truncate, DoctorReads, Readable
<1>8. MemoryIsAhead'
      BY <1>0, NoneIsNoValue DEF Orderly, Truncate, MemoryIsAhead, Runs, TypeOK, Run
<1> QED BY <1>1, <1>2, <1>3, <1>4, <1>5, <1>6, <1>7, <1>8 DEF Orderly

(* What a write changes of a process and of the files. *)
LEMMA WriteRun ==
    ASSUME TypeOK, NEW p \in Process, Write(p)
    PROVE  /\ TypeOK'
           /\ proc[p] \in Run /\ proc[p].job = "write"
           /\ proc'[p] \in Run /\ proc'[p].job = "rename"
           /\ proc'[p].prog = proc[p].prog /\ proc'[p].key = proc[p].key
           /\ proc'[p].net = proc[p].net
           /\ \A q \in Process \ {p} : proc'[q] = proc[q]
<1>. DEFINE r == [proc[p] EXCEPT !.job = "rename", !.fd = "none"]
<1>1. proc[p] \in Run /\ proc[p].job = "write"
      BY DEF Write, At, Runs, TypeOK
<1>2. /\ r \in Run /\ r.job = "rename" /\ r.prog = proc[p].prog /\ r.key = proc[p].key
      /\ r.net = proc[p].net
      BY <1>1 DEF Run
<1>3. proc' = [proc EXCEPT ![p] = r]
      BY Zenon DEF Write
<1>. HIDE DEF r
<1>4. /\ proc' \in [Process -> Run \cup {None}] /\ proc'[p] = r
      /\ \A q \in Process \ {p} : proc'[q] = proc[q]
      BY <1>2, <1>3 DEF TypeOK
<1>5. toml' \in File /\ tmp' \in File
      BY <1>1 DEF Write, Over, TypeOK, File, Run
<1>6. TypeOK'
      BY <1>4, <1>5 DEF Write, TypeOK
<1> QED BY <1>1, <1>2, <1>4, <1>6

(* Alone, it writes over what it truncated itself, and leaves no old end. *)
LEMMA WriteKeeps ==
    ASSUME Orderly, NEW p \in Process, Write(p)
    PROVE  Orderly'
<1>a. /\ TypeOK' /\ Runs(p) /\ proc[p] \in Run /\ proc'[p] \in Run
      /\ proc[p].job = "write" /\ proc'[p].job = "rename"
      /\ proc'[p].prog = proc[p].prog /\ proc'[p].key = proc[p].key /\ proc'[p].net = proc[p].net
      BY WriteRun, NoneIsNoValue DEF Orderly, Runs
<1>b. /\ proc[p].fd = "tmp" /\ tmp = Torn
      /\ (proc[p].key # None => proc[p].key \in proc[p].net)
      BY <1>a DEF Orderly, SaveIsInOrder
<1>c. UNCHANGED <<toml, store, doctor, acked, forgot, failed>> /\ tmp' = proc[p].net
      BY <1>b DEF Write, Over
<1>0. \A q \in Process : Runs(q)' => q = p
      BY <1>a, OthersStopped, WriteRun DEF Orderly, Runs
<1>1. TypeOK'
      BY <1>a
<1>2. OneRuns'
      BY <1>0 DEF OneRuns
<1>3. FileIsSound'
      BY <1>c DEF Orderly, FileIsSound, FileIsWhole, Sound, Readable
<1>4. MemoryIsSound'
  <2>1. \A net : Sound(net) => Sound(net)'
        BY <1>c DEF Sound, Readable
  <2>2. /\ proc[p].prog = "init" => toml = None
        /\ proc[p].prog = "daemon" => toml # None
        /\ Sound(proc[p].net)
        BY <1>a DEF Orderly, MemoryIsSound
  <2> QED BY <1>0, <1>a, <1>c, <2>1, <2>2 DEF MemoryIsSound
<1>5. SaveIsInOrder'
      BY <1>0, <1>a, <1>b, <1>c DEF SaveIsInOrder
<1>6. ForgottenIsDeleted'
      BY <1>c DEF Orderly, ForgottenIsDeleted
<1>7. DoctorReads'
      BY <1>c DEF Orderly, DoctorReads, Readable
<1>8. MemoryIsAhead'
      BY <1>0, <1>a, <1>c DEF Orderly, MemoryIsAhead
<1> QED BY <1>1, <1>2, <1>3, <1>4, <1>5, <1>6, <1>7, <1>8 DEF Orderly

(* The file beside is the net in memory, which has the key answered for. *)
LEMMA RenameKeeps ==
    ASSUME Orderly, NEW p \in Process, Rename(p)
    PROVE  Orderly'
<1>0. proc[p] \in Run /\ \A q \in Process \ {p} : proc[q] = None
      BY OthersStopped DEF Orderly, Rename, Runs, At, Done, Moved
<1>1. TypeOK'
  <2>1. Done(proc[p]) \in Run \cup {None}
        BY <1>0 DEF Done, Run
  <2>2. proc' \in [Process -> Run \cup {None}]
        BY <1>0, <2>1 DEF Rename, Runs
  <2>3. acked' \in SUBSET Key
        BY <1>0 DEF Orderly, Rename, Run, TypeOK
  <2> QED BY <2>2, <2>3 DEF Orderly, Rename, TypeOK, File
<1>2. OneRuns'
      BY <1>0 DEF Orderly, Rename, At, Done, Moved, OneRuns, Runs, TypeOK
<1>3. FileIsSound'
      BY <1>0, NoneIsNoValue, HandshakeKeysAreKeys DEF Orderly, Rename, At, FileIsSound,
         FileIsWhole,
         Sound, Readable, MemoryIsSound, SaveIsInOrder, Run
<1>4. MemoryIsSound'
  <2> SUFFICES ASSUME NEW q \in Process, Runs(q)'
               PROVE  /\ q = p /\ proc'[p] = Done(proc[p]) /\ proc[p].prog = "daemon"
                      /\ Sound(proc[p].net)'
      BY <1>0, NoneIsNoValue DEF Rename, MemoryIsSound, Done, Runs
  <2>1. q = p /\ proc'[p] = Done(proc[p]) /\ proc[p].prog = "daemon"
        BY <1>0 DEF Rename, Runs, Done, Run
  <2>2. proc[p].net \in SUBSET Key /\ Sound(proc[p].net)
        BY <1>0, <2>1 DEF Orderly, MemoryIsSound, Runs, Rename, At, Run
  <2>3. proc[p].key # None => proc[p].key \in proc[p].net
        BY <1>0 DEF Orderly, SaveIsInOrder, Rename, At
  <2>4. proc'[p].net = proc[p].net
        BY <1>0, <2>1 DEF Done, Run
  <2>5. Sound(proc[p].net)'
        BY <2>2, <2>3, <2>4 DEF Rename, Sound, Readable
  <2> QED BY <2>1, <2>5
<1>5. SaveIsInOrder'
      BY <1>0, NoneIsNoValue, HandshakeKeysAreKeys DEF Orderly, Rename, Done, SaveIsInOrder, Runs
<1>6. ForgottenIsDeleted'
      BY <1>0, NoneIsNoValue, HandshakeKeysAreKeys DEF Orderly, Rename, ForgottenIsDeleted
<1>7. DoctorReads'
      BY <1>0, NoneIsNoValue, HandshakeKeysAreKeys DEF Orderly, Rename, DoctorReads, Readable
<1>8. MemoryIsAhead'
      BY <1>0, NoneIsNoValue DEF Orderly, Rename, At, Done, MemoryIsAhead, SaveIsInOrder, Runs, Run
<1> QED BY <1>1, <1>2, <1>3, <1>4, <1>5, <1>6, <1>7, <1>8 DEF Orderly

(* A net keeps its new key when the save fails; that key was not answered for. *)
LEMMA FailsKeeps ==
    ASSUME Orderly, NEW p \in Process, Fails(p)
    PROVE  Orderly'
<1>0. proc[p] \in Run /\ \A q \in Process \ {p} : proc[q] = None
      BY OthersStopped DEF Orderly, Fails, Runs, Done
<1>1. TypeOK'
      BY <1>0, NoneIsNoValue, HandshakeKeysAreKeys DEF Orderly, Fails, Done, TypeOK, Run
<1>2. OneRuns'
      BY <1>0 DEF Orderly, Fails, Done, OneRuns, Runs, TypeOK
<1>3. FileIsSound'
      BY <1>0, NoneIsNoValue, HandshakeKeysAreKeys DEF Orderly, Fails, FileIsSound, FileIsWhole,
         Sound, Readable
<1>4. MemoryIsSound'
      BY <1>0, NoneIsNoValue, HandshakeKeysAreKeys DEF Orderly, Fails, Done, MemoryIsSound, Sound,
         Readable, Runs, Run
<1>5. SaveIsInOrder'
      BY <1>0, NoneIsNoValue, HandshakeKeysAreKeys DEF Orderly, Fails, Done, SaveIsInOrder, Runs
<1>6. ForgottenIsDeleted'
      BY <1>0, NoneIsNoValue, HandshakeKeysAreKeys DEF Orderly, Fails, ForgottenIsDeleted
<1>7. DoctorReads'
      BY <1>0, NoneIsNoValue, HandshakeKeysAreKeys DEF Orderly, Fails, DoctorReads, Readable
<1>8. MemoryIsAhead'
      BY <1>0, NoneIsNoValue DEF Orderly, Fails, Done, MemoryIsAhead, Runs, TypeOK, Run
<1> QED BY <1>1, <1>2, <1>3, <1>4, <1>5, <1>6, <1>7, <1>8 DEF Orderly

(* Nobody runs, so no memory has the key; it is no handshake key. *)
LEMMA ForgetKeeps ==
    ASSUME alone', Orderly, NEW k \in Key, Forget(k)
    PROVE  Orderly'
<1>1. TypeOK'
      BY NoneIsNoValue, HandshakeKeysAreKeys DEF Orderly, Forget, TypeOK, File, Whole
<1>2. OneRuns'
      BY NoneIsNoValue, HandshakeKeysAreKeys DEF Orderly, Forget, OneRuns, Runs
<1>3. FileIsSound'
  <2>1. toml \in SUBSET Key /\ Sound(toml)
        BY DEF Orderly, FileIsSound, Forget, Whole, TypeOK, File
  <2>2. toml' \in SUBSET Key /\ toml' # None /\ toml' # Torn
        BY <2>1, NoneIsNoValue DEF Forget
  <2>3. Sound(toml)'
        BY <2>1 DEF Orderly, TypeOK, Forget, Sound, Readable
  <2> QED BY <2>2, <2>3 DEF FileIsSound, FileIsWhole
<1>4. MemoryIsSound'
      BY NoneIsNoValue, HandshakeKeysAreKeys DEF Orderly, Forget, MemoryIsSound, Runs, Nobody
<1>5. SaveIsInOrder'
      BY NoneIsNoValue, HandshakeKeysAreKeys DEF Orderly, Forget, SaveIsInOrder, Runs
<1>6. ForgottenIsDeleted'
      BY NoneIsNoValue, HandshakeKeysAreKeys DEF Orderly, Forget, ForgottenIsDeleted, TypeOK
<1>7. DoctorReads'
      BY NoneIsNoValue, HandshakeKeysAreKeys DEF Orderly, Forget, DoctorReads
<1>8. MemoryIsAhead'
      BY NoneIsNoValue DEF Orderly, Forget, MemoryIsAhead, Runs, TypeOK, Run
<1> QED BY <1>1, <1>2, <1>3, <1>4, <1>5, <1>6, <1>7, <1>8 DEF Orderly

(* The doctor finds a file that parses. *)
LEMMA DoctorChecksHomeKeeps ==
    ASSUME Orderly, DoctorChecksHome
    PROVE  Orderly'
<1>1. TypeOK'
      BY NoneIsNoValue, HandshakeKeysAreKeys DEF Orderly, DoctorChecksHome, TypeOK
<1>2. OneRuns'
      BY NoneIsNoValue, HandshakeKeysAreKeys DEF Orderly, DoctorChecksHome, OneRuns, Runs
<1>3. FileIsSound'
      BY NoneIsNoValue, HandshakeKeysAreKeys DEF Orderly, DoctorChecksHome, FileIsSound,
         FileIsWhole,
         Sound, Readable
<1>4. MemoryIsSound'
      BY NoneIsNoValue, HandshakeKeysAreKeys DEF Orderly, DoctorChecksHome, MemoryIsSound, Sound,
         Readable, Runs
<1>5. SaveIsInOrder'
      BY NoneIsNoValue, HandshakeKeysAreKeys DEF Orderly, DoctorChecksHome, SaveIsInOrder, Runs
<1>6. ForgottenIsDeleted'
      BY NoneIsNoValue, HandshakeKeysAreKeys DEF Orderly, DoctorChecksHome, ForgottenIsDeleted
<1>7. DoctorReads'
      BY NoneIsNoValue, HandshakeKeysAreKeys DEF Orderly, DoctorChecksHome, DoctorReads,
         FileIsSound,
         FileIsWhole
<1>8. MemoryIsAhead'
      BY NoneIsNoValue DEF Orderly, DoctorChecksHome, MemoryIsAhead, Runs, TypeOK, Run
<1> QED BY <1>1, <1>2, <1>3, <1>4, <1>5, <1>6, <1>7, <1>8 DEF Orderly

(* The handshake keys on file have their secrets, ... *)
LEMMA DoctorListsKeysKeeps ==
    ASSUME Orderly, DoctorListsKeys
    PROVE  Orderly'
<1>1. TypeOK'
      BY NoneIsNoValue, HandshakeKeysAreKeys DEF Orderly, DoctorListsKeys, TypeOK
<1>2. OneRuns'
      BY NoneIsNoValue, HandshakeKeysAreKeys DEF Orderly, DoctorListsKeys, OneRuns, Runs
<1>3. FileIsSound'
      BY NoneIsNoValue, HandshakeKeysAreKeys DEF Orderly, DoctorListsKeys, FileIsSound, FileIsWhole,
         Sound, Readable
<1>4. MemoryIsSound'
      BY NoneIsNoValue, HandshakeKeysAreKeys DEF Orderly, DoctorListsKeys, MemoryIsSound, Sound,
         Readable, Runs
<1>5. SaveIsInOrder'
      BY NoneIsNoValue, HandshakeKeysAreKeys DEF Orderly, DoctorListsKeys, SaveIsInOrder, Runs
<1>6. ForgottenIsDeleted'
      BY NoneIsNoValue, HandshakeKeysAreKeys DEF Orderly, DoctorListsKeys, ForgottenIsDeleted
<1>7. DoctorReads'
      BY NoneIsNoValue, HandshakeKeysAreKeys DEF Orderly, DoctorListsKeys, DoctorReads, FileIsSound,
         Sound, Readable, Whole
<1>8. MemoryIsAhead'
      BY NoneIsNoValue DEF Orderly, DoctorListsKeys, MemoryIsAhead, Runs, TypeOK, Run
<1> QED BY <1>1, <1>2, <1>3, <1>4, <1>5, <1>6, <1>7, <1>8 DEF Orderly

(* ... and keep them while the doctor goes through the list. *)
LEMMA DoctorChecksKeyKeeps ==
    ASSUME Orderly, NEW k \in Key, DoctorChecksKey(k)
    PROVE  Orderly'
<1>1. TypeOK'
      BY NoneIsNoValue, HandshakeKeysAreKeys DEF Orderly, DoctorChecksKey, TypeOK
<1>2. OneRuns'
      BY NoneIsNoValue, HandshakeKeysAreKeys DEF Orderly, DoctorChecksKey, OneRuns, Runs
<1>3. FileIsSound'
      BY NoneIsNoValue, HandshakeKeysAreKeys DEF Orderly, DoctorChecksKey, FileIsSound, FileIsWhole,
         Sound, Readable
<1>4. MemoryIsSound'
      BY NoneIsNoValue, HandshakeKeysAreKeys DEF Orderly, DoctorChecksKey, MemoryIsSound, Sound,
         Readable, Runs
<1>5. SaveIsInOrder'
      BY NoneIsNoValue, HandshakeKeysAreKeys DEF Orderly, DoctorChecksKey, SaveIsInOrder, Runs
<1>6. ForgottenIsDeleted'
      BY NoneIsNoValue, HandshakeKeysAreKeys DEF Orderly, DoctorChecksKey, ForgottenIsDeleted
<1>7. DoctorReads'
      BY NoneIsNoValue, HandshakeKeysAreKeys DEF Orderly, DoctorChecksKey, DoctorReads, Readable
<1>8. MemoryIsAhead'
      BY NoneIsNoValue DEF Orderly, DoctorChecksKey, MemoryIsAhead, Runs, TypeOK, Run
<1> QED BY <1>1, <1>2, <1>3, <1>4, <1>5, <1>6, <1>7, <1>8 DEF Orderly

(* Nothing exists at first, which is sound. *)
LEMMA InitKeeps == Init => Orderly
  BY NoneIsNoValue DEF Init, Orderly, TypeOK, File, OneRuns, Runs, FileIsSound, FileIsWhole,
     MemoryIsSound, MemoryIsAhead, SaveIsInOrder, ForgottenIsDeleted, DoctorReads

(* And each step of a home where one process is alone keeps it. *)
LEMMA NextKeeps == ASSUME alone', Orderly, [Next]_vars PROVE Orderly'
<1>1. ASSUME NEW p \in Process, Daemon(p) \/ Works(p) PROVE Orderly'
      BY <1>1, DaemonStartsKeeps, UnlinkKeeps, BindKeeps, GreetedKeeps, CommandKeeps, MintedKeeps,
         TruncateKeeps, WriteKeeps, RenameKeeps, FailsKeeps DEF Daemon, Works
<1>2. ASSUME NEW p \in Process, Killed(p) \/ \E k \in Key : InitStarts(p, k) PROVE Orderly'
      BY <1>2, KilledKeeps, InitStartsKeeps
<1>3. ASSUME (\E k \in Key : Forget(k)) \/ Doctor PROVE Orderly'
      BY <1>3, ForgetKeeps, DoctorChecksHomeKeeps, DoctorListsKeysKeeps,
         DoctorChecksKeyKeeps DEF Doctor
<1>4. CASE UNCHANGED vars
      BY <1>4 DEF vars, Orderly, TypeOK, OneRuns, Runs, FileIsSound, FileIsWhole, Sound, Readable,
         MemoryIsSound, MemoryIsAhead, SaveIsInOrder, ForgottenIsDeleted, DoctorReads
<1> QED BY <1>1, <1>2, <1>3, <1>4 DEF Next

-----------------------------------------------------------------------------
(* Where processes share a home. *)

(* A key of a handshake that is whole stays so, no file takes a net but one *)
(* of a daemon, or of an `init` that is past its key: no step of anybody    *)
(* makes a net unusable.                                                    *)
LEMMA SharedKeeps == TypeOK /\ NetsAreUsable /\ [Next]_vars => TypeOK' /\ NetsAreUsable'
<1> SUFFICES ASSUME TypeOK, NetsAreUsable, [Next]_vars PROVE TypeOK' /\ NetsAreUsable'
    OBVIOUS
<1>1. ASSUME NEW p \in Process, NEW k \in Key, InitStarts(p, k) PROVE  TypeOK' /\ NetsAreUsable'
  <2>1. TypeOK'
        BY <1>1 DEF InitStarts, TypeOK, NetsAreUsable, Run
  <2>2. NetsAreUsable'
        BY <1>1 DEF InitStarts, NetsAreUsable, Usable, Readable, Runs
  <2> QED BY <2>1, <2>2
<1>2. ASSUME NEW p \in Process, DaemonStarts(p) PROVE  TypeOK' /\ NetsAreUsable'
  <2>1. TypeOK'
        BY <1>2 DEF DaemonStarts, Startable, TypeOK, NetsAreUsable, Run, File, Whole
  <2>2. NetsAreUsable'
        BY <1>2 DEF DaemonStarts, Startable, NetsAreUsable, Usable, Readable, Runs
  <2> QED BY <2>1, <2>2
<1>3. ASSUME NEW p \in Process, Unlink(p) PROVE  TypeOK' /\ NetsAreUsable'
  <2>1. TypeOK'
        BY <1>3 DEF Unlink, TypeOK, NetsAreUsable, Run, Runs
  <2>2. NetsAreUsable'
        BY <1>3 DEF Unlink, NetsAreUsable, Usable, Readable, Runs
  <2> QED BY <2>1, <2>2
<1>4. ASSUME NEW p \in Process, Bind(p) PROVE  TypeOK' /\ NetsAreUsable'
  <2>1. TypeOK'
        BY <1>4 DEF Bind, TypeOK, NetsAreUsable, Run, Runs
  <2>2. NetsAreUsable'
        BY <1>4 DEF Bind, TypeOK, NetsAreUsable, Usable, Readable, Run, Runs
  <2> QED BY <2>1, <2>2
<1>5. ASSUME NEW p \in Process, Killed(p) PROVE  TypeOK' /\ NetsAreUsable'
  <2>1. TypeOK'
        BY <1>5 DEF Killed, TypeOK, NetsAreUsable
  <2>2. NetsAreUsable'
        BY <1>5 DEF Killed, NetsAreUsable, Usable, Readable, Runs
  <2> QED BY <2>1, <2>2
<1>6. ASSUME NEW p \in Process, Greeted(p) PROVE  TypeOK' /\ NetsAreUsable'
  <2>1. TypeOK'
        BY <1>6 DEF Greeted, Idle, TypeOK, NetsAreUsable, Run, Runs
  <2>2. NetsAreUsable'
        BY <1>6 DEF Greeted, Idle, NetsAreUsable, Usable, Readable, Runs
  <2> QED BY <2>1, <2>2
<1>7. ASSUME NEW p \in Process, NEW k \in Key, Command(p, k) PROVE  TypeOK' /\ NetsAreUsable'
  <2>1. TypeOK'
    <3>1. proc[p] \in Run
          BY <1>7 DEF Command, Idle, Runs, TypeOK
    <3>2. proc' \in [Process -> Run \cup {None}]
          BY <1>7, <3>1 DEF Command, TypeOK, Run
    <3> QED BY <1>7, <3>1, <3>2, NoneIsNoValue DEF Command, Idle, TypeOK
  <2>2. NetsAreUsable'
        BY <1>7 DEF Command, Idle, TypeOK, NetsAreUsable, Usable, Readable, Runs
  <2> QED BY <2>1, <2>2
<1>8. ASSUME NEW p \in Process, Minted(p) PROVE  TypeOK' /\ NetsAreUsable'
  <2>. DEFINE k == proc[p].key
  <2>1. /\ Runs(p) /\ k \in Key
        /\ proc[p].prog = "init" => k \in Handshake /\ proc[p].net = {}
        BY <1>8 DEF Minted, At, NetsAreUsable
  <2>2. /\ TypeOK' /\ proc[p] \in Run /\ proc'[p] \in Run /\ proc'[p].job = "open"
        /\ proc'[p].prog = proc[p].prog /\ proc'[p].net = proc[p].net \cup {k}
        /\ \A q \in Process \ {p} : proc'[q] = proc[q]
        /\ \A l \in Key : store'[l] = IF l = k THEN "whole" ELSE store[l]
        BY <1>8, <2>1, MintedRun
  <2>3. \A net : Usable(net) => Usable(net)'
        BY <2>2, HandshakeKeysAreKeys DEF Usable, Readable
  <2>4. Usable(proc[p].net)'
    <3>1. CASE proc[p].prog = "init"
          BY <2>1, <2>2, <3>1 DEF Usable, Readable
    <3>2. CASE proc[p].prog = "daemon"
          BY <2>1, <2>2, <2>3, <3>2, HandshakeKeysAreKeys DEF NetsAreUsable, Usable, Readable
    <3> QED BY <2>2, <3>1, <3>2 DEF Run
  <2>5. NetsAreUsable'
        BY <1>8, <2>1, <2>2, <2>3, <2>4 DEF NetsAreUsable, Minted, Runs
  <2> QED BY <2>2, <2>5
<1>9. ASSUME NEW p \in Process, Truncate(p) PROVE  TypeOK' /\ NetsAreUsable'
  <2>1. TypeOK'
    <3>1. proc[p] \in Run
          BY <1>9 DEF Truncate, At, Runs, TypeOK
    <3>2. proc' \in [Process -> Run \cup {None}]
          BY <1>9, <3>1 DEF Truncate, TypeOK, Run
    <3> QED BY <1>9, <3>1, <3>2, NoneIsNoValue DEF Truncate, At, File, TypeOK
  <2>2. NetsAreUsable'
        BY <1>9 DEF Truncate, At, TypeOK, NetsAreUsable, Usable, Readable, Whole, Runs
  <2> QED BY <2>1, <2>2
<1>10. ASSUME NEW p \in Process, Write(p) PROVE  TypeOK' /\ NetsAreUsable'
  <2>1. /\ TypeOK' /\ Runs(p) /\ proc[p].job = "write" /\ proc'[p].job = "rename"
        /\ proc'[p].prog = proc[p].prog /\ proc'[p].net = proc[p].net
        /\ \A q \in Process \ {p} : proc'[q] = proc[q]
        BY <1>10, WriteRun DEF Write, At
  <2>2. \A net : Usable(net) => Usable(net)'
        BY <1>10 DEF Write, Usable, Readable
  <2>3. Usable(proc[p].net)
        BY <2>1 DEF NetsAreUsable
  <2>4. \A file \in {toml', tmp'} : Whole(file) => file \in {toml, tmp, proc[p].net}
        BY <1>10 DEF Write, Over, Whole
  <2>5. \A file \in {toml', tmp'} : Whole(file) => Usable(file)'
        BY <2>2, <2>3, <2>4 DEF NetsAreUsable
  <2>6. NetsAreUsable'
        BY <2>1, <2>2, <2>3, <2>5 DEF NetsAreUsable, Runs, Whole
  <2> QED BY <2>1, <2>6
<1>11. ASSUME NEW p \in Process, Rename(p) PROVE  TypeOK' /\ NetsAreUsable'
  <2>1. TypeOK'
    <3>1. proc[p] \in Run
          BY <1>11 DEF Rename, At, Runs, TypeOK
    <3>2. Done(proc[p]) \in Run \cup {None}
          BY <3>1 DEF Done, Run
    <3>3. ASSUME NEW q \in Process, Runs(q)
          PROVE  [proc[q] EXCEPT !.fd = Moved(@)] \in Run
      <4>1. proc[q] \in Run
            BY <3>3 DEF Runs, TypeOK
      <4>2. Moved(proc[q].fd) \in {"none", "tmp", "toml", "gone"}
            BY <4>1 DEF Moved, Run
      <4> QED BY <4>1, <4>2 DEF Run
    <3>4. proc' \in [Process -> Run \cup {None}]
          BY <1>11, <3>2, <3>3 DEF Rename
    <3> QED BY <1>11, <3>1, <3>4, NoneIsNoValue DEF Rename, At, File, Run, TypeOK
  <2>2. NetsAreUsable'
        BY <1>11 DEF Rename, At, Done, NetsAreUsable, Usable, Readable, Whole, Runs
  <2> QED BY <2>1, <2>2
<1>12. ASSUME NEW p \in Process, Fails(p) PROVE  TypeOK' /\ NetsAreUsable'
  <2>1. TypeOK'
    <3>1. proc[p] \in Run
          BY <1>12 DEF Fails, Runs, TypeOK
    <3>2. proc' \in [Process -> Run \cup {None}]
          BY <1>12, <3>1 DEF Fails, Done, TypeOK, Run
    <3> QED BY <1>12, <3>1, <3>2, NoneIsNoValue DEF Fails, TypeOK
  <2>2. NetsAreUsable'
        BY <1>12 DEF Fails, Done, TypeOK, NetsAreUsable, Usable, Readable, Run, Runs
  <2> QED BY <2>1, <2>2
<1>13. ASSUME NEW k \in Key, Forget(k) PROVE  TypeOK' /\ NetsAreUsable'
  <2>1. TypeOK'
        BY <1>13 DEF Forget, TypeOK, NetsAreUsable, File, Whole
  <2>2. NetsAreUsable'
        BY <1>13 DEF Forget, NetsAreUsable, Usable, Readable, Runs
  <2> QED BY <2>1, <2>2
<1>14. ASSUME Doctor PROVE  TypeOK' /\ NetsAreUsable'
  <2>1. TypeOK'
        BY <1>14 DEF Doctor, DoctorChecksHome, DoctorListsKeys, DoctorChecksKey, TypeOK,
           NetsAreUsable
  <2>2. NetsAreUsable'
        BY <1>14 DEF Doctor, DoctorChecksHome, DoctorListsKeys, DoctorChecksKey,
           NetsAreUsable, Usable, Readable, Runs
  <2> QED BY <2>1, <2>2
<1>15. ASSUME UNCHANGED vars PROVE  TypeOK' /\ NetsAreUsable'
  <2>1. TypeOK'
        BY <1>15 DEF vars, TypeOK, NetsAreUsable
  <2>2. NetsAreUsable'
        BY <1>15 DEF vars, NetsAreUsable, Usable, Readable, Runs
  <2> QED BY <2>1, <2>2
<1> QED
    BY <1>1, <1>2, <1>3, <1>4, <1>5, <1>6, <1>7, <1>8, <1>9, <1>10, <1>11, <1>12, <1>13,
       <1>14, <1>15
    DEF Next, Daemon, Works

-----------------------------------------------------------------------------
(* The whole of the invariant. *)

(* Processes that are alone after a step were so before it. *)
LEMMA AloneBefore == ASSUME [Next]_vars, alone' PROVE alone
<1>1. ASSUME NEW p \in Process, DaemonStarts(p) PROVE alone
      BY <1>1, Zenon DEF DaemonStarts
<1>2. ASSUME NEW k \in Key, Forget(k) PROVE alone
      BY <1>2, Zenon DEF Forget
<1>3. CASE alone' = alone
      BY <1>3
<1>4. \/ alone' = alone
      \/ \E p \in Process : DaemonStarts(p)
      \/ \E k \in Key : Forget(k)
      BY DEF Next, vars, Daemon, Works, Doctor, Unlink, Bind, Greeted, Command, Minted, Truncate,
         Write, Rename, Fails, Killed, InitStarts, DoctorChecksHome, DoctorListsKeys,
         DoctorChecksKey
<1> QED BY <1>1, <1>2, <1>3, <1>4

(* Nothing exists at first, which is sound. *)
LEMMA InitIInv == Init => IInv
<1>1. Init => TypeOK /\ NetsAreUsable
      BY DEF Init, TypeOK, File, NetsAreUsable, Whole, Runs
<1> QED BY <1>1, InitKeeps DEF IInv

(* IInv is inductive: nets stay usable whoever runs, and as long as          *)
(* processes are alone the save of daemon.rs and the start of `init` and the *)
(* daemon keep file, memory and keys consistent.                             *)
THEOREM Inductive == Spec => []IInv
<1>1. ASSUME IInv, [Next]_vars PROVE IInv'
  <2>1. TypeOK' /\ NetsAreUsable'
        BY <1>1, SharedKeeps DEF IInv
  <2>2. ASSUME alone' PROVE Orderly'
        BY <1>1, <2>2, AloneBefore, NextKeeps DEF IInv
  <2> QED BY <2>1, <2>2 DEF IInv
<1> QED BY <1>1, InitIInv, PTL DEF Spec

(* However many processes share a home, cut into each other's saves and     *)
(* lose edits: a network.toml that is whole is one a daemon starts from     *)
(* (init, save, Keystore::insert before every push).                        *)
THEOREM SharedHomesStart == Spec => []WholeIsStartable
<1>1. IInv => WholeIsStartable
      BY DEF IInv, NetsAreUsable, WholeIsStartable, Startable, Usable
<1> QED BY <1>1, Inductive, PTL

(* Wherever everything stopped, between any two calls of `init`, of a save or of *)
(* a command, the next `init` or `daemon` goes on from there.                     *)
THEOREM AreNeverStuck == Spec => []NeverStuck
<1>1. IInv => NeverStuck
      BY DEF IInv, Orderly, NeverStuck, FileIsSound, FileIsWhole, Sound, Startable, Whole
<1> QED BY <1>1, Inductive, PTL

(* What `init` or a command was answered for is on file, with its secret, until it *)
(* is forgotten: save renames before the answer, and insert comes before save.    *)
THEOREM AnsweredAreKept == Spec => []AnsweredIsKept
<1>1. IInv => AnsweredIsKept
      BY DEF IInv, Orderly, AnsweredIsKept, FileIsSound, FileIsWhole, Sound, Whole
<1> QED BY <1>1, Inductive, PTL

(* What the operator forgot while no daemon ran does not come back: the daemon     *)
(* reads the file when it starts and never the one that was left beside.          *)
THEOREM ForgottenAreGone == Spec => []ForgottenIsGone
<1>1. IInv => ForgottenIsGone
      BY DEF IInv, Orderly, ForgottenIsGone, FileIsSound, Sound, Whole
<1> QED BY <1>1, Inductive, PTL

(* `sirji doctor` finds nothing wrong in a home that nobody harmed, even while a   *)
(* daemon saves: check_home and check_keys look at a whole file and whole keys.   *)
THEOREM DoctorsAreCalm == Spec => []DoctorIsCalm
<1>1. IInv => DoctorIsCalm
      BY DEF IInv, Orderly, DoctorIsCalm, DoctorReads
<1> QED BY <1>1, Inductive, PTL

-----------------------------------------------------------------------------
(* Home implements SavedHome.  The memory is the net of the one that runs. *)

LEMMA MemoryOfOne ==
    ASSUME NEW p \in Process, Runs(p), \A q \in Process \ {p} : ~Runs(q)
    PROVE  Memory = proc[p].net
<1>1. Running = {p}
      BY DEF Running
<1>2. UNION {proc[q].net : q \in {p}} = proc[p].net
      OBVIOUS
<1> QED BY <1>1, <1>2 DEF Memory

LEMMA MemoryOfNone == Nobody => Memory = None
  BY DEF Memory, Running, Nobody

(* The same of the state after a step. *)
LEMMA NextMemoryOfOne ==
    ASSUME NEW p \in Process, Runs(p)', \A q \in Process \ {p} : ~Runs(q)'
    PROVE  Memory' = proc'[p].net
<1>1. Running' = {p}
      BY DEF Running
<1>2. UNION {proc'[q].net : q \in {p}} = proc'[p].net
      OBVIOUS
<1> QED BY <1>1, <1>2 DEF Memory

LEMMA NextMemoryOfNone == Nobody' => Memory' = None
  BY DEF Memory, Running, Nobody

(* What a step of the one that runs does to the memory. *)
LEMMA MemoryOfStep ==
    ASSUME Orderly, NEW p \in Process, Runs(p), \A q \in Process \ {p} : proc'[q] = proc[q]
    PROVE  /\ proc[p] \in Run /\ Memory = proc[p].net
           /\ proc'[p] # None => Memory' = proc'[p].net
           /\ proc'[p] = None => Memory' = None
<1>1. proc[p] \in Run /\ \A q \in Process \ {p} : ~Runs(q)
      BY OthersStopped DEF Orderly, Runs
<1>2. \A q \in Process \ {p} : ~Runs(q)'
      BY <1>1 DEF Runs
<1>3. Memory = proc[p].net
      BY <1>1, MemoryOfOne
<1>4. ASSUME proc'[p] # None PROVE Memory' = proc'[p].net
      BY <1>2, <1>4, NextMemoryOfOne DEF Runs
<1>5. ASSUME proc'[p] = None PROVE Memory' = None
      BY <1>2, <1>5, NextMemoryOfNone DEF Runs, Nobody
<1> QED BY <1>1, <1>3, <1>4, <1>5

(* And one that starts where nobody ran. *)
LEMMA MemoryOfStart ==
    ASSUME Orderly, Nobody, NEW p \in Process, NEW r \in Run, proc' = [proc EXCEPT ![p] = r]
    PROVE  Memory = None /\ Memory' = r.net
<1>1. Memory = None
      BY MemoryOfNone
<1>2. proc'[p] = r /\ \A q \in Process \ {p} : ~Runs(q)'
      BY DEF Orderly, TypeOK, Nobody, Runs
<1>3. Runs(p)'
      BY <1>2, NoneIsNoValue DEF Runs
<1> QED BY <1>1, <1>2, <1>3, NextMemoryOfOne

LEMMA InitStartsIsBegin ==
    ASSUME Orderly, NEW p \in Process, NEW k \in Key, InitStarts(p, k)
    PROVE  Saved!Begin
<1> DEFINE r == [prog |-> "init", ctl |-> "unlink", net |-> {}, job |-> "mint", key |-> k,
                 fd |-> "none"]
<1>1. Memory = None /\ Memory' = {}
  <2>1. r \in Run
        BY DEF Run
  <2>2. Nobody /\ proc' = [proc EXCEPT ![p] = r]
        BY DEF InitStarts
  <2> HIDE DEF r
  <2>3. Memory = None /\ Memory' = r.net
        BY <2>1, <2>2, MemoryOfStart
  <2> QED BY <2>3 DEF r
<1>2. {q \in Key : Readable(q)}' = {q \in Key : Readable(q)}
      BY DEF InitStarts, Readable, Orderly, TypeOK
<1> QED BY <1>1, <1>2 DEF Saved!Begin, InitStarts

LEMMA DaemonStartsIsLoad ==
    ASSUME alone', Orderly, NEW p \in Process, DaemonStarts(p)
    PROVE  Saved!Load
<1> DEFINE r == [prog |-> "daemon", ctl |-> "unlink", net |-> toml, job |-> "idle", key |-> None,
                 fd |-> "none"]
<1>1. toml \in SUBSET Key /\ toml # None
      BY DEF DaemonStarts, Startable, Whole, Orderly, TypeOK, File
<1>2. Memory = None /\ Memory' = toml
  <2>1. r \in Run
        BY <1>1 DEF Run
  <2>2. Nobody
        BY Zenon DEF DaemonStarts
  <2>3. proc' = [proc EXCEPT ![p] = r]
        BY DEF DaemonStarts
  <2> HIDE DEF r
  <2>4. Memory = None /\ Memory' = r.net
        BY <2>1, <2>2, <2>3, MemoryOfStart
  <2> QED BY <2>4 DEF r
<1>3. toml \subseteq {q \in Key : Readable(q)}
      BY <1>1 DEF Orderly, FileIsSound, Sound
<1>4. {q \in Key : Readable(q)}' = {q \in Key : Readable(q)}
      BY DEF DaemonStarts, Readable
<1> QED BY <1>1, <1>2, <1>3, <1>4 DEF Saved!Load, DaemonStarts

LEMMA MintedIsMake ==
    ASSUME Orderly, NEW p \in Process, Minted(p)
    PROVE  \E k \in Key : Saved!Make(k)
<1> DEFINE k == proc[p].key
<1>4. Runs(p) /\ k \in Key \ forgot /\ store[k] = "partial"
      BY DEF Orderly, MemoryIsSound, Minted, At
<1>0. /\ proc[p] \in Run /\ proc'[p] \in Run /\ proc'[p].net = proc[p].net \cup {k}
      /\ \A q \in Process \ {p} : proc'[q] = proc[q]
      /\ \A l \in Key : store'[l] = IF l = k THEN "whole" ELSE store[l]
      BY <1>4, MintedRun DEF Orderly
<1>1. Memory = proc[p].net
      BY <1>0, <1>4, MemoryOfStep
<1>3. Memory' = proc[p].net \cup {k}
      BY <1>0, <1>4, MemoryOfStep, NoneIsNoValue
<1>5. k \notin {q \in Key : Readable(q)}
      BY <1>4 DEF Readable
<1>6. k \notin proc[p].net
  <2>1. CASE proc[p].prog = "init"
        BY <1>0, <1>4, <2>1 DEF Orderly, MemoryIsSound, Minted, At
  <2>2. CASE proc[p].prog = "daemon"
        BY <1>0, <1>4, <2>2 DEF Orderly, MemoryIsSound, Sound, Readable
  <2> QED BY <1>0, <2>1, <2>2 DEF Run
<1>7. {q \in Key : Readable(q)}' = {q \in Key : Readable(q)} \cup {k}
      BY <1>0, <1>4 DEF Readable
<1>8. Memory # None
      BY <1>0, <1>1, NoneIsNoValue DEF Run
<1>9. Saved!Make(k)
      BY <1>1, <1>3, <1>4, <1>5, <1>6, <1>7, <1>8 DEF Saved!Make, Minted
<1> QED BY <1>4, <1>9

(* All that the process has in memory is in the file beside by now. *)
LEMMA RenameIsSave ==
    ASSUME Orderly, NEW p \in Process, Rename(p)
    PROVE  Saved!Save
<1>0. Runs(p) /\ \A q \in Process \ {p} : proc[q] = None /\ proc'[q] = None
  <2>1. Runs(p)
        BY DEF Rename, At
  <2>2. \A q \in Process \ {p} : proc[q] = None
        BY <2>1, OthersStopped DEF Orderly
  <2> QED BY <2>1, <2>2 DEF Rename, Runs
<1>1. proc[p] \in Run /\ Memory = proc[p].net /\ proc'[p] = Done(proc[p])
      BY <1>0, MemoryOfStep DEF Rename
<1>2. Sound(proc[p].net) /\ tmp = proc[p].net
      BY <1>0, <1>1 DEF Orderly, MemoryIsSound, SaveIsInOrder, Rename, At, Run
<1>3. Memory \notin {None, {}}
      BY <1>1, <1>2, NoneIsNoValue DEF Sound, Run
<1>4. toml # None => toml \subseteq Memory
      BY <1>0, <1>1 DEF Orderly, MemoryIsAhead, MemoryIsSound, Run
<1>5. \E S \in SUBSET Memory : acked' = acked \cup S
  <2>1. proc[p].key # None => proc[p].key \in proc[p].net
        BY <1>0 DEF Orderly, SaveIsInOrder, Rename, At
  <2>2. ({proc[p].key} \ {None}) \in SUBSET Memory
        BY <1>1, <2>1
  <2> QED BY <2>2 DEF Rename
<1>6. Memory' = IF toml = None THEN None ELSE Memory
  <2>1. CASE proc[p].prog = "init"
    <3>1. toml = None
          BY <1>0, <2>1 DEF Orderly, MemoryIsSound
    <3>2. Memory' = None
          BY <1>0, <1>1, <2>1, MemoryOfStep DEF Done
    <3> QED BY <3>1, <3>2
  <2>2. CASE proc[p].prog = "daemon"
    <3>1. toml # None
          BY <1>0, <2>2 DEF Orderly, MemoryIsSound
    <3>2. proc'[p] \in Run /\ proc'[p].net = proc[p].net
          BY <1>1, <2>2 DEF Done, Run
    <3>3. Memory' = proc'[p].net
          BY <1>0, <3>2, MemoryOfStep, NoneIsNoValue
    <3> QED BY <1>1, <3>1, <3>2, <3>3
  <2> QED BY <1>1, <2>1, <2>2 DEF Run
<1>7. toml' = Memory
      BY <1>1, <1>2 DEF Rename
<1>8. {q \in Key : Readable(q)}' = {q \in Key : Readable(q)}
      BY DEF Rename, Readable
<1> QED BY <1>3, <1>4, <1>5, <1>6, <1>7, <1>8 DEF Saved!Save, Rename

LEMMA ForgetIsForget ==
    ASSUME alone', Orderly, NEW k \in Key, Forget(k)
    PROVE  Saved!Forget(k)
<1>1. Memory = None /\ Memory' = None
      BY MemoryOfNone, NextMemoryOfNone DEF Forget, Nobody, Runs
<1>2. {q \in Key : Readable(q)}' = {q \in Key : Readable(q)} \ {k}
      BY DEF Forget, Readable, Orderly, TypeOK
<1> QED BY <1>1, <1>2 DEF Saved!Forget, Forget, Whole

(* A step that ends the process, or leaves its net alone. *)
LEMMA OthersStopOrStutter ==
    ASSUME Orderly, NEW p \in Process, Runs(p),
           \A q \in Process \ {p} : proc'[q] = proc[q],
           proc'[p] = None \/ (proc'[p] # None /\ proc'[p].net = proc[p].net),
           UNCHANGED <<toml, acked, forgot>>, \A k \in Key : Readable(k)' = Readable(k)
    PROVE  Saved!Stop \/ UNCHANGED Saved!vars
<1>1. Memory = proc[p].net /\ Memory # None
      BY MemoryOfStep, NoneIsNoValue DEF Run
<1>2. Memory' = None \/ Memory' = Memory
      BY <1>1, MemoryOfStep
<1>3. {q \in Key : Readable(q)}' = {q \in Key : Readable(q)}
      OBVIOUS
<1> QED BY <1>1, <1>2, <1>3 DEF Saved!Stop, Saved!vars

(* Every step of Home is one of SavedHome, or leaves what that speaks of alone. *)
LEMMA StepIsSaved == ASSUME alone', Orderly, [Next]_vars PROVE [Saved!Next]_(Saved!vars)
<1>1. ASSUME NEW p \in Process, Unlink(p) \/ Bind(p) \/ Greeted(p) \/ Killed(p) \/ Fails(p)
                                \/ Truncate(p) \/ Write(p) \/ \E k \in Key : Command(p, k)
      PROVE  Saved!Stop \/ UNCHANGED Saved!vars
  <2>1. Runs(p) /\ UNCHANGED <<acked, forgot>> /\ \A q \in Process \ {p} : proc'[q] = proc[q]
        BY <1>1 DEF Unlink, Bind, Greeted, Idle, Killed, Fails, Truncate, Write, At, Command,
           Runs, Orderly, TypeOK, Run
  <2>2. proc[p] \in Run
        BY <2>1 DEF Orderly, TypeOK, Runs
  <2>3. UNCHANGED toml
        BY <1>1, <2>1 DEF Unlink, Bind, Greeted, Killed, Fails, Truncate, Write, At, Command,
           Orderly, SaveIsInOrder
  <2>4. \A k \in Key : Readable(k)' = Readable(k)
        BY <1>1 DEF Unlink, Bind, Greeted, Killed, Fails, Truncate, Write, Command, Readable,
           Orderly, TypeOK
  <2>5. \/ proc'[p] = None
        \/ proc'[p] # None /\ proc'[p].net = proc[p].net
    <3>1. CASE Unlink(p) \/ Greeted(p)
      <4>1. \/ proc' = [proc EXCEPT ![p].ctl = "bind"]
            \/ proc' = [proc EXCEPT ![p].job = "open"]
            BY <3>1 DEF Unlink, Greeted
      <4> QED BY <4>1, <2>2, NoneIsNoValue DEF Orderly, TypeOK, Run
    <3>6. CASE Bind(p) \/ Killed(p)
      <4>1. \/ proc' = [proc EXCEPT ![p].ctl = "listening"]
            \/ proc' = [proc EXCEPT ![p] = None]
            BY <3>6 DEF Bind, Killed
      <4> QED BY <4>1, <2>2, NoneIsNoValue DEF Orderly, TypeOK, Run
    <3>2. CASE Fails(p)
      <4>1. proc'[p] = Done(proc[p])
            BY <3>2 DEF Fails, Orderly, TypeOK
      <4> QED BY <4>1, <2>2, NoneIsNoValue DEF Done, Run
    <3>3. CASE Truncate(p)
      <4>. DEFINE r == [proc[p] EXCEPT !.job = "write", !.fd = "tmp"]
      <4>1. proc' = [proc EXCEPT ![p] = r]
            BY <3>3, Zenon DEF Truncate
      <4>2. r \in Run /\ r.net = proc[p].net
            BY <2>2 DEF Run
      <4>. HIDE DEF r
      <4> QED BY <4>1, <4>2, NoneIsNoValue DEF Orderly, TypeOK
    <3>5. CASE Write(p)
          BY <3>5, WriteRun, NoneIsNoValue DEF Orderly
    <3>4. ASSUME NEW k \in Key, Command(p, k)
          PROVE  proc'[p] # None /\ proc'[p].net = proc[p].net
      <4>. DEFINE r == [proc[p] EXCEPT !.job = "mint", !.key = k]
      <4>1. proc' = [proc EXCEPT ![p] = r]
            BY <3>4, Zenon DEF Command
      <4>2. r \in Run /\ r.net = proc[p].net
            BY <2>2 DEF Run
      <4>. HIDE DEF r
      <4> QED BY <4>1, <4>2, NoneIsNoValue DEF Orderly, TypeOK
    <3> QED BY <1>1, <3>1, <3>2, <3>3, <3>4, <3>5, <3>6
  <2> QED BY <2>1, <2>3, <2>4, <2>5, OthersStopOrStutter
<1>2. ASSUME Doctor \/ UNCHANGED vars PROVE UNCHANGED Saved!vars
      BY <1>2 DEF Doctor, DoctorChecksHome, DoctorListsKeys, DoctorChecksKey, vars, Saved!vars,
         Memory, Running, Runs, Readable
<1>3. ASSUME NEW p \in Process, NEW k \in Key, InitStarts(p, k) PROVE Saved!Next
      BY <1>3, InitStartsIsBegin DEF Saved!Next
<1>4. ASSUME NEW p \in Process, DaemonStarts(p) PROVE Saved!Next
      BY <1>4, DaemonStartsIsLoad DEF Saved!Next
<1>5. ASSUME NEW p \in Process, Minted(p) PROVE Saved!Next
      BY <1>5, MintedIsMake DEF Saved!Next
<1>6. ASSUME NEW p \in Process, Rename(p) PROVE Saved!Next
      BY <1>6, RenameIsSave DEF Saved!Next
<1>7. ASSUME NEW k \in Key, Forget(k) PROVE Saved!Next
      BY <1>7, ForgetIsForget DEF Saved!Next
<1>8. Saved!Stop => Saved!Next
      BY DEF Saved!Next
<1> QED BY <1>1, <1>2, <1>3, <1>4, <1>5, <1>6, <1>7, <1>8 DEF Next, Daemon, Works

(* Seen from outside, and as long as processes are alone, a save replaces   *)
(* network.toml in one step by all that is in memory, whatever is killed or *)
(* fails between its three calls; memory comes from the file and from keys  *)
(* whose secrets were written first (save, init, start).                    *)
THEOREM HomeImplementsSavedHome == Spec => SavesAreAtomic
<1>1. Init => Saved!Init
      BY MemoryOfNone DEF Init, Saved!Init, Nobody, Runs, Readable
<1>2. ASSUME IInv, [Next]_vars PROVE [alone' => Saved!Next]_(Saved!vars)
  <2>1. CASE alone'
        BY <1>2, <2>1, AloneBefore, StepIsSaved DEF IInv
  <2>2. CASE ~alone'
        BY <2>2
  <2> QED BY <2>1, <2>2
<1> QED BY Inductive, <1>1, <1>2, PTL DEF Spec, SavesAreAtomic
=============================================================================
