------------------------------ MODULE FileLock ------------------------------
(***************************************************************************)
(* withFileLock (src/learning/claim-file-lock.ts): mutual exclusion between *)
(* processes by creating `<target>.lock' exclusively.  A lock whose file   *)
(* is older than STALE_LOCK_MS is taken for abandoned and removed by a     *)
(* process that waits; who has not got it after waitMs gives up.           *)
(*                                                                         *)
(* Looking at a lock's age and unlinking it are two system calls, and both *)
(* go by the file's name: what is removed is whatever lock is there then.  *)
(***************************************************************************)
EXTENDS Naturals

CONSTANTS
    Proc,
    NoProc,   \* nobody: there is no lock file
    Stale,    \* STALE_LOCK_MS, in ticks
    Wait,     \* waitMs, in ticks
    Overstay, \* may the function run for longer than Stale?
    Crashes   \* may a process die?

ASSUME FileLockAssumption ==
    /\ NoProc \notin Proc
    /\ Stale \in Nat
    /\ Wait \in Nat
    /\ Overstay \in BOOLEAN
    /\ Crashes \in BOOLEAN

VARIABLES
    lock,   \* who created the lock file that is there
    age,    \* ticks since then, up to Stale + 1
    pc,     \* where each process is
    waited  \* ticks each process has waited, up to Wait

vars == <<lock, age, pc, waited>>

Where == {"idle", "open", "stat", "unlink", "sleep", "inside", "leave", "failed", "dead"}

TypeOK ==
    /\ lock \in Proc \cup {NoProc}
    /\ age \in 0 .. Stale + 1
    /\ pc \in [Proc -> Where]
    /\ waited \in [Proc -> 0 .. Wait]

Init ==
    /\ lock = NoProc
    /\ age = 0
    /\ pc = [p \in Proc |-> "idle"]
    /\ waited = [p \in Proc |-> 0]

Move(p, from, to) == pc[p] = from /\ pc' = [pc EXCEPT ![p] = to]

Request(p) ==
    /\ Move(p, "idle", "open")
    /\ waited' = [waited EXCEPT ![p] = 0]
    /\ UNCHANGED <<lock, age>>

\* openSync(lockPath, 'wx').
Open(p) ==
    /\ waited[p] < Wait
    /\ IF lock = NoProc
       THEN Move(p, "open", "inside") /\ lock' = p /\ age' = 0
       ELSE Move(p, "open", "stat") /\ UNCHANGED <<lock, age>>
    /\ UNCHANGED waited

\* Mutant: a lock is stale one tick too early.
StatLockEarly(p) ==
    /\ Move(p, "stat", IF lock # NoProc /\ age >= Stale THEN "unlink" ELSE "sleep")
    /\ UNCHANGED <<lock, age, waited>>

\* removeStaleLock: looks at the age of the lock ...
StatLock(p) ==
    /\ Move(p, "stat", IF lock # NoProc /\ age > Stale THEN "unlink" ELSE "sleep")
    /\ UNCHANGED <<lock, age, waited>>

\* ... and unlinks it.
UnlinkStale(p) ==
    /\ Move(p, "unlink", "sleep")
    /\ lock' = NoProc
    /\ UNCHANGED <<age, waited>>

Retry(p) ==
    /\ Move(p, "sleep", "open")
    /\ UNCHANGED <<lock, age, waited>>

\* Mutant: the deadline is passed by, off by one.
GiveUpLate(p) ==
    /\ waited[p] > Wait
    /\ Move(p, "open", "failed")
    /\ UNCHANGED <<lock, age, waited>>

GiveUp(p) ==
    /\ waited[p] = Wait
    /\ Move(p, "open", "failed")
    /\ UNCHANGED <<lock, age, waited>>

\* fn has returned or thrown.
Finish(p) ==
    /\ Move(p, "inside", "leave")
    /\ UNCHANGED <<lock, age, waited>>

\* The finally block: the lock file that is there is unlinked.
Release(p) ==
    /\ Move(p, "leave", "idle")
    /\ lock' = NoProc
    /\ UNCHANGED <<age, waited>>

Crash(p) ==
    /\ Crashes
    /\ pc[p] \notin {"idle", "failed", "dead"}
    /\ pc' = [pc EXCEPT ![p] = "dead"]
    /\ UNCHANGED <<lock, age, waited>>

\* Time passes.  Unless Overstay, who holds the lock is done with it before
\* it looks abandoned.
Tick ==
    /\ Overstay \/ age < Stale \/ \A p \in Proc : pc[p] \notin {"inside", "leave"}
    /\ age' = IF age <= Stale THEN age + 1 ELSE age
    /\ waited' = [p \in Proc |->
                    IF pc[p] \in {"open", "stat", "unlink", "sleep"} /\ waited[p] < Wait
                    THEN waited[p] + 1 ELSE waited[p]]
    /\ UNCHANGED <<lock, pc>>

Step(p) ==
    \/ Open(p) \/ StatLock(p) \/ UnlinkStale(p) \/ Retry(p) \/ GiveUp(p)
    \/ Finish(p) \/ Release(p)

Next == Tick \/ \E p \in Proc : Request(p) \/ Step(p) \/ Crash(p)

Spec == Init /\ [][Next]_vars

\* Processes keep running, and time keeps passing.
FairSpec == Spec /\ WF_vars(Tick) /\ \A p \in Proc : WF_vars(Step(p))

-----------------------------------------------------------------------------

\* At most one process is inside (`exclusive').
MutualExclusion ==
    \A p, q \in Proc : pc[p] = "inside" /\ pc[q] = "inside" => p = q

NobodyDied == \A p \in Proc : pc[p] # "dead"

\* Until a process dies, whoever is inside, or about to unlink the lock on its
\* way out, is the one who created it: nobody unlinks the lock of another.
HolderOwnsLock ==
    NobodyDied => \A p \in Proc : pc[p] \in {"inside", "leave"} => lock = p

\* A request is served or turned down; nobody waits for a dead holder.
RequestEnds ==
    \A p \in Proc : pc[p] = "open" ~> pc[p] \in {"inside", "failed", "dead"}
=============================================================================
