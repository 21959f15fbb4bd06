--------------------------- MODULE InstanceLease ----------------------------
(***************************************************************************)
(* The instance lease (src/atlas/instance-lease.ts, taken by src/cli.ts    *)
(* when the program starts): the first process on a machine writes, those  *)
(* started while its lease is alive and fresh run read-only.  Which        *)
(* processes ExecGraph calls WritableProc is decided here.                 *)
(*                                                                         *)
(* Reading the lease and renaming a new one over it are two steps, for an  *)
(* acquisition as for a heartbeat.  Time advances in ticks of a heartbeat  *)
(* interval.  The lease is not released on exit (releaseInstanceLease has  *)
(* no caller): it dies with the process or grows old.                      *)
(***************************************************************************)
EXTENDS Naturals

CONSTANTS
    Instance,   \* processes; each is started once
    NoInstance, \* nobody: there is no lease file
    Ttl,        \* DEFAULT_LEASE_TTL_MS, in heartbeat intervals
    Concurrent, \* may two processes be starting at the same time?
    Stalls      \* may a writer miss its heartbeats while it is alive?

ASSUME InstanceLeaseAssumption ==
    /\ NoInstance \notin Instance
    /\ Ttl \in Nat \ {0, 1}
    /\ Concurrent \in BOOLEAN
    /\ Stalls \in BOOLEAN

VARIABLES
    holder,   \* the instance id in the lease file
    leaseAge, \* ticks since its heartbeat, up to Ttl
    role,     \* where each process is
    due       \* is the process's heartbeat timer due?

leaseVars == <<holder, leaseAge, role, due>>

Writing == {"writer", "beat"}

LeaseTypeOK ==
    /\ holder \in Instance \cup {NoInstance}
    /\ leaseAge \in 0 .. Ttl
    /\ role \in [Instance -> {"off", "claim", "readonly", "gone"} \cup Writing]
    /\ due \in [Instance -> BOOLEAN]

LeaseInit ==
    /\ holder = NoInstance
    /\ leaseAge = 0
    /\ role = [p \in Instance |-> "off"]
    /\ due = [p \in Instance |-> FALSE]

Alive(p) == role[p] \notin {"off", "gone"}
Fresh == leaseAge < Ttl

\* acquireInstanceLease reads the lease: one that is alive and fresh makes p
\* read-only for as long as it lives ...
ReadLease(p) ==
    /\ role[p] = "off"
    /\ Concurrent \/ \A q \in Instance : role[q] # "claim"
    /\ role' = [role EXCEPT ![p] =
                IF holder # NoInstance /\ Alive(holder) /\ Fresh THEN "readonly" ELSE "claim"]
    /\ UNCHANGED <<holder, leaseAge, due>>

\* ... any other is replaced.
ClaimLease(p) ==
    /\ role[p] = "claim"
    /\ holder' = p
    /\ leaseAge' = 0
    /\ role' = [role EXCEPT ![p] = "writer"]
    /\ UNCHANGED due

\* heartbeatInstanceLease reads the lease; when it is another's, it returns
\* FALSE, which nobody looks at ...
ReadToBeat(p) ==
    /\ role[p] = "writer"
    /\ due[p]
    /\ due' = [due EXCEPT ![p] = FALSE]
    /\ role' = [role EXCEPT ![p] = IF holder = p THEN "beat" ELSE "writer"]
    /\ UNCHANGED <<holder, leaseAge>>

\* Mutant: the lease is written back with its old time.
BeatInVain(p) ==
    /\ role[p] = "beat"
    /\ holder' = p
    /\ role' = [role EXCEPT ![p] = "writer"]
    /\ UNCHANGED <<leaseAge, due>>

\* ... and when it is its own, writes it back with a new time.
Beat(p) ==
    /\ role[p] = "beat"
    /\ holder' = p
    /\ leaseAge' = 0
    /\ role' = [role EXCEPT ![p] = "writer"]
    /\ UNCHANGED due

\* A process ends, or dies.
Exit(p) ==
    /\ Alive(p)
    /\ role' = [role EXCEPT ![p] = "gone"]
    /\ due' = [due EXCEPT ![p] = FALSE]
    /\ UNCHANGED <<holder, leaseAge>>

\* An interval passes.  Unless Stalls, a heartbeat that is due has been
\* written, and a start does not take an interval.
LeaseTick ==
    /\ Stalls \/ \A p \in Instance : ~due[p] /\ role[p] \notin {"beat", "claim"}
    /\ leaseAge' = IF leaseAge < Ttl THEN leaseAge + 1 ELSE leaseAge
    /\ due' = [p \in Instance |-> role[p] \in Writing]
    /\ UNCHANGED <<holder, role>>

LeaseNext ==
    \/ LeaseTick
    \/ \E p \in Instance :
         ReadLease(p) \/ ClaimLease(p) \/ ReadToBeat(p) \/ Beat(p) \/ Exit(p)

LeaseSpec == LeaseInit /\ [][LeaseNext]_leaseVars

-----------------------------------------------------------------------------

\* At most one live process believes it is the writer of the machine.
OneWriter ==
    \A p, q \in Instance : role[p] \in Writing /\ role[q] \in Writing => p = q

\* The lease file names the writer, and its heartbeat never grows so old that
\* another process would take over: who is a writer stays the only one.
WriterKeepsLease ==
    \A p \in Instance : role[p] \in Writing => holder = p /\ Fresh
=============================================================================
