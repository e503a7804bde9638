-------------------------------- MODULE Daemon ------------------------------
(***************************************************************************)
(* rc::Daemon: several `robocup -S' (Starters) and `robocup -K' (Killers)  *)
(* on one machine, with the two files they share.                          *)
(*                                                                         *)
(* A path leads to an inode, and an inode lives on when its path is        *)
(* unlinked; an inode is named after the process that created it.  lockf   *)
(* locks an inode, and the kernel drops the lock when its holder dies.  In *)
(* daemon mode setSignals is never called, so SIGTERM has its default      *)
(* effect: the process dies, at any statement.                             *)
(***************************************************************************)
CONSTANTS
    Starters,            \* the processes of `robocup -S'
    Killers,             \* the processes of `robocup -K'
    None,                \* no file, no process
    Empty                \* the content of a truncated file

ASSUME DaemonAssumption == None \notin Starters /\ Empty \notin Starters

VARIABLES
    state,               \* starter -> where its daemon process is
    lockfile, pidfile,   \* the inodes at the two paths
    fLock, pFd,          \* starter -> the inodes it has opened
    holder,              \* lock inode -> the process that locked it
    content,             \* pid inode -> the pid written to it
    sigterm,             \* processes with a SIGTERM under way
    killer,              \* killer -> where it is
    pStrm,               \* killer -> the pid inode it has opened
    target               \* killer -> the pid it read

files  == <<lockfile, pidfile, fLock, pFd, holder, content>>
starts == <<state, sigterm>>
reads  == <<pStrm, target>>
kills  == <<killer, reads>>
vars   == <<files, starts, kills>>

(* The process of starter p exists. *)
Daemonized(p) == state[p] \in {"child", "opened", "locked", "writing", "running"}

(* kill(p, 0) == 0: the pid p exists, of the daemon or of another program. *)
Alive(p) == Daemonized(p) \/ state[p] = "other"

(* p holds the lock and is, or is about to be, the service. *)
Serving(p) == state[p] \in {"locked", "writing", "running"}

TypeOK ==
    /\ state \in [Starters -> {"idle", "child", "opened", "locked", "writing",
                               "running", "refused", "failed", "dead", "other"}]
    /\ {lockfile, pidfile} \subseteq Starters \cup {None}
    /\ fLock \in [Starters -> Starters \cup {None}]
    /\ \A p \in Starters : state[p] = "opened" \/ Serving(p) => fLock[p] # None
    /\ pFd \in [Starters -> Starters \cup {None}]
    /\ holder \in [Starters -> Starters \cup {None}]
    /\ content \in [Starters -> Starters \cup {Empty}]
    /\ sigterm \subseteq Starters
    /\ killer \in [Killers -> {"idle", "opened", "found", "send", "waiting", "unlink",
                               "unlinkLock", "done", "nothing"}]
    /\ pStrm \in [Killers -> Starters \cup {None}]
    /\ \A k \in Killers : killer[k] = "opened" => pStrm[k] # None
    /\ target \in [Killers -> Starters \cup {None}]
    /\ \A k \in Killers : killer[k] \notin {"idle", "opened", "nothing"} => target[k] # None

Init ==
    /\ state = [p \in Starters |-> "idle"]
    /\ lockfile = None /\ pidfile = None
    /\ fLock = [p \in Starters |-> None]
    /\ pFd = [p \in Starters |-> None]
    /\ holder = [i \in Starters |-> None]
    /\ content = [i \in Starters |-> Empty]
    /\ sigterm = {}
    /\ killer = [k \in Killers |-> "idle"]
    /\ pStrm = [k \in Killers |-> None]
    /\ target = [k \in Killers |-> None]

Become(p, from, to) ==
    /\ state[p] = from
    /\ state' = [state EXCEPT ![p] = to]

-----------------------------------------------------------------------------
(* Daemonize.  A process whose parent is init takes itself for a daemon     *)
(* already; otherwise the caller exits with success right after fork, and   *)
(* everything else happens in the child.                                    *)
Refuse(p) ==
    /\ Become(p, "idle", "refused")
    /\ UNCHANGED <<files, sigterm, kills>>

Fork(p) ==
    /\ Become(p, "idle", "child")
    /\ UNCHANGED <<files, sigterm, kills>>

ForkFails(p) ==
    /\ Become(p, "idle", "failed")
    /\ UNCHANGED <<files, sigterm, kills>>

(* open(lockfile, O_CREAT | O_TRUNC): the inode at the path, or a new one. *)
OpenLock(p) ==
    /\ Become(p, "child", "opened")
    /\ lockfile' = IF lockfile = None THEN p ELSE lockfile
    /\ fLock' = [fLock EXCEPT ![p] = lockfile']
    /\ UNCHANGED <<pidfile, pFd, holder, content, sigterm, kills>>

OpenLockFails(p) ==
    /\ Become(p, "child", "failed")
    /\ UNCHANGED <<files, sigterm, kills>>

(* Fault: the result of lockf is not looked at. *)
LockUncheckedMutant(p) ==
    /\ Become(p, "opened", "locked")
    /\ holder' = [holder EXCEPT ![fLock[p]] = p]
    /\ UNCHANGED <<lockfile, pidfile, fLock, pFd, content, sigterm, kills>>

(* lockf(F_TLOCK): without waiting; a process that does not get it exits. *)
TryLock(p) ==
    /\ state[p] = "opened"
    /\ IF holder[fLock[p]] = None
       THEN /\ Become(p, "opened", "locked")
            /\ holder' = [holder EXCEPT ![fLock[p]] = p]
       ELSE /\ Become(p, "opened", "failed")
            /\ UNCHANGED holder
    /\ UNCHANGED <<lockfile, pidfile, fLock, pFd, content, sigterm, kills>>

(* Fault: the file is not truncated. *)
KeepContentMutant(p) ==
    /\ Become(p, "locked", "writing")
    /\ pidfile' = IF pidfile = None THEN p ELSE pidfile
    /\ pFd' = [pFd EXCEPT ![p] = pidfile']
    /\ UNCHANGED <<lockfile, fLock, holder, content, sigterm, kills>>

(* open(pidfile, O_CREAT | O_TRUNC), then write: between them it is empty. *)
OpenPid(p) ==
    /\ Become(p, "locked", "writing")
    /\ pidfile' = IF pidfile = None THEN p ELSE pidfile
    /\ pFd' = [pFd EXCEPT ![p] = pidfile']
    /\ content' = [content EXCEPT ![pidfile'] = Empty]
    /\ UNCHANGED <<lockfile, fLock, holder, sigterm, kills>>

(* A daemon that cannot open its pid file runs without one. *)
OpenPidFails(p) ==
    /\ Become(p, "locked", "running")
    /\ UNCHANGED <<files, sigterm, kills>>

(* The result of write is not looked at. *)
WritePidFails(p) ==
    /\ Become(p, "writing", "running")
    /\ UNCHANGED <<files, sigterm, kills>>

WritePid(p) ==
    /\ Become(p, "writing", "running")
    /\ content' = [content EXCEPT ![pFd[p]] = p]
    /\ UNCHANGED <<lockfile, pidfile, fLock, pFd, holder, sigterm, kills>>

(* The process ends: by itself (setsid failed, or the camera), by a crash,  *)
(* or by SIGTERM.                                                           *)
Die(p) ==
    /\ Alive(p)
    /\ state' = [state EXCEPT ![p] = "dead"]
    /\ holder' = [i \in Starters |-> IF holder[i] = p THEN None ELSE holder[i]]
    /\ sigterm' = sigterm \ {p}
    /\ UNCHANGED <<lockfile, pidfile, fLock, pFd, content, kills>>

(* The kernel gives the pid of a dead daemon to a program of its own. *)
ReusePid(p) ==
    /\ Become(p, "dead", "other")
    /\ UNCHANGED <<files, sigterm, kills>>

-----------------------------------------------------------------------------
Step(k, from, to) ==
    /\ killer[k] = from
    /\ killer' = [killer EXCEPT ![k] = to]

(* KillByPidfile.  It opens the pid file; one that is gone, or is still     *)
(* empty when it is read, names nobody to kill.                             *)
OpenPidfile(k) ==
    /\ pidfile # None
    /\ Step(k, "idle", "opened")
    /\ pStrm' = [pStrm EXCEPT ![k] = pidfile]
    /\ UNCHANGED <<files, starts, target>>

NoPidfile(k) ==
    /\ pidfile = None
    /\ Step(k, "idle", "nothing")
    /\ UNCHANGED <<files, starts, reads>>

(* What it reads is the inode it opened, whatever the path leads to by now. *)
ReadPid(k) ==
    /\ Step(k, "opened", "found")
    /\ content[pStrm[k]] # Empty
    /\ target' = [target EXCEPT ![k] = content[pStrm[k]]]
    /\ UNCHANGED <<files, starts, pStrm>>

ReadNothing(k) ==
    /\ Step(k, "opened", "nothing")
    /\ content[pStrm[k]] = Empty
    /\ UNCHANGED <<files, starts, reads>>

(* kill(pid, 0): a pid file left behind by a crash stays where it is. *)
Probe(k) ==
    /\ killer[k] = "found"
    /\ Step(k, "found", IF Alive(target[k]) THEN "send" ELSE "nothing")
    /\ UNCHANGED <<files, starts, reads>>

(* Fault: the daemon ignores the signal, as signal_handler does at startup. *)
SendIgnoredMutant(k) ==
    /\ Step(k, "send", "waiting")
    /\ UNCHANGED <<files, starts, reads>>

(* kill(pid, SIGTERM): goes to whoever has the pid now, if anybody. *)
SendTerm(k) ==
    /\ Step(k, "send", "waiting")
    /\ sigterm' = IF Alive(target[k]) THEN sigterm \cup {target[k]} ELSE sigterm
    /\ UNCHANGED <<files, state, reads>>

(* Fault: the files are removed without waiting for the process to end. *)
NoWaitMutant(k) ==
    /\ Step(k, "waiting", "unlink")
    /\ UNCHANGED <<files, starts, reads>>

(* while (kill(pid, 0) == 0) sleep: the last look, at which it is gone. *)
WaitEnded(k) ==
    /\ Step(k, "waiting", "unlink")
    /\ ~Alive(target[k])
    /\ UNCHANGED <<files, starts, reads>>

(* if (unlink(pidfile) != 0 || unlink(lockfile)): the second only after the *)
(* first succeeded.                                                         *)
UnlinkPid(k) ==
    /\ Step(k, "unlink", IF pidfile = None THEN "done" ELSE "unlinkLock")
    /\ pidfile' = None
    /\ UNCHANGED <<lockfile, fLock, pFd, holder, content, starts, reads>>

UnlinkLock(k) ==
    /\ Step(k, "unlinkLock", "done")
    /\ lockfile' = None
    /\ UNCHANGED <<pidfile, fLock, pFd, holder, content, starts, reads>>

StartStep(p) ==
    \/ Refuse(p) \/ Fork(p) \/ ForkFails(p)
    \/ OpenLock(p) \/ OpenLockFails(p) \/ TryLock(p)
    \/ OpenPid(p) \/ OpenPidFails(p) \/ WritePid(p) \/ WritePidFails(p)
    \/ Die(p) \/ ReusePid(p)

KillStep(k) ==
    \/ OpenPidfile(k) \/ NoPidfile(k) \/ ReadPid(k) \/ ReadNothing(k)
    \/ Probe(k) \/ SendTerm(k)
    \/ WaitEnded(k) \/ UnlinkPid(k) \/ UnlinkLock(k)

Next == (\E p \in Starters : StartStep(p)) \/ (\E k \in Killers : KillStep(k))

Spec == Init /\ [][Next]_vars

(* A running killer goes on, and a SIGTERM is delivered. *)
Fairness ==
    /\ \A k \in Killers : WF_vars(killer[k] # "idle" /\ KillStep(k))
    /\ \A p \in Starters : WF_vars(p \in sigterm /\ Die(p))

FairSpec == Spec /\ Fairness

-----------------------------------------------------------------------------
(* No killer has begun to remove the files. *)
NothingUnlinked == \A k \in Killers : killer[k] \notin {"unlinkLock", "done"}

(* Two daemons never serve (and open the camera) at the same time, whatever *)
(* is started, crashes, or fails when, until a killer removes files         *)
(* (RC_Daemon.cpp:107).                                                     *)
SingleUntilUnlink ==
    NothingUnlinked => \A p, q \in Starters : Serving(p) /\ Serving(q) => p = q

(* Until then the pid file names the daemon that runs, or nobody when it    *)
(* could not be written, but none that ran before, unless the daemon could  *)
(* not even open it (RC_Daemon.cpp:126-129): -K kills no other process.     *)
PidfileNamesDaemon ==
    NothingUnlinked =>
        \A p \in Starters :
            state[p] = "running" /\ pFd[p] # None =>
                pidfile # None /\ content[pidfile] \in {p, Empty}

(* RC_Daemon.hpp:65: KillByPidfile returns true when the service could be   *)
(* ended.  From when it may remove the files on, its target is dead.        *)
KillMeansDead ==
    \A k \in Killers :
        killer[k] \in {"unlink", "unlinkLock", "done"} => ~Daemonized(target[k])

(* A daemon that a killer waits for has the SIGTERM, which it cannot ignore *)
(* in daemon mode: nothing a start, a crash or another killer does takes it *)
(* away while the process lives (RC_Daemon.cpp:196-199).                    *)
WaitsForTheDying ==
    \A k \in Killers :
        killer[k] = "waiting" /\ Daemonized(target[k]) => target[k] \in sigterm

(* KillByPidfile ends: its wait for the process (RC_Daemon.cpp:199) does,   *)
(* unless another program gets the pid between two looks.                   *)
Reused(k) == target[k] # None /\ state[target[k]] = "other"

KillReturns ==
    \A k \in Killers :
        (killer[k] # "idle") ~> (killer[k] \in {"done", "nothing"} \/ Reused(k))
=============================================================================
