---------------------------- MODULE Daemon_proofs ---------------------------
(***************************************************************************)
(* Until a `robocup -K' removes the files, the lock keeps the service      *)
(* single and the pid file current, for any number of starts and kills,    *)
(* with a crash at any statement and calls that fail.  Once a killer       *)
(* removes them neither needs to hold; so both inductive invariants are    *)
(* conditions on NothingUnlinked, which no step restores.                  *)
(***************************************************************************)
EXTENDS Daemon, TLAPS

LEMMA TypeInit == Init => TypeOK
BY DaemonAssumption DEF Init, TypeOK, Serving

LEMMA TypeStart ==
    ASSUME TypeOK, NEW p \in Starters, StartStep(p)
    PROVE  TypeOK'
<1> USE DaemonAssumption DEF TypeOK, Serving, Become, files, starts, kills, reads
<1>1. CASE Refuse(p)
  BY <1>1 DEF Refuse
<1>2. CASE Fork(p)
  BY <1>2 DEF Fork
<1>3. CASE ForkFails(p)
  BY <1>3 DEF ForkFails
<1>4. CASE OpenLock(p)
  <2>1. lockfile' \in Starters
    BY <1>4 DEF OpenLock
  <2> QED BY <1>4, <2>1 DEF OpenLock
<1>5. CASE OpenLockFails(p)
  BY <1>5 DEF OpenLockFails
<1>6. CASE TryLock(p)
  BY <1>6 DEF TryLock
<1>7. CASE OpenPid(p)
  <2>1. pidfile' \in Starters
    BY <1>7 DEF OpenPid
  <2> QED BY <1>7, <2>1 DEF OpenPid
<1>8. CASE OpenPidFails(p)
  BY <1>8 DEF OpenPidFails
<1>9. CASE WritePid(p)
  BY <1>9 DEF WritePid
<1>10. CASE WritePidFails(p)
  BY <1>10 DEF WritePidFails
<1>11. CASE Die(p)
  BY <1>11 DEF Die
<1>12. CASE ReusePid(p)
  BY <1>12 DEF ReusePid
<1> QED BY <1>1, <1>2, <1>3, <1>4, <1>5, <1>6, <1>7, <1>8, <1>9, <1>10, <1>11, <1>12 DEF StartStep

LEMMA TypeKill ==
    ASSUME TypeOK, NEW k \in Killers, KillStep(k)
    PROVE  TypeOK'
<1> USE DaemonAssumption DEF TypeOK, Serving, Step, files, starts, reads
<1>1. CASE ReadNothing(k) \/ NoPidfile(k)
  BY <1>1 DEF ReadNothing, NoPidfile
<1>2. CASE ReadPid(k)
  <2>1. content[pStrm[k]] \in Starters
    BY <1>2 DEF ReadPid
  <2> QED BY <1>2, <2>1 DEF ReadPid
<1>8. CASE OpenPidfile(k)
  BY <1>8 DEF OpenPidfile
<1>3. CASE Probe(k)
  BY <1>3 DEF Probe
<1>4. CASE SendTerm(k)
  <2>1. target[k] \in Starters
    BY <1>4 DEF SendTerm
  <2>2. sigterm' \subseteq Starters
    BY <1>4, <2>1 DEF SendTerm
  <2>3. /\ killer' = [killer EXCEPT ![k] = "waiting"]
        /\ UNCHANGED <<lockfile, pidfile, fLock, pFd, holder, content, state, pStrm, target>>
        /\ killer[k] = "send"
    BY <1>4 DEF SendTerm
  <2> QED BY <2>1, <2>2, <2>3
<1>5. CASE WaitEnded(k)
  BY <1>5 DEF WaitEnded
<1>6. CASE UnlinkPid(k)
  BY <1>6 DEF UnlinkPid
<1>7. CASE UnlinkLock(k)
  BY <1>7 DEF UnlinkLock
<1> QED BY <1>1, <1>2, <1>3, <1>4, <1>5, <1>6, <1>7, <1>8 DEF KillStep

(* The types, with any number of killers. *)
THEOREM DaemonTypes == Spec => []TypeOK
<1>1. TypeOK /\ UNCHANGED vars => TypeOK'
  BY DEF TypeOK, vars, files, starts, kills, reads, Serving
<1>2. TypeOK /\ [Next]_vars => TypeOK'
  BY <1>1, TypeStart, TypeKill DEF Next
<1> QED BY <1>2, TypeInit, PTL DEF Spec

-----------------------------------------------------------------------------
(* A killer that has begun to remove files never takes that back. *)
LEMMA UnlinkedForEver ==
    ASSUME TypeOK, [Next]_vars, NothingUnlinked'
    PROVE  NothingUnlinked /\ \A k \in Killers : ~UnlinkPid(k) /\ ~UnlinkLock(k)
<1> USE DEF TypeOK, NothingUnlinked
<1>1. ASSUME NEW k \in Killers PROVE ~UnlinkPid(k) /\ ~UnlinkLock(k)
  <2>1. CASE UnlinkPid(k)
    <3>1. killer'[k] \in {"done", "unlinkLock"}
      BY <2>1 DEF UnlinkPid, Step
    <3> QED BY <3>1
  <2>2. CASE UnlinkLock(k)
    <3>1. killer'[k] = "done"
      BY <2>2 DEF UnlinkLock, Step
    <3> QED BY <3>1
  <2> QED BY <2>1, <2>2
<1>2. CASE UNCHANGED vars
  BY <1>1, <1>2 DEF vars, kills, reads
<1>3. ASSUME NEW p \in Starters, StartStep(p) PROVE UNCHANGED kills
  BY <1>3 DEF StartStep, Refuse, Fork, ForkFails, OpenLock, OpenLockFails, TryLock, OpenPid,
     OpenPidFails, WritePid, WritePidFails, Die, ReusePid
<1>4. ASSUME NEW k \in Killers, KillStep(k) PROVE NothingUnlinked
  BY <1>1, <1>4 DEF KillStep, Step, OpenPidfile, NoPidfile, ReadNothing, ReadPid, Probe, SendTerm, WaitEnded
<1> QED BY <1>1, <1>2, <1>3, <1>4 DEF Next, kills, reads

(* Steps of a killer that remove nothing leave the processes alone. *)
LEMMA KillKeeps ==
    ASSUME NEW k \in Killers, KillStep(k), ~UnlinkPid(k), ~UnlinkLock(k)
    PROVE  UNCHANGED <<files, state>>
BY DEF KillStep, OpenPidfile, NoPidfile, ReadNothing, ReadPid, Probe, SendTerm, WaitEnded, starts, files

-----------------------------------------------------------------------------
(* Every process that has the lock file open has the one at the path, and a *)
(* serving process holds its lock.                                          *)
LockInv ==
    /\ \A p \in Starters : fLock[p] # None => fLock[p] = lockfile
    /\ \A p \in Starters : Serving(p) => fLock[p] # None /\ holder[fLock[p]] = p

LEMMA LockStart ==
    ASSUME TypeOK, LockInv, NEW p \in Starters, StartStep(p)
    PROVE  LockInv'
<1> USE DaemonAssumption DEF TypeOK, LockInv, Serving, Become
<1>1. CASE Refuse(p)
  BY <1>1 DEF Refuse, files
<1>2. CASE Fork(p)
  BY <1>2 DEF Fork, files
<1>3. CASE ForkFails(p)
  BY <1>3 DEF ForkFails, files
<1>4. CASE OpenLock(p)
  BY <1>4 DEF OpenLock
<1>5. CASE OpenLockFails(p)
  BY <1>5 DEF OpenLockFails, files
<1>6. CASE TryLock(p)
  BY <1>6 DEF TryLock
<1>7. CASE OpenPid(p)
  BY <1>7 DEF OpenPid
<1>8. CASE OpenPidFails(p)
  BY <1>8 DEF OpenPidFails, files
<1>9. CASE WritePid(p)
  BY <1>9 DEF WritePid
<1>10. CASE WritePidFails(p)
  BY <1>10 DEF WritePidFails, files
<1>11. CASE Die(p)
  BY <1>11 DEF Die
<1>12. CASE ReusePid(p)
  BY <1>12 DEF ReusePid, files
<1> QED BY <1>1, <1>2, <1>3, <1>4, <1>5, <1>6, <1>7, <1>8, <1>9, <1>10, <1>11, <1>12 DEF StartStep

LEMMA LockCorrect == Spec => [](TypeOK /\ (NothingUnlinked => LockInv))
<1>1. Init => LockInv
  BY DEF Init, LockInv, Serving
<1>2. LockInv /\ UNCHANGED <<files, state>> => LockInv'
  BY DEF LockInv, Serving, files
<1>3. ASSUME TypeOK, NothingUnlinked => LockInv, [Next]_vars, NothingUnlinked'
      PROVE  LockInv'
  <2>1. LockInv /\ \A k \in Killers : ~UnlinkPid(k) /\ ~UnlinkLock(k)
    BY <1>3, UnlinkedForEver
  <2> QED BY <1>2, <1>3, <2>1, LockStart, KillKeeps DEF Next, vars, starts
<1>4. TypeOK /\ (NothingUnlinked => LockInv) /\ [Next]_vars => (NothingUnlinked => LockInv)'
  BY <1>3
<1> QED BY <1>1, <1>4, DaemonTypes, PTL DEF Spec

(* At most one process serves, whoever starts, crashes or fails when, until *)
(* somebody removes the lock file.                                          *)
THEOREM OneDaemon == Spec => []SingleUntilUnlink
<1>1. TypeOK /\ (NothingUnlinked => LockInv) => SingleUntilUnlink
  BY DEF LockInv, SingleUntilUnlink
<1> QED BY <1>1, LockCorrect, PTL

-----------------------------------------------------------------------------
(* A process that has the pid file open has the one at the path open, and   *)
(* while it writes or runs the file contains its pid or nothing.            *)
PidInv ==
    \A p \in Starters :
        /\ state[p] \in {"idle", "child", "opened", "locked"} => pFd[p] = None
        /\ state[p] = "writing" => pFd[p] # None
        /\ state[p] \in {"writing", "running"} /\ pFd[p] # None => pFd[p] = pidfile
        /\ state[p] \in {"writing", "running"} /\ pFd[p] # None =>
               content[pidfile] \in {p, Empty}

LEMMA PidStart ==
    ASSUME TypeOK, LockInv, PidInv, NEW p \in Starters, StartStep(p)
    PROVE  PidInv'
<1>1. Serving(p) => \A q \in Starters : Serving(q) => q = p
  BY DEF LockInv
<1> USE DaemonAssumption DEF TypeOK, PidInv, Serving, Become
<1>2. CASE Refuse(p) \/ Fork(p) \/ ForkFails(p) \/ OpenLock(p) \/ OpenLockFails(p) \/ TryLock(p)
  BY <1>2 DEF Refuse, Fork, ForkFails, OpenLock, OpenLockFails, TryLock, files
<1>3. CASE OpenPid(p)
  BY <1>1, <1>3 DEF OpenPid
<1>4. CASE WritePid(p)
  BY <1>1, <1>4 DEF WritePid
<1>5. CASE Die(p)
  BY <1>5 DEF Die
<1>6. CASE ReusePid(p)
  BY <1>6 DEF ReusePid, files
<1>7. CASE OpenPidFails(p)
  BY <1>7 DEF OpenPidFails, files
<1>8. CASE WritePidFails(p)
  BY <1>8 DEF WritePidFails, files
<1> QED BY <1>2, <1>3, <1>4, <1>5, <1>6, <1>7, <1>8 DEF StartStep

(* The pid file names the running daemon or nobody, and not one that        *)
(* crashed before it, until somebody removes the files, if the daemon could *)
(* open it.                                                                 *)
THEOREM PidfileCurrent == Spec => []PidfileNamesDaemon
<1>1. Init => PidInv
  BY DEF Init, PidInv
<1>2. PidInv /\ UNCHANGED <<files, state>> => PidInv'
  BY DEF PidInv, files
<1>3. ASSUME TypeOK, NothingUnlinked => LockInv /\ PidInv, [Next]_vars, NothingUnlinked'
      PROVE  PidInv'
  <2>1. NothingUnlinked /\ \A k \in Killers : ~UnlinkPid(k) /\ ~UnlinkLock(k)
    BY <1>3, UnlinkedForEver
  <2> QED BY <1>2, <1>3, <2>1, PidStart, KillKeeps DEF Next, vars, starts
<1>4. TypeOK /\ (NothingUnlinked => LockInv) /\ (NothingUnlinked => PidInv) /\ [Next]_vars
        => (NothingUnlinked => PidInv)'
  BY <1>3
<1>5. TypeOK /\ (NothingUnlinked => PidInv) => PidfileNamesDaemon
  BY DEF PidInv, PidfileNamesDaemon, TypeOK
<1> QED BY <1>1, <1>4, <1>5, LockCorrect, PTL DEF Spec

-----------------------------------------------------------------------------
(* A pid that a file or a killer knows is that of a process which was       *)
(* forked; and a killer that removes files found its target gone.  Nothing  *)
(* but Fork makes a daemon process, and only of one that never was forked.  *)
TargetInv ==
    /\ \A i \in Starters : content[i] # Empty => state[content[i]] # "idle"
    /\ \A k \in Killers : target[k] # None => state[target[k]] # "idle"
    /\ KillMeansDead

LEMMA TargetStart ==
    ASSUME TypeOK, TargetInv, NEW p \in Starters, StartStep(p)
    PROVE  TargetInv'
<1>1. UNCHANGED kills
  BY DEF StartStep, Refuse, Fork, ForkFails, OpenLock, OpenLockFails, TryLock, OpenPid,
     OpenPidFails, WritePid, WritePidFails, Die, ReusePid
<1>2. \A q \in Starters :
          /\ state[q] # "idle" => state'[q] # "idle"
          /\ state[q] # "idle" /\ ~Daemonized(q) => ~Daemonized(q)'
  <2> USE DEF TypeOK, Daemonized, Become
  <2>1. CASE Refuse(p) \/ Fork(p) \/ ForkFails(p)
    BY <2>1 DEF Refuse, Fork, ForkFails
  <2>2. CASE OpenLock(p) \/ OpenLockFails(p)
    BY <2>2 DEF OpenLock, OpenLockFails
  <2>3. CASE TryLock(p)
    BY <2>3 DEF TryLock
  <2>4. CASE OpenPid(p) \/ OpenPidFails(p)
    BY <2>4 DEF OpenPid, OpenPidFails
  <2>5. CASE WritePid(p) \/ WritePidFails(p)
    BY <2>5 DEF WritePid, WritePidFails
  <2>6. CASE Die(p) \/ ReusePid(p)
    BY <2>6 DEF Die, ReusePid, Alive
  <2> QED BY <2>1, <2>2, <2>3, <2>4, <2>5, <2>6 DEF StartStep
<1>3. \A i \in Starters : content'[i] # Empty =>
          content'[i] = content[i] \/ (content'[i] = p /\ state[p] # "idle")
  <2> USE DEF TypeOK
  <2>1. CASE OpenPid(p)
    BY <2>1 DEF OpenPid
  <2>2. CASE WritePid(p)
    BY <2>2 DEF WritePid, Become
  <2>3. CASE UNCHANGED content
    BY <2>3
  <2> QED BY <2>1, <2>2, <2>3 DEF StartStep, Refuse, Fork, ForkFails, OpenLock, OpenLockFails,
          TryLock, OpenPidFails, WritePidFails, Die, ReusePid, files
<1> QED BY <1>1, <1>2, <1>3, DaemonAssumption DEF TypeOK, TargetInv, KillMeansDead, kills, reads

LEMMA TargetKill ==
    ASSUME TypeOK, TargetInv, NEW k \in Killers, KillStep(k)
    PROVE  TargetInv'
<1> USE DaemonAssumption DEF TypeOK, TargetInv, KillMeansDead, Daemonized, Step, files, starts, reads
<1>1. CASE ReadNothing(k) \/ NoPidfile(k)
  BY <1>1 DEF ReadNothing, NoPidfile
<1>2. CASE ReadPid(k)
  BY <1>2 DEF ReadPid
<1>8. CASE OpenPidfile(k)
  BY <1>8 DEF OpenPidfile
<1>3. CASE Probe(k)
  BY <1>3 DEF Probe
<1>4. CASE SendTerm(k)
  BY <1>4 DEF SendTerm
<1>5. CASE WaitEnded(k)
  BY <1>5 DEF WaitEnded, Alive
<1>6. CASE UnlinkPid(k)
  BY <1>6 DEF UnlinkPid
<1>7. CASE UnlinkLock(k)
  BY <1>7 DEF UnlinkLock
<1> QED BY <1>1, <1>2, <1>3, <1>4, <1>5, <1>6, <1>7, <1>8 DEF KillStep

LEMMA TargetCorrect == Spec => []TargetInv
<1>1. Init => TargetInv
  BY DEF Init, TargetInv, KillMeansDead
<1>2. TargetInv /\ UNCHANGED vars => TargetInv'
  BY DEF TargetInv, KillMeansDead, Daemonized, vars, files, starts, kills, reads
<1>3. TypeOK /\ TargetInv /\ [Next]_vars => TargetInv'
  BY <1>2, TargetStart, TargetKill DEF Next
<1> QED BY <1>1, <1>3, DaemonTypes, PTL DEF Spec

(* A killer removes the files, and reports success, only when the process   *)
(* it was to end has ended (RC_Daemon.cpp:199), whatever the others do.     *)
THEOREM KilledIsDead == Spec => []KillMeansDead
<1>1. TargetInv => KillMeansDead
  BY DEF TargetInv
<1> QED BY <1>1, TargetCorrect, PTL

(* No step of a start takes the signal from a process that lives, and none  *)
(* brings back the pid of a daemon that was there.                          *)
LEMMA DyingStart ==
    ASSUME TypeOK, TargetInv, WaitsForTheDying, NEW p \in Starters, StartStep(p)
    PROVE  WaitsForTheDying'
<1>1. UNCHANGED kills
  BY DEF StartStep, Refuse, Fork, ForkFails, OpenLock, OpenLockFails, TryLock, OpenPid,
     OpenPidFails, WritePid, WritePidFails, Die, ReusePid
<1>2. ASSUME NEW q \in Starters, state[q] # "idle", Daemonized(q)'
      PROVE  Daemonized(q) /\ (q \in sigterm => q \in sigterm')
  <2> USE DEF TypeOK, Daemonized, Become
  <2>1. CASE Refuse(p) \/ Fork(p) \/ ForkFails(p)
    BY <1>2, <2>1 DEF Refuse, Fork, ForkFails
  <2>2. CASE OpenLock(p) \/ OpenLockFails(p)
    BY <1>2, <2>2 DEF OpenLock, OpenLockFails
  <2>3. CASE TryLock(p)
    BY <1>2, <2>3 DEF TryLock
  <2>4. CASE OpenPid(p) \/ OpenPidFails(p)
    BY <1>2, <2>4 DEF OpenPid, OpenPidFails
  <2>5. CASE WritePid(p) \/ WritePidFails(p)
    BY <1>2, <2>5 DEF WritePid, WritePidFails
  <2>6. CASE Die(p) \/ ReusePid(p)
    BY <1>2, <2>6 DEF Die, ReusePid, Alive
  <2> QED BY <2>1, <2>2, <2>3, <2>4, <2>5, <2>6 DEF StartStep
<1>3. ASSUME NEW k \in Killers, killer[k] = "waiting"
      PROVE  target[k] \in Starters /\ state[target[k]] # "idle"
  BY <1>3, DaemonAssumption DEF TypeOK, TargetInv
<1> QED BY <1>1, <1>2, <1>3 DEF WaitsForTheDying, kills, reads

(* A killer that waits for a daemon waits for one that has the SIGTERM: the *)
(* safety half of KillReturns, for any number of starts and kills.          *)
THEOREM KilledIsDying == Spec => []WaitsForTheDying
<1>1. Init => WaitsForTheDying
  BY DEF Init, WaitsForTheDying
<1>2. ASSUME TypeOK, WaitsForTheDying, NEW k \in Killers, KillStep(k)
      PROVE  WaitsForTheDying'
  <2> USE DEF TypeOK, WaitsForTheDying, Daemonized, Step, files, starts, reads
  <2>1. CASE OpenPidfile(k) \/ NoPidfile(k) \/ ReadNothing(k) \/ Probe(k)
    BY <1>2, <2>1 DEF OpenPidfile, NoPidfile, ReadNothing, Probe
  <2>2. CASE ReadPid(k)
    BY <1>2, <2>2 DEF ReadPid
  <2>3. CASE SendTerm(k)
    BY <1>2, <2>3 DEF SendTerm, Alive
  <2>4. CASE WaitEnded(k) \/ UnlinkPid(k) \/ UnlinkLock(k)
    BY <1>2, <2>4 DEF WaitEnded, UnlinkPid, UnlinkLock
  <2> QED BY <1>2, <2>1, <2>2, <2>3, <2>4 DEF KillStep
<1>3. WaitsForTheDying /\ UNCHANGED vars => WaitsForTheDying'
  BY DEF WaitsForTheDying, Daemonized, vars, files, starts, kills, reads
<1>4. TypeOK /\ TargetInv /\ WaitsForTheDying /\ [Next]_vars => WaitsForTheDying'
  BY <1>2, <1>3, DyingStart DEF Next
<1> QED BY <1>1, <1>4, DaemonTypes, TargetCorrect, PTL DEF Spec
=============================================================================
