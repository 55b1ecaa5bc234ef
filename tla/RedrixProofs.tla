---------------------------- MODULE RedrixProofs ----------------------------
(***************************************************************************)
(* What RedrixFlash promises for any number of invocations.  The lock      *)
(* belongs to whoever lives or still has a programmer at work, so all that *)
(* is said of one such invocation is safe from the others.                 *)
(***************************************************************************)
EXTENDS RedrixFlash, TLAPS

\* Who lives, or whose programmer does, has the lock; the programmer works
\* when the script waits for it, or has been left alone by it.
HoldInv ==
  \A a \in Apps :
    /\ a \in Live \cup child => lock = a
    /\ pc[a] \in {"erasing", "programming"} => a \in child
    /\ a \in child => pc[a] \in {"erasing", "programming", "dead"}

\* fwupd on the way to a coreboot write, and while it is under way.
PauseInv ==
  \A a \in Apps :
    /\ pc[a] \in {"pause", "dropin", "reload", "stop"} => chip[a] = "bios"
    /\ pc[a] \in {"recheck", "erase", "erasing", "verify", "queue", "queued"} => chip[a] = "ec"
    /\ pc[a] \in {"dropin", "reload", "stop"} => unit = "loaded"
    /\ pc[a] = "reload" => a \in dropins
    /\ pc[a] = "stop" => a \in dropins \cap loaded
    /\ chip[a] = "bios" /\ (pc[a] \in {"arm", "write"} \/ a \in child) =>
         ~fwupd /\ (unit = "loaded" => a \in dropins \cap loaded)

UnitInv ==
  /\ unit = "not-found" => ~fwupd
  /\ \A a \in Apps : restart[a] => unit = "loaded"

Base == TypeOK /\ HoldInv /\ PauseInv /\ UnitInv

-----------------------------------------------------------------------------
\* The invariant, one part at a time, under the steps of an invocation.

LEMMA TypeScript ==
  ASSUME TypeOK, NEW a \in Apps, Script(a)
  PROVE  TypeOK'
<1> USE DEF TypeOK, Places, Chips, Goto, flashVars, fwupdVars, appVars
<1>1. CASE Start(a) BY <1>1 DEF Start
<1>2. CASE Refused(a) BY <1>2 DEF Refused
<1>3. CASE Prepare(a) BY <1>3 DEF Prepare
<1>4. CASE Confirm(a) BY <1>4 DEF Confirm
<1>5. CASE Recheck(a) BY <1>5 DEF Recheck
<1>6. CASE Pause(a) BY <1>6 DEF Pause
<1>7. CASE DropIn(a) BY <1>7 DEF DropIn
<1>8. CASE Reload(a) BY <1>8 DEF Reload
<1>9. CASE Stop(a) BY <1>9 DEF Stop
<1>10. CASE Arm(a) BY <1>10 DEF Arm
<1>11. CASE Program(a) BY <1>11 DEF Program
<1>12. CASE Erased(a) BY <1>12 DEF Erased
<1>13. CASE Programmed(a) BY <1>13 DEF Programmed
<1>14. CASE ProgramFails(a) BY <1>14 DEF ProgramFails, TeeMayDie
<1>15. CASE Verify(a) BY <1>15 DEF Verify
<1>16. CASE Verified(a) BY <1>16 DEF Verified
<1>17. CASE QueueReset(a) BY <1>17 DEF QueueReset
<1>18. CASE Queued(a) BY <1>18 DEF Queued
<1>19. CASE Abort(a) BY <1>19 DEF Abort, TeeMayDie
<1>20. CASE Cleanup(a) BY <1>20 DEF Cleanup
<1>21. CASE Unload(a) BY <1>21 DEF Unload
<1>22. CASE Restart(a) BY <1>22 DEF Restart, Unlocked
<1>23. CASE BrokenPipe(a) BY <1>23 DEF BrokenPipe, Unlocked
<1>24. CASE Interrupt(a) BY <1>24 DEF Interrupt, Unlocked
<1>25. CASE Kill(a) BY <1>25 DEF Kill, Unlocked
<1>26. CASE OrphanEnds(a) BY <1>26 DEF OrphanEnds
<1> QED BY <1>1, <1>2, <1>3, <1>4, <1>5, <1>6, <1>7, <1>8, <1>9, <1>10, <1>11, <1>12, <1>13,
  <1>14, <1>15, <1>16, <1>17, <1>18, <1>19, <1>20, <1>21, <1>22, <1>23, <1>24, <1>25, <1>26 DEF Script

\* Other invocations have let go of the lock, or wait for it.
LEMMA HoldScript ==
  ASSUME TypeOK, HoldInv, NEW a \in Apps, Script(a)
  PROVE  HoldInv'
<1> USE FlashAssumption DEF TypeOK, HoldInv, Live, Over, InTrap, Goto, flashVars, fwupdVars, appVars
<1>1. CASE Start(a) BY <1>1 DEF Start
<1>2. CASE Refused(a) BY <1>2 DEF Refused
<1>3. CASE Prepare(a) BY <1>3 DEF Prepare
<1>4. CASE Confirm(a) BY <1>4 DEF Confirm
<1>5. CASE Recheck(a) BY <1>5 DEF Recheck
<1>6. CASE Pause(a) BY <1>6 DEF Pause
<1>7. CASE DropIn(a) BY <1>7 DEF DropIn
<1>8. CASE Reload(a) BY <1>8 DEF Reload
<1>9. CASE Stop(a) BY <1>9 DEF Stop
<1>10. CASE Arm(a) BY <1>10 DEF Arm
<1>11. CASE Program(a) BY <1>11 DEF Program
<1>12. CASE Erased(a) BY <1>12 DEF Erased
<1>13. CASE Programmed(a) BY <1>13 DEF Programmed
<1>14. CASE ProgramFails(a) BY <1>14 DEF ProgramFails, TeeMayDie
<1>15. CASE Verify(a) BY <1>15 DEF Verify
<1>16. CASE Verified(a) BY <1>16 DEF Verified
<1>17. CASE QueueReset(a) BY <1>17 DEF QueueReset
<1>18. CASE Queued(a) BY <1>18 DEF Queued
<1>19. CASE Abort(a) BY <1>19 DEF Abort, TeeMayDie
<1>20. CASE Cleanup(a) BY <1>20 DEF Cleanup
<1>21. CASE Unload(a) BY <1>21 DEF Unload
<1>22. CASE Restart(a) BY <1>22 DEF Restart, Unlocked
<1>23. CASE BrokenPipe(a) BY <1>23 DEF BrokenPipe, Unlocked
<1>24. CASE Interrupt(a) BY <1>24 DEF Interrupt, Unlocked
<1>25. CASE Kill(a) BY <1>25 DEF Kill, Unlocked
<1>26. CASE OrphanEnds(a) BY <1>26 DEF OrphanEnds
<1> QED BY <1>1, <1>2, <1>3, <1>4, <1>5, <1>6, <1>7, <1>8, <1>9, <1>10, <1>11, <1>12, <1>13,
  <1>14, <1>15, <1>16, <1>17, <1>18, <1>19, <1>20, <1>21, <1>22, <1>23, <1>24, <1>25, <1>26 DEF Script

\* Whoever pauses fwupd, or writes the BIOS, has the lock: no other invocation
\* touches the start condition.
LEMMA PauseScript ==
  ASSUME TypeOK, HoldInv, PauseInv, UnitInv, NEW a \in Apps, Script(a)
  PROVE  PauseInv'
<1> USE DEF TypeOK, HoldInv, PauseInv, UnitInv, Live, Over, InTrap, Chips, Goto, flashVars, fwupdVars, appVars
<1>1. CASE Start(a) BY <1>1 DEF Start
<1>2. CASE Refused(a) BY <1>2 DEF Refused
<1>3. CASE Prepare(a) BY <1>3 DEF Prepare
<1>4. CASE Confirm(a) BY <1>4 DEF Confirm
<1>5. CASE Recheck(a) BY <1>5 DEF Recheck
<1>6. CASE Pause(a) BY <1>6 DEF Pause
<1>7. CASE DropIn(a) BY <1>7 DEF DropIn
<1>8. CASE Reload(a) BY <1>8 DEF Reload
<1>9. CASE Stop(a) BY <1>9 DEF Stop
<1>10. CASE Arm(a) BY <1>10 DEF Arm
<1>11. CASE Program(a) BY <1>11 DEF Program
<1>12. CASE Erased(a) BY <1>12 DEF Erased
<1>13. CASE Programmed(a) BY <1>13 DEF Programmed
<1>14. CASE ProgramFails(a) BY <1>14 DEF ProgramFails, TeeMayDie
<1>15. CASE Verify(a) BY <1>15 DEF Verify
<1>16. CASE Verified(a) BY <1>16 DEF Verified
<1>17. CASE QueueReset(a) BY <1>17 DEF QueueReset
<1>18. CASE Queued(a) BY <1>18 DEF Queued
<1>19. CASE Abort(a) BY <1>19 DEF Abort, TeeMayDie
<1>20. CASE Cleanup(a) BY <1>20 DEF Cleanup
<1>21. CASE Unload(a) BY <1>21 DEF Unload
<1>22. CASE Restart(a) BY <1>22 DEF Restart, Unlocked
<1>23. CASE BrokenPipe(a) BY <1>23 DEF BrokenPipe, Unlocked
<1>24. CASE Interrupt(a) BY <1>24 DEF Interrupt, Unlocked
<1>25. CASE Kill(a) BY <1>25 DEF Kill, Unlocked
<1>26. CASE OrphanEnds(a) BY <1>26 DEF OrphanEnds
<1> QED BY <1>1, <1>2, <1>3, <1>4, <1>5, <1>6, <1>7, <1>8, <1>9, <1>10, <1>11, <1>12, <1>13,
  <1>14, <1>15, <1>16, <1>17, <1>18, <1>19, <1>20, <1>21, <1>22, <1>23, <1>24, <1>25, <1>26 DEF Script

LEMMA UnitScript ==
  ASSUME TypeOK, UnitInv, NEW a \in Apps, Script(a)
  PROVE  UnitInv'
<1> USE DEF TypeOK, UnitInv, Goto, flashVars, fwupdVars, appVars
<1>1. CASE Start(a) BY <1>1 DEF Start
<1>2. CASE Refused(a) BY <1>2 DEF Refused
<1>3. CASE Prepare(a) BY <1>3 DEF Prepare
<1>4. CASE Confirm(a) BY <1>4 DEF Confirm
<1>5. CASE Recheck(a) BY <1>5 DEF Recheck
<1>6. CASE Pause(a) BY <1>6 DEF Pause
<1>7. CASE DropIn(a) BY <1>7 DEF DropIn
<1>8. CASE Reload(a) BY <1>8 DEF Reload
<1>9. CASE Stop(a) BY <1>9 DEF Stop
<1>10. CASE Arm(a) BY <1>10 DEF Arm
<1>11. CASE Program(a) BY <1>11 DEF Program
<1>12. CASE Erased(a) BY <1>12 DEF Erased
<1>13. CASE Programmed(a) BY <1>13 DEF Programmed
<1>14. CASE ProgramFails(a) BY <1>14 DEF ProgramFails, TeeMayDie
<1>15. CASE Verify(a) BY <1>15 DEF Verify
<1>16. CASE Verified(a) BY <1>16 DEF Verified
<1>17. CASE QueueReset(a) BY <1>17 DEF QueueReset
<1>18. CASE Queued(a) BY <1>18 DEF Queued
<1>19. CASE Abort(a) BY <1>19 DEF Abort, TeeMayDie
<1>20. CASE Cleanup(a) BY <1>20 DEF Cleanup
<1>21. CASE Unload(a) BY <1>21 DEF Unload
<1>22. CASE Restart(a) BY <1>22 DEF Restart, Unlocked
<1>23. CASE BrokenPipe(a) BY <1>23 DEF BrokenPipe, Unlocked
<1>24. CASE Interrupt(a) BY <1>24 DEF Interrupt, Unlocked
<1>25. CASE Kill(a) BY <1>25 DEF Kill, Unlocked
<1>26. CASE OrphanEnds(a) BY <1>26 DEF OrphanEnds
<1> QED BY <1>1, <1>2, <1>3, <1>4, <1>5, <1>6, <1>7, <1>8, <1>9, <1>10, <1>11, <1>12, <1>13,
  <1>14, <1>15, <1>16, <1>17, <1>18, <1>19, <1>20, <1>21, <1>22, <1>23, <1>24, <1>25, <1>26 DEF Script

LEMMA BaseInit == Init => Base
<1> SUFFICES ASSUME Init PROVE Base
  OBVIOUS
<1>1. \A a \in Apps : pc[a] = "idle" /\ chip[a] = "ec" /\ ~restart[a]
  BY Zenon DEF Init
<1>2. TypeOK BY Zenon DEF Init, TypeOK, Chips, Places
<1>3. HoldInv BY <1>1 DEF Init, HoldInv, Live, Over
<1>4. PauseInv BY <1>1 DEF Init, PauseInv
<1>5. UnitInv BY <1>1 DEF Init, UnitInv
<1> QED BY <1>2, <1>3, <1>4, <1>5 DEF Base

\* The machine around the invocations.  A power cycle finds none alive, and its
\* end of their programmers frees the lock.
LEMMA BaseMachine ==
  ASSUME Base, DBusStart \/ FwupdIdles \/ OperatorQueues \/ PowerCycle
  PROVE  Base'
<1> USE DEF Base, TypeOK, HoldInv, PauseInv, UnitInv, Live, Over, flashVars, fwupdVars, appVars
<1>1. CASE DBusStart BY <1>1 DEF DBusStart, Blocked
<1>2. CASE FwupdIdles BY <1>2 DEF FwupdIdles
<1>3. CASE OperatorQueues BY <1>3 DEF OperatorQueues
<1>4. CASE PowerCycle BY <1>4 DEF PowerCycle, Chips
<1> QED BY <1>1, <1>2, <1>3, <1>4

LEMMA BaseStep == Base /\ [Next]_vars => Base'
<1> SUFFICES ASSUME Base, [Next]_vars PROVE Base'
  OBVIOUS
<1>1. ASSUME NEW a \in Apps, Script(a) PROVE Base'
  BY <1>1, TypeScript, HoldScript, PauseScript, UnitScript DEF Base
<1>2. CASE UNCHANGED vars
  BY <1>2 DEF Base, TypeOK, HoldInv, PauseInv, UnitInv, Live, Over,
              vars, flashVars, fwupdVars, appVars
<1> QED BY <1>1, <1>2, BaseMachine DEF Next

\* The variables keep their types, and the lock has one holder.
THEOREM BaseInvariance == Spec => []Base
<1>1. Init => Base BY BaseInit
<1>2. Base /\ [Next]_vars => Base' BY BaseStep
<1> QED BY <1>1, <1>2, PTL DEF Spec

\* Of any number of invocations, killed or not, one programmer writes at a time
\* (redrix-flash.sh takes the lock with flock on a descriptor its children share).
THEOREM OneAtATime == Spec => []OneProgrammer
<1>1. Base => OneProgrammer
  BY DEF Base, TypeOK, HoldInv, OneProgrammer
<1> QED BY <1>1, BaseInvariance, PTL

\* fwupd is down while flashrom writes, whatever D-Bus asks for (pause_fwupd).
THEOREM FwupdDown == Spec => []FwupdKeptOut
<1>1. Base => FwupdKeptOut
  BY DEF Base, TypeOK, PauseInv, FwupdKeptOut
<1> QED BY <1>1, BaseInvariance, PTL

-----------------------------------------------------------------------------
\* What the flash may hold, however an invocation ends.

Unarmed == {"idle", "prepare", "confirm", "recheck", "pause", "dropin", "reload", "stop", "arm"}

\* What the script's variables say of the flash.
WriteInv ==
  \A a \in Apps :
    /\ pc[a] \in Unarmed => ~writing[a]
    /\ pc[a] \in {"erase", "erasing", "write", "programming", "verify", "verified"} => writing[a]
    /\ pc[a] \in {"verified", "queue", "queued"} => flash[chip[a]] = "new"
    /\ a \in child => flash[chip[a]] = "torn"
    /\ pc[a] \in {"unload", "restart"} /\ writing[a] => chip[a] \in warned
    /\ pc[a] = "dead" /\ a \in child => chip[a] \in warned

\* No reset is queued while the EC is written.
QueueInv ==
  \A a \in Apps :
    chip[a] = "ec" /\ pc[a] \in {"arm", "erase", "erasing", "write", "programming"} => ~queued

\* Where the start condition may be.
DropInInv ==
  \A a \in Apps :
    a \in dropins =>
      pc[a] \notin {"idle", "prepare", "confirm", "recheck", "pause", "dropin",
                    "unload", "restart", "done"}

Orderly == Base /\ WriteInv /\ QueueInv /\ DropInInv /\ TornIsKnown /\ EcBootable

\* Only who holds the lock writes, and withdraws a warning.
LEMMA WriteScript ==
  ASSUME Base, WriteInv, NEW a \in Apps, Script(a)
  PROVE  WriteInv'
<1> USE DEF Base, TypeOK, HoldInv, PauseInv, WriteInv, Unarmed, Live, Over, InTrap, Chips, Goto, flashVars, fwupdVars, appVars
<1>1. CASE Start(a) BY <1>1 DEF Start
<1>2. CASE Refused(a) BY <1>2 DEF Refused
<1>3. CASE Prepare(a) BY <1>3 DEF Prepare
<1>4. CASE Confirm(a) BY <1>4 DEF Confirm
<1>5. CASE Recheck(a) BY <1>5 DEF Recheck
<1>6. CASE Pause(a) BY <1>6 DEF Pause
<1>7. CASE DropIn(a) BY <1>7 DEF DropIn
<1>8. CASE Reload(a) BY <1>8 DEF Reload
<1>9. CASE Stop(a) BY <1>9 DEF Stop
<1>10. CASE Arm(a) BY <1>10 DEF Arm
<1>11. CASE Program(a) BY <1>11 DEF Program
<1>12. CASE Erased(a) BY <1>12 DEF Erased
<1>13. CASE Programmed(a) BY <1>13 DEF Programmed
<1>14. CASE ProgramFails(a) BY <1>14 DEF ProgramFails, TeeMayDie
<1>15. CASE Verify(a) BY <1>15 DEF Verify
<1>16. CASE Verified(a) BY <1>16 DEF Verified
<1>17. CASE QueueReset(a) BY <1>17 DEF QueueReset
<1>18. CASE Queued(a) BY <1>18 DEF Queued
<1>19. CASE Abort(a) BY <1>19 DEF Abort, TeeMayDie
<1>20. CASE Cleanup(a) BY <1>20 DEF Cleanup
<1>21. CASE Unload(a) BY <1>21 DEF Unload
<1>22. CASE Restart(a) BY <1>22 DEF Restart, Unlocked
<1>23. CASE BrokenPipe(a) BY <1>23 DEF BrokenPipe, Unlocked
<1>24. CASE Interrupt(a) BY <1>24 DEF Interrupt, Unlocked
<1>25. CASE Kill(a) BY <1>25 DEF Kill, Unlocked
<1>26. CASE OrphanEnds(a) BY <1>26 DEF OrphanEnds
<1> QED BY <1>1, <1>2, <1>3, <1>4, <1>5, <1>6, <1>7, <1>8, <1>9, <1>10, <1>11, <1>12, <1>13,
  <1>14, <1>15, <1>16, <1>17, <1>18, <1>19, <1>20, <1>21, <1>22, <1>23, <1>24, <1>25, <1>26 DEF Script

LEMMA QueueScript ==
  ASSUME Base, WriteInv, QueueInv, NEW a \in Apps, Script(a)
  PROVE  QueueInv'
<1> USE DEF Base, TypeOK, HoldInv, PauseInv, QueueInv, Live, Over, InTrap, Chips, Goto, flashVars, fwupdVars, appVars
<1>1. CASE Start(a) BY <1>1 DEF Start
<1>2. CASE Refused(a) BY <1>2 DEF Refused
<1>3. CASE Prepare(a) BY <1>3 DEF Prepare
<1>4. CASE Confirm(a) BY <1>4 DEF Confirm
<1>5. CASE Recheck(a) BY <1>5 DEF Recheck
<1>6. CASE Pause(a) BY <1>6 DEF Pause
<1>7. CASE DropIn(a) BY <1>7 DEF DropIn
<1>8. CASE Reload(a) BY <1>8 DEF Reload
<1>9. CASE Stop(a) BY <1>9 DEF Stop
<1>10. CASE Arm(a) BY <1>10 DEF Arm
<1>11. CASE Program(a) BY <1>11 DEF Program
<1>12. CASE Erased(a) BY <1>12 DEF Erased
<1>13. CASE Programmed(a) BY <1>13 DEF Programmed
<1>14. CASE ProgramFails(a) BY <1>14 DEF ProgramFails, TeeMayDie
<1>15. CASE Verify(a) BY <1>15 DEF Verify
<1>16. CASE Verified(a) BY <1>16 DEF Verified
<1>17. CASE QueueReset(a) BY <1>17 DEF QueueReset
<1>18. CASE Queued(a) BY <1>18 DEF Queued
<1>19. CASE Abort(a) BY <1>19 DEF Abort, TeeMayDie
<1>20. CASE Cleanup(a) BY <1>20 DEF Cleanup
<1>21. CASE Unload(a) BY <1>21 DEF Unload
<1>22. CASE Restart(a) BY <1>22 DEF Restart, Unlocked
<1>23. CASE BrokenPipe(a) BY <1>23 DEF BrokenPipe, Unlocked
<1>24. CASE Interrupt(a) BY <1>24 DEF Interrupt, Unlocked
<1>25. CASE Kill(a) BY <1>25 DEF Kill, Unlocked
<1>26. CASE OrphanEnds(a) BY <1>26 DEF OrphanEnds
<1> QED BY <1>1, <1>2, <1>3, <1>4, <1>5, <1>6, <1>7, <1>8, <1>9, <1>10, <1>11, <1>12, <1>13,
  <1>14, <1>15, <1>16, <1>17, <1>18, <1>19, <1>20, <1>21, <1>22, <1>23, <1>24, <1>25, <1>26 DEF Script

LEMMA DropInScript ==
  ASSUME TypeOK, DropInInv, NEW a \in Apps, Script(a)
  PROVE  DropInInv'
<1> USE DEF TypeOK, DropInInv, Over, InTrap, Goto, flashVars, fwupdVars, appVars
<1>1. CASE Start(a) BY <1>1 DEF Start
<1>2. CASE Refused(a) BY <1>2 DEF Refused
<1>3. CASE Prepare(a) BY <1>3 DEF Prepare
<1>4. CASE Confirm(a) BY <1>4 DEF Confirm
<1>5. CASE Recheck(a) BY <1>5 DEF Recheck
<1>6. CASE Pause(a) BY <1>6 DEF Pause
<1>7. CASE DropIn(a) BY <1>7 DEF DropIn
<1>8. CASE Reload(a) BY <1>8 DEF Reload
<1>9. CASE Stop(a) BY <1>9 DEF Stop
<1>10. CASE Arm(a) BY <1>10 DEF Arm
<1>11. CASE Program(a) BY <1>11 DEF Program
<1>12. CASE Erased(a) BY <1>12 DEF Erased
<1>13. CASE Programmed(a) BY <1>13 DEF Programmed
<1>14. CASE ProgramFails(a) BY <1>14 DEF ProgramFails, TeeMayDie
<1>15. CASE Verify(a) BY <1>15 DEF Verify
<1>16. CASE Verified(a) BY <1>16 DEF Verified
<1>17. CASE QueueReset(a) BY <1>17 DEF QueueReset
<1>18. CASE Queued(a) BY <1>18 DEF Queued
<1>19. CASE Abort(a) BY <1>19 DEF Abort, TeeMayDie
<1>20. CASE Cleanup(a) BY <1>20 DEF Cleanup
<1>21. CASE Unload(a) BY <1>21 DEF Unload
<1>22. CASE Restart(a) BY <1>22 DEF Restart, Unlocked
<1>23. CASE BrokenPipe(a) BY <1>23 DEF BrokenPipe, Unlocked
<1>24. CASE Interrupt(a) BY <1>24 DEF Interrupt, Unlocked
<1>25. CASE Kill(a) BY <1>25 DEF Kill, Unlocked
<1>26. CASE OrphanEnds(a) BY <1>26 DEF OrphanEnds
<1> QED BY <1>1, <1>2, <1>3, <1>4, <1>5, <1>6, <1>7, <1>8, <1>9, <1>10, <1>11, <1>12, <1>13,
  <1>14, <1>15, <1>16, <1>17, <1>18, <1>19, <1>20, <1>21, <1>22, <1>23, <1>24, <1>25, <1>26 DEF Script

\* Whoever leaves a torn image behind has warned.
LEMMA TornScript ==
  ASSUME Base, WriteInv, TornIsKnown, NEW a \in Apps, Script(a)
  PROVE  TornIsKnown'
<1> USE DEF Base, TypeOK, HoldInv, PauseInv, WriteInv, TornIsKnown, Untold, Unarmed, Live, Over, InTrap, Chips, Goto, flashVars, fwupdVars, appVars
<1>1. CASE Start(a) BY <1>1 DEF Start
<1>2. CASE Refused(a) BY <1>2 DEF Refused
<1>3. CASE Prepare(a) BY <1>3 DEF Prepare
<1>4. CASE Confirm(a) BY <1>4 DEF Confirm
<1>5. CASE Recheck(a) BY <1>5 DEF Recheck
<1>6. CASE Pause(a) BY <1>6 DEF Pause
<1>7. CASE DropIn(a) BY <1>7 DEF DropIn
<1>8. CASE Reload(a) BY <1>8 DEF Reload
<1>9. CASE Stop(a) BY <1>9 DEF Stop
<1>10. CASE Arm(a) BY <1>10 DEF Arm
<1>11. CASE Program(a) BY <1>11 DEF Program
<1>12. CASE Erased(a) BY <1>12 DEF Erased
<1>13. CASE Programmed(a) BY <1>13 DEF Programmed
<1>14. CASE ProgramFails(a) BY <1>14 DEF ProgramFails, TeeMayDie
<1>15. CASE Verify(a) BY <1>15 DEF Verify
<1>16. CASE Verified(a) BY <1>16 DEF Verified
<1>17. CASE QueueReset(a) BY <1>17 DEF QueueReset
<1>18. CASE Queued(a) BY <1>18 DEF Queued
<1>19. CASE Abort(a) BY <1>19 DEF Abort, TeeMayDie
<1>20. CASE Cleanup(a) BY <1>20 DEF Cleanup
<1>21. CASE Unload(a) BY <1>21 DEF Unload
<1>22. CASE Restart(a) BY <1>22 DEF Restart, Unlocked
<1>23. CASE BrokenPipe(a) BY <1>23 DEF BrokenPipe, Unlocked
<1>24. CASE Interrupt(a) BY <1>24 DEF Interrupt, Unlocked
<1>25. CASE Kill(a) BY <1>25 DEF Kill, Unlocked
<1>26. CASE OrphanEnds(a) BY <1>26 DEF OrphanEnds
<1> QED BY <1>1, <1>2, <1>3, <1>4, <1>5, <1>6, <1>7, <1>8, <1>9, <1>10, <1>11, <1>12, <1>13,
  <1>14, <1>15, <1>16, <1>17, <1>18, <1>19, <1>20, <1>21, <1>22, <1>23, <1>24, <1>25, <1>26 DEF Script

\* The EC is torn with no reset queued, and a reset queued with the EC whole.
LEMMA BootScript ==
  ASSUME Base, WriteInv, QueueInv, EcBootable, NEW a \in Apps, Script(a)
  PROVE  EcBootable'
<1> USE DEF Base, TypeOK, HoldInv, PauseInv, WriteInv, QueueInv, EcBootable, Untold, Live, Over, InTrap, Chips, Goto, flashVars, fwupdVars, appVars
<1>1. CASE Start(a) BY <1>1 DEF Start
<1>2. CASE Refused(a) BY <1>2 DEF Refused
<1>3. CASE Prepare(a) BY <1>3 DEF Prepare
<1>4. CASE Confirm(a) BY <1>4 DEF Confirm
<1>5. CASE Recheck(a) BY <1>5 DEF Recheck
<1>6. CASE Pause(a) BY <1>6 DEF Pause
<1>7. CASE DropIn(a) BY <1>7 DEF DropIn
<1>8. CASE Reload(a) BY <1>8 DEF Reload
<1>9. CASE Stop(a) BY <1>9 DEF Stop
<1>10. CASE Arm(a) BY <1>10 DEF Arm
<1>11. CASE Program(a) BY <1>11 DEF Program
<1>12. CASE Erased(a) BY <1>12 DEF Erased
<1>13. CASE Programmed(a) BY <1>13 DEF Programmed
<1>14. CASE ProgramFails(a) BY <1>14 DEF ProgramFails, TeeMayDie
<1>15. CASE Verify(a) BY <1>15 DEF Verify
<1>16. CASE Verified(a) BY <1>16 DEF Verified
<1>17. CASE QueueReset(a) BY <1>17 DEF QueueReset
<1>18. CASE Queued(a) BY <1>18 DEF Queued
<1>19. CASE Abort(a) BY <1>19 DEF Abort, TeeMayDie
<1>20. CASE Cleanup(a) BY <1>20 DEF Cleanup
<1>21. CASE Unload(a) BY <1>21 DEF Unload
<1>22. CASE Restart(a) BY <1>22 DEF Restart, Unlocked
<1>23. CASE BrokenPipe(a) BY <1>23 DEF BrokenPipe, Unlocked
<1>24. CASE Interrupt(a) BY <1>24 DEF Interrupt, Unlocked
<1>25. CASE Kill(a) BY <1>25 DEF Kill, Unlocked
<1>26. CASE OrphanEnds(a) BY <1>26 DEF OrphanEnds
<1> QED BY <1>1, <1>2, <1>3, <1>4, <1>5, <1>6, <1>7, <1>8, <1>9, <1>10, <1>11, <1>12, <1>13,
  <1>14, <1>15, <1>16, <1>17, <1>18, <1>19, <1>20, <1>21, <1>22, <1>23, <1>24, <1>25, <1>26 DEF Script

LEMMA OrderlyInit == Init => Orderly
<1> SUFFICES ASSUME Init PROVE Orderly
  OBVIOUS
<1>1. \A a \in Apps : pc[a] = "idle" /\ ~writing[a]
  BY Zenon DEF Init
<1>2. \A c \in Chips : flash[c] = "old"
  BY Zenon DEF Init
<1>3. Base BY BaseInit
<1>4. WriteInv BY <1>1 DEF Init, WriteInv, Unarmed
<1>5. QueueInv BY <1>1 DEF QueueInv
<1>6. DropInInv BY DEF Init, DropInInv
<1>7. TornIsKnown BY <1>2 DEF TornIsKnown
<1>8. EcBootable BY DEF Init, EcBootable
<1> QED BY <1>3, <1>4, <1>5, <1>6, <1>7, <1>8 DEF Orderly

\* The operator queues a reset when the EC is neither torn nor written; a torn
\* BIOS has no power cycle.
LEMMA OrderlyMachine ==
  ASSUME Orderly, DBusStart \/ FwupdIdles \/ OperatorQueues \/ PowerCycle
  PROVE  Orderly'
<1> USE DEF Orderly, flashVars, fwupdVars, appVars
<1>1. Base' BY BaseMachine
<1>2. CASE DBusStart \/ FwupdIdles
  BY <1>1, <1>2 DEF DBusStart, FwupdIdles, WriteInv, QueueInv, DropInInv, TornIsKnown, EcBootable, Untold, Live
<1>3. CASE OperatorQueues
  <2> USE <1>3 DEF OperatorQueues
  <2>1. WriteInv' /\ DropInInv' /\ TornIsKnown'
    BY DEF WriteInv, DropInInv, TornIsKnown, Untold, Live
  <2>2. QueueInv'
    BY DEF QueueInv, Live, Over
  <2>3. EcBootable'
    BY DEF EcBootable, Untold, TornIsKnown, WriteInv, Unarmed, Live, Chips
  <2> QED BY <1>1, <2>1, <2>2, <2>3
<1>4. CASE PowerCycle
  BY <1>1, <1>4 DEF PowerCycle, WriteInv, QueueInv, DropInInv, TornIsKnown, EcBootable,
                    Untold, Live, Over, Chips
<1> QED BY <1>2, <1>3, <1>4

LEMMA OrderlyStep == Orderly /\ [Next]_vars => Orderly'
<1> SUFFICES ASSUME Orderly, [Next]_vars PROVE Orderly'
  OBVIOUS
<1>1. Base' BY BaseStep DEF Orderly
<1>2. ASSUME NEW a \in Apps, Script(a) PROVE Orderly'
  BY <1>1, <1>2, WriteScript, QueueScript, DropInScript, TornScript, BootScript
  DEF Orderly, Base
<1>3. CASE UNCHANGED vars
  BY <1>1, <1>3 DEF Orderly, WriteInv, QueueInv, DropInInv, TornIsKnown, EcBootable, Untold, Live,
                    vars, flashVars, fwupdVars, appVars
<1> QED BY <1>2, <1>3, OrderlyMachine DEF Next

LEMMA OrderlyInvariance == Spec => []Orderly
<1>1. Init => Orderly BY OrderlyInit
<1>2. Orderly /\ [Next]_vars => Orderly' BY OrderlyStep
<1> QED BY <1>1, <1>2, PTL DEF Spec

\* No reset that is queued, by the script or by an operator who was told, ever
\* activates a torn EC image (check_ec and the readback in ec-rw).
THEOREM NeverBricked == Spec => []EcBootable
<1>1. Orderly => EcBootable BY DEF Orderly
<1> QED BY <1>1, OrderlyInvariance, PTL

\* A torn image is being written or has been announced, unless a signal cut the
\* trap short (cleanup).
THEOREM TornAnnounced == Spec => []TornIsKnown
<1>1. Orderly => TornIsKnown BY DEF Orderly
<1> QED BY <1>1, OrderlyInvariance, PTL

\* An invocation whose trap comes to its end leaves no start condition (cleanup).
THEOREM ConditionWithdrawn == Spec => []FwupdReleased
<1>1. Orderly => FwupdReleased BY DEF Orderly, DropInInv, FwupdReleased
<1> QED BY <1>1, OrderlyInvariance, PTL

=============================================================================
