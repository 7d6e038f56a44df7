---------------------------- MODULE ClientThread ----------------------------
(***************************************************************************)
(* ClientThread (OneVPNHelper/Utils/ClientThread.m): an NSThread that runs *)
(* a "before start" block on its creator, starts only if that block        *)
(* succeeds, and lets any other thread join it through an NSConditionLock. *)
(*                                                                         *)
(* The lock is created by -start, after the before-start block, and again  *)
(* by every further -start (the PPTP retry loop calls it up to five times  *)
(* on one object, a second request may call it at any time), so a lock is  *)
(* named here by a number: 0 is the nil lock of an object not started yet, *)
(* n the lock its n-th -start created.  A joiner keeps the lock it found;  *)
(* only the one that is the newest when the block ends is ever signalled.  *)
(***************************************************************************)
EXTENDS Naturals

CONSTANTS
    Threads,    \* the ClientThread objects
    NoThread,   \* the nil pointer
    Callers,    \* the threads that may call -join
    MaxStarts   \* how often -start may be called on one object

ASSUME ThreadAssumption ==
    /\ NoThread \notin Threads
    /\ MaxStarts \in Nat \ {0}

VARIABLES
    phase,      \* where each object is in its life
    cancelled,  \* NSThread's isCancelled
    lock,       \* number of the current NSConditionLock, 0 before -start
    signalled,  \* the current lock's condition is kStopCondition
    success,    \* the block's result, false until it returns
    waits       \* the lock each caller is blocked on, inside -join

threadVars == <<phase, cancelled, lock, signalled, success, waits>>

NotWaiting == [thread |-> NoThread, number |-> 0]
Locks == [thread : Threads, number : 1..MaxStarts]
Phases == {"free", "allocated", "spawned", "inBlock", "finished"}

ThreadTypeOK ==
    /\ phase \in [Threads -> Phases]
    /\ cancelled \in [Threads -> BOOLEAN]
    /\ lock \in [Threads -> 0..MaxStarts]
    /\ signalled \in [Threads -> BOOLEAN]
    /\ success \in [Threads -> BOOLEAN]
    /\ waits \in [Callers -> Locks \cup {NotWaiting}]

ThreadInit ==
    /\ phase = [t \in Threads |-> "free"]
    /\ cancelled = [t \in Threads |-> FALSE]
    /\ lock = [t \in Threads |-> 0]
    /\ signalled = [t \in Threads |-> FALSE]
    /\ success = [t \in Threads |-> FALSE]
    /\ waits = [c \in Callers |-> NotWaiting]

-----------------------------------------------------------------------------
\* The operations of one object.

InitThread(t) ==
    /\ phase[t] = "free"
    /\ phase' = [phase EXCEPT ![t] = "allocated"]
    /\ UNCHANGED <<cancelled, lock, signalled, success, waits>>

\* Mutant: the old lock is kept.
StartKeepsLock(t, ok) ==
    /\ IF ok THEN phase[t] = "allocated" ELSE phase[t] # "free"
    /\ lock' = [lock EXCEPT ![t] = 1]
    /\ signalled' = [signalled EXCEPT ![t] = FALSE]
    /\ phase' = IF ok THEN [phase EXCEPT ![t] = "spawned"] ELSE phase
    /\ UNCHANGED <<cancelled, success, waits>>

\* -start once its before-start block has returned ok: a new lock in
\* kStartCondition in any case, whatever the object was doing, the thread itself
\* only if the block succeeded.  An NSThread is started once: a second time raises.
StartThread(t, ok) ==
    /\ IF ok THEN phase[t] = "allocated" ELSE phase[t] # "free"
    /\ lock[t] < MaxStarts
    /\ lock' = [lock EXCEPT ![t] = @ + 1]
    /\ signalled' = [signalled EXCEPT ![t] = FALSE]
    /\ phase' = IF ok THEN [phase EXCEPT ![t] = "spawned"] ELSE phase
    /\ UNCHANGED <<cancelled, success, waits>>

\* The new thread enters -backgroundSelector and takes its lock, free because a
\* joiner takes it in kStopCondition only.
EnterBlock(t) ==
    /\ phase[t] = "spawned"
    /\ phase' = [phase EXCEPT ![t] = "inBlock"]
    /\ UNCHANGED <<cancelled, lock, signalled, success, waits>>

\* Mutant: the lock is released without kStopCondition.
FinishSilently(t, result) ==
    /\ phase[t] = "inBlock"
    /\ phase' = [phase EXCEPT ![t] = "finished"]
    /\ success' = [success EXCEPT ![t] = result]
    /\ UNCHANGED <<cancelled, lock, signalled, waits>>

\* The block returns: its result is stored, then self.lock, read again, is released
\* with kStopCondition.  One step: a -start or a read of the result that comes between
\* the two has the effect it would have before or after both.
FinishBlock(t, result) ==
    /\ phase[t] = "inBlock"
    /\ phase' = [phase EXCEPT ![t] = "finished"]
    /\ success' = [success EXCEPT ![t] = result]
    /\ signalled' = [signalled EXCEPT ![t] = TRUE]
    /\ UNCHANGED <<cancelled, lock, waits>>

CancelThread(t) ==
    /\ phase[t] # "free"
    /\ cancelled' = [cancelled EXCEPT ![t] = TRUE]
    /\ UNCHANGED <<phase, lock, signalled, success, waits>>

\* -join on an object whose lock is still nil returns at once.
JoinNilLock(t) ==
    /\ phase[t] # "free"
    /\ lock[t] = 0
    /\ UNCHANGED threadVars

JoinLock(c, t) ==
    /\ phase[t] # "free"
    /\ lock[t] # 0
    /\ waits[c] = NotWaiting
    /\ waits' = [waits EXCEPT ![c] = [thread |-> t, number |-> lock[t]]]
    /\ UNCHANGED <<phase, cancelled, lock, signalled, success>>

\* Mutant: -lock instead of -lockWhenCondition:.
LockAnyCondition(c) ==
    /\ waits[c] # NotWaiting
    /\ waits[c].number = lock[waits[c].thread]
    /\ phase[waits[c].thread] # "inBlock"

\* The lock that c waits on is the current one of its object and was released
\* with kStopCondition.
Joinable(c) ==
    /\ waits[c] # NotWaiting
    /\ waits[c].number = lock[waits[c].thread]
    /\ signalled[waits[c].thread]

\* Locked and released again in one step, so that a -start between the two, which
\* would have the joiner release the new lock, is left out.
JoinReturns(c) ==
    /\ Joinable(c)
    /\ waits' = [waits EXCEPT ![c] = NotWaiting]
    /\ UNCHANGED <<phase, cancelled, lock, signalled, success>>

-----------------------------------------------------------------------------
\* The class on its own, under any caller: the block of a started thread waits
\* for the cancellation, as the three blocks of VPNConnectionManager do.

CallJoin(c, t) == JoinLock(c, t) \/ JoinNilLock(t)

BlockReturns(t) ==
    /\ cancelled[t]
    /\ \E result \in BOOLEAN : FinishBlock(t, result)

ThreadNext ==
    \/ \E t \in Threads :
          \/ InitThread(t)
          \/ \E ok \in BOOLEAN : StartThread(t, ok)
          \/ CancelThread(t)
          \/ EnterBlock(t)
          \/ BlockReturns(t)
    \/ \E c \in Callers, t \in Threads : CallJoin(c, t)
    \/ \E c \in Callers : JoinReturns(c)

ThreadFairness ==
    /\ \A t \in Threads : WF_threadVars(EnterBlock(t)) /\ WF_threadVars(BlockReturns(t))
    /\ \A c \in Callers : WF_threadVars(JoinReturns(c))

ThreadSpec == ThreadInit /\ [][ThreadNext]_threadVars /\ ThreadFairness

-----------------------------------------------------------------------------
\* What the class promises.

\* A lock is signalled only when the block has run to its end: a joiner that is let
\* through reads a final result (ClientThread.m:42-45, 64-74).  A started thread has
\* a lock.
SignalledIsFinished ==
    \A t \in Threads :
        /\ signalled[t] => phase[t] = "finished"
        /\ phase[t] \in {"spawned", "inBlock", "finished"} => lock[t] > 0

\* No joiner holds a lock that does not exist yet.
WaitsOnCreatedLock ==
    \A c \in Callers : waits[c] # NotWaiting =>
        /\ phase[waits[c].thread] # "free"
        /\ waits[c].number <= lock[waits[c].thread]

\* -join never returns from a lock before the block has finished, and the
\* result read after it never changes again.
JoinAfterBlock ==
    [][/\ \A c \in Callers :
            waits[c] # NotWaiting /\ waits'[c] = NotWaiting =>
                phase[waits[c].thread] = "finished"
       /\ \A t \in Threads :
            phase[t] = "finished" => success'[t] = success[t] /\ phase'[t] = "finished"
      ]_threadVars

\* c holds the lock of a -start that started nothing: refused by its before-start
\* block, replaced by the lock of a later -start, or made, not as the first, when the
\* block was over.
WaitsOnDeadLock(c) ==
    /\ waits[c] # NotWaiting
    /\ LET t == waits[c].thread IN
          \/ phase[t] = "allocated"
          \/ waits[c].number < lock[t]
          \/ phase[t] = "finished" /\ ~signalled[t] /\ waits[c].number > 1

\* A joiner of a cancelled thread gets out, unless its lock belongs to a -start
\* that started nothing: those are never signalled.
JoinEnds ==
    \A c \in Callers :
        (waits[c] # NotWaiting /\ cancelled[waits[c].thread])
            ~> (waits[c] = NotWaiting \/ WaitsOnDeadLock(c))

\* Once dead, a lock keeps its joiner for ever, whatever is started, cancelled
\* or finished later: nothing ever signals it (ClientThread.m:55, 73).
DeadLockIsForever ==
    [][\A c \in Callers :
         WaitsOnDeadLock(c) => waits'[c] = waits[c] /\ WaitsOnDeadLock(c)']_threadVars
=============================================================================
