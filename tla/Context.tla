------------------------------ MODULE Context ------------------------------
(***************************************************************************)
(* The coroutines of the host interface (fesvr/context.cc, the pthread     *)
(* branch, compiled where the C library is not glibc): each context is a   *)
(* thread with a mutex, a condition variable and a flag, and switch_to     *)
(* hands control from the current thread to another.  The host threads of  *)
(* the DTM, TSI and pthread transports share their queues with the target  *)
(* without locks: they rely on OneRuns.                                    *)
(*                                                                         *)
(* One action is one statement.  flag is a volatile int, read and written  *)
(* without the mutex; an aligned int is read and written whole.            *)
(***************************************************************************)
EXTENDS Naturals

CONSTANTS
  Ctx,      \* the contexts
  Main      \* the one context_t::current() makes for the thread it is called in

ASSUME CtxAssumption == Main \in Ctx

VARIABLES
  cpc,      \* statement each thread is at
  dest,     \* the context a thread is switching to (its creator, in the wrapper)
  flag,
  mutex,    \* {} or the thread that holds the mutex of a context
  waiting   \* threads in pthread_cond_wait, each on its own condition variable

ctxVars == <<cpc, dest, flag, mutex, waiting>>

\* "none": no thread yet; "run": outside context_t; "i..": init; "s..": switch_to.
Places == {"none", "run", "i_lock", "i_clear", "i_create", "s_clear", "s_set", "s_lock", "s_signal",
           "s_unlock", "w_lock", "w_test", "w_wait", "w_again", "w_unlock"}

CtxTypeOK ==
  /\ cpc \in [Ctx -> Places] /\ dest \in [Ctx -> Ctx] /\ flag \in [Ctx -> BOOLEAN]
  /\ mutex \in [Ctx -> SUBSET Ctx] /\ waiting \subseteq Ctx

CtxInit ==
  /\ cpc = [c \in Ctx |-> IF c = Main THEN "run" ELSE "none"]
  /\ dest = [c \in Ctx |-> c]
  /\ flag = [c \in Ctx |-> c = Main]
  /\ mutex = [c \in Ctx |-> {}] /\ waiting = {}

Goto(c, p) == cpc' = [cpc EXCEPT ![c] = p]
Lock(c, m) == mutex[m] = {} /\ mutex' = [mutex EXCEPT ![m] = {c}]
Unlock(m)  == mutex' = [mutex EXCEPT ![m] = {}]

-----------------------------------------------------------------------------
(* init.                                                                   *)

\* n.init(f, a), called by thread c: the creator's mutex is held until it waits.
InitCall(c, n) ==
  /\ cpc[c] = "run" /\ cpc[n] = "none"
  /\ Goto(c, "i_lock") /\ dest' = [dest EXCEPT ![c] = n]
  /\ UNCHANGED <<flag, mutex, waiting>>

InitLock(c)  == cpc[c] = "i_lock" /\ Lock(c, c) /\ Goto(c, "i_clear") /\ UNCHANGED <<dest, flag, waiting>>
InitClear(c) == cpc[c] = "i_clear" /\ flag' = [flag EXCEPT ![c] = FALSE] /\ Goto(c, "i_create")
                /\ UNCHANGED <<dest, mutex, waiting>>

\* pthread_create; the new thread is in wrapper, at creator->switch_to().
InitCreate(c) ==
  /\ cpc[c] = "i_create"
  /\ cpc' = [cpc EXCEPT ![c] = "w_test", ![dest[c]] = "s_clear"]
  /\ dest' = [dest EXCEPT ![dest[c]] = c]
  /\ UNCHANGED <<flag, mutex, waiting>>

-----------------------------------------------------------------------------
(* switch_to.                                                              *)

SwitchCall(c, d) ==
  /\ cpc[c] = "run" /\ d # c /\ cpc[d] # "none"
  /\ Goto(c, "s_clear") /\ dest' = [dest EXCEPT ![c] = d]
  /\ UNCHANGED <<flag, mutex, waiting>>

SwitchClear(c) ==
  /\ cpc[c] = "s_clear"
  /\ flag' = [flag EXCEPT ![c] = FALSE] /\ Goto(c, "s_set")
  /\ UNCHANGED <<dest, mutex, waiting>>

SwitchSet(c) ==
  /\ cpc[c] = "s_set"
  /\ flag' = [flag EXCEPT ![dest[c]] = TRUE] /\ Goto(c, "s_lock")
  /\ UNCHANGED <<dest, mutex, waiting>>

SwitchLock(c)   == cpc[c] = "s_lock" /\ Lock(c, dest[c]) /\ Goto(c, "s_signal") /\ UNCHANGED <<dest, flag, waiting>>
SwitchSignal(c) == cpc[c] = "s_signal" /\ waiting' = waiting \ {dest[c]} /\ Goto(c, "s_unlock")
                   /\ UNCHANGED <<dest, flag, mutex>>
SwitchUnlock(c) == cpc[c] = "s_unlock" /\ Unlock(dest[c]) /\ Goto(c, "w_lock") /\ UNCHANGED <<dest, flag, waiting>>

-----------------------------------------------------------------------------
(* The wait that ends both.                                                *)

WaitLock(c) == cpc[c] = "w_lock" /\ Lock(c, c) /\ Goto(c, "w_test") /\ UNCHANGED <<dest, flag, waiting>>

\* The test of the flag, as a step of its own: the flag may change before the wait.
WaitTest(c) ==
  /\ cpc[c] = "w_test"
  /\ Goto(c, IF flag[c] THEN "w_unlock" ELSE "w_wait")
  /\ UNCHANGED <<dest, flag, mutex, waiting>>

\* pthread_cond_wait releases the mutex and waits, atomically.
WaitBegin(c) ==
  /\ cpc[c] = "w_wait" /\ Goto(c, "w_again")
  /\ waiting' = waiting \cup {c} /\ Unlock(c)
  /\ UNCHANGED <<dest, flag>>

\* Mutant of WaitEnd: the flag is not tested again.
WaitEndOnce(c) ==
  /\ cpc[c] = "w_again" /\ c \notin waiting /\ Lock(c, c)
  /\ Goto(c, "w_unlock")
  /\ UNCHANGED <<dest, flag, waiting>>

\* It returns with the mutex, to the test.
WaitEnd(c) ==
  /\ cpc[c] = "w_again" /\ c \notin waiting /\ Lock(c, c)
  /\ Goto(c, "w_test")
  /\ UNCHANGED <<dest, flag, waiting>>

\* A wakeup without a signal, which POSIX allows.
SpuriousWakeup(c) == c \in waiting /\ waiting' = waiting \ {c} /\ UNCHANGED <<cpc, dest, flag, mutex>>

\* Control is with c: switch_to returns, or the new context's function starts.
WaitUnlock(c) == cpc[c] = "w_unlock" /\ Unlock(c) /\ Goto(c, "run") /\ UNCHANGED <<dest, flag, waiting>>

CtxStep(c) ==
  \/ InitLock(c) \/ InitClear(c) \/ InitCreate(c)
  \/ SwitchClear(c) \/ SwitchSet(c) \/ SwitchLock(c) \/ SwitchSignal(c) \/ SwitchUnlock(c)
  \/ WaitLock(c) \/ WaitTest(c) \/ WaitBegin(c) \/ WaitEnd(c) \/ WaitUnlock(c)

CtxNext ==
  \E c \in Ctx : \/ CtxStep(c) \/ SpuriousWakeup(c)
                 \/ \E d \in Ctx : InitCall(c, d) \/ SwitchCall(c, d)

CtxSpec     == CtxInit /\ [][CtxNext]_ctxVars
\* The operating system schedules every thread, and a thread that keeps finding a mutex
\* free gets it, however often another one wakes up for nothing.
CtxFairSpec == CtxSpec /\ \A c \in Ctx : SF_ctxVars(CtxStep(c))

-----------------------------------------------------------------------------
(* Properties.                                                             *)

\* Control is with one thread: at most one is outside context_t, where it may use what
\* the coroutines share.
OneRuns == \A c, d \in Ctx : cpc[c] = "run" /\ cpc[d] = "run" => c = d

\* The token: a thread that runs, is about to hand over, or has been handed control.
Holds(c) == cpc[c] \in {"run", "i_lock", "i_clear", "i_create", "s_clear", "s_set"} \/ flag[c]

\* What makes OneRuns inductive: one holder, and a thread that is about to set the flag
\* of another has cleared its own.
OneHolder ==
  /\ \A c, d \in Ctx : Holds(c) /\ Holds(d) => c = d
  /\ \A c \in Ctx : /\ cpc[c] \in {"none", "i_create", "s_set"} => ~flag[c]
                    /\ cpc[c] = "w_unlock" => flag[c]
                    /\ cpc[c] \in {"s_clear", "s_set"} => dest[c] # c /\ cpc[dest[c]] # "none"
                    /\ cpc[c] \in {"i_lock", "i_clear", "i_create"} => cpc[dest[c]] = "none"

\* A thread that is handed control gets it: no wakeup is lost.
SwitchArrives == \A d \in Ctx : (\E c \in Ctx : cpc[c] = "s_clear" /\ dest[c] = d) ~> cpc[d] = "run"
=============================================================================
