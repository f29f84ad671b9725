--------------------------- MODULE BlockingKernel ---------------------------
(***************************************************************************)
(* The blocking kernel (nvbench/blocking_kernel.cu, blocking_kernel.cuh)   *)
(* together with the code that drives it, kernel_launch_timer of           *)
(* detail/measure_cold.cuh.                                                *)
(*                                                                         *)
(* Three parties share two words of page-locked memory: the host thread    *)
(* that runs the trials of one measurement, the one-thread device kernel   *)
(* that spins until the host raises the flag or its deadline passes, and   *)
(* the work the benchmark queued behind that kernel on the same in-order   *)
(* stream.                                                                 *)
(*                                                                         *)
(* The device clock is the time elapsed since the spinning kernel took its *)
(* start point.  The CUDA stream is kept as far as the parties can see it: *)
(* work queued behind the kernel runs only when the kernel has finished.   *)
(* The L2 flush, the events and the clock-frequency kernels are ordinary   *)
(* stream entries with no effect on the flags and are not represented.     *)
(***************************************************************************)
EXTENDS Integers

CONSTANTS
  BlockingTimeouts,  \* values of state::get_blocking_kernel_timeout(), in ticks
  Blocking,      \* values of !get_disable_blocking_kernel()
  Launchers,     \* what the user's launcher does: "plain", "syncs", "throws"
  Launches,      \* stream entries a launcher submits per trial
  TrialBound,    \* bound: trials of one measurement
  MaxElapsed     \* bound: ticks a spinning kernel is observed for

ASSUME ConstantsAssumption ==
  /\ BlockingTimeouts \subseteq Int
  /\ Blocking \subseteq BOOLEAN
  /\ Launchers \subseteq {"plain", "syncs", "throws"}
  /\ Launches \in Nat \ {0}
  /\ TrialBound \in Nat \ {0}
  /\ MaxElapsed \in Nat
  /\ \A t \in BlockingTimeouts : t <= MaxElapsed

VARIABLES
  blocking,     \* the measurement uses the blocking kernel
  timeout,      \* the kernel's timeout argument
  host,         \* where the host thread is in start() .. stop()
  launcher,     \* behaviour of the launcher in the current trial
  trialsDone,   \* trials completed
  outcome,      \* result of the latest trial
  called,       \* unblock() has been entered in the current trial
  pendingStore, \* the store of 1 to m_host_flag is still in the store buffer
  flag,         \* m_host_flag
  timeoutFlag,  \* m_host_timeout_flag
  registered,   \* both flags are mapped into the device's address space
  kernel,       \* where the device kernel is
  elapsed,      \* device clock, relative to the kernel's start_point
  sampled,      \* the kernel's local variable `now`
  queued,       \* entries the launcher submitted in the current trial
  ran,          \* entries of these that the device has executed
  early         \* an entry ran in this trial before unblock() was entered

trialVars  == <<launcher, trialsDone, outcome, called>>
flagVars   == <<pendingStore, flag, timeoutFlag, registered>>
kernelVars == <<kernel, elapsed, sampled>>
workVars   == <<queued, ran, early>>
config     == <<blocking, timeout>>
blockingVars == <<config, host, trialVars, flagVars, kernelVars, workVars>>

HostPoints == {"start", "resetFlag", "resetTimeoutFlag", "launch", "submit",
               "launcherSync", "stop", "readTimeout", "finalSync",
               "recorded", "unwinding", "destroyed"}
KernelPoints == {"none", "queued", "check", "sample", "exit", "report", "done"}

KernelTypeOK ==
  /\ blocking \in Blocking /\ timeout \in BlockingTimeouts
  /\ host \in HostPoints
  /\ launcher \in Launchers
  /\ trialsDone \in Nat
  /\ outcome \in {"none", "accepted", "timeout", "error"}
  /\ called \in BOOLEAN /\ pendingStore \in BOOLEAN
  /\ flag \in {0, 1} /\ timeoutFlag \in {0, 1} /\ registered \in BOOLEAN
  /\ kernel \in KernelPoints
  /\ elapsed \in 0 .. MaxElapsed /\ sampled \in 0 .. MaxElapsed
  /\ queued \in 0 .. Launches /\ ran \in 0 .. Launches
  /\ early \in BOOLEAN

\* blocking_kernel::blocking_kernel(): both flags zero and registered.
KernelInit ==
  /\ blocking \in Blocking /\ timeout \in BlockingTimeouts
  /\ host = "start" /\ launcher \in Launchers
  /\ trialsDone = 0 /\ outcome = "none"
  /\ called = FALSE /\ pendingStore = FALSE
  /\ flag = 0 /\ timeoutFlag = 0 /\ registered = TRUE
  /\ kernel = "none" /\ elapsed = 0 /\ sampled = 0
  /\ queued = 0 /\ ran = 0 /\ early = FALSE

-----------------------------------------------------------------------------
(* Host thread.                                                            *)

\* cudaStreamSynchronize can return: nothing is left on the stream.  The call
\* also drains the host's store buffer.
StreamIdle ==
  /\ kernel \in {"none", "done"}
  /\ ran = queued
  /\ ~pendingStore

\* start(): the sync before the trial, then block_stream() unless disabled.
Start ==
  /\ host = "start" /\ StreamIdle
  /\ host' = IF blocking THEN "resetFlag" ELSE "submit"
  /\ launcher' \in Launchers
  /\ outcome' = "none" /\ called' = FALSE
  /\ queued' = 0 /\ ran' = 0 /\ early' = FALSE
  /\ UNCHANGED <<config, trialsDone, flagVars, kernelVars>>

\* Mutant of ResetFlag: the flag keeps the value of the trial before.
ResetFlag_Forgotten ==
  /\ host = "resetFlag"
  /\ host' = "resetTimeoutFlag"
  /\ UNCHANGED <<config, trialVars, flagVars, kernelVars, workVars>>

\* block(), first statement: m_host_flag = 0.
ResetFlag ==
  /\ host = "resetFlag"
  /\ host' = "resetTimeoutFlag"
  /\ flag' = 0
  /\ UNCHANGED <<config, trialVars, pendingStore, timeoutFlag, registered,
                 kernelVars, workVars>>

\* Mutant of ResetTimeoutFlag: a timeout reported late outlives its trial.
ResetTimeoutFlag_Forgotten ==
  /\ host = "resetTimeoutFlag"
  /\ host' = "launch"
  /\ UNCHANGED <<config, trialVars, flagVars, kernelVars, workVars>>

\* block(), second statement: m_host_timeout_flag = 0.
ResetTimeoutFlag ==
  /\ host = "resetTimeoutFlag"
  /\ host' = "launch"
  /\ timeoutFlag' = 0
  /\ UNCHANGED <<config, trialVars, pendingStore, flag, registered,
                 kernelVars, workVars>>

\* block(), third statement: the launch.
LaunchKernel ==
  /\ host = "launch"
  /\ host' = "submit"
  /\ kernel' = "queued"
  /\ UNCHANGED <<config, trialVars, flagVars, elapsed, sampled, workVars>>

\* The launcher submits one more entry behind the kernel.
SubmitWork ==
  /\ host = "submit" /\ queued < Launches
  /\ queued' = queued + 1
  /\ host' = IF launcher = "syncs" THEN "launcherSync" ELSE "submit"
  /\ UNCHANGED <<config, trialVars, flagVars, kernelVars, ran, early>>

\* The launcher waits for the device before it returns or submits more.
LauncherSync ==
  /\ host = "launcherSync" /\ StreamIdle
  /\ host' = "submit"
  /\ UNCHANGED <<config, trialVars, flagVars, kernelVars, workVars>>

\* The launcher throws between start() and stop(): its frame and then the
\* measurement are unwound and stop() is never called.
LauncherThrows ==
  /\ host = "submit" /\ launcher = "throws"
  /\ host' = "unwinding"
  /\ outcome' = "error"
  /\ UNCHANGED <<config, launcher, trialsDone, called, flagVars, kernelVars,
                 workVars>>

\* The launcher returns: stop() is entered.
LauncherReturns ==
  /\ host = "submit" /\ queued = Launches
  /\ host' = IF blocking THEN "stop" ELSE "finalSync"
  /\ UNCHANGED <<config, trialVars, flagVars, kernelVars, workVars>>

\* Mutant of StoreFlag: unblock() reads the timeout flag without the store.
StoreFlag_NoStore ==
  /\ host = "stop"
  /\ host' = "readTimeout"
  /\ called' = TRUE
  /\ UNCHANGED <<config, launcher, trialsDone, outcome, flagVars, kernelVars,
                 workVars>>

\* unblock(), first half: store 1 to the flag.  The store may sit in the
\* store buffer while the load that follows it is performed.
StoreFlag ==
  /\ host = "stop"
  /\ host' = "readTimeout"
  /\ called' = TRUE /\ pendingStore' = TRUE
  /\ UNCHANGED <<config, launcher, trialsDone, outcome, flag, timeoutFlag,
                 registered, kernelVars, workVars>>

\* The store reaches memory.
StoreDrains ==
  /\ pendingStore
  /\ pendingStore' = FALSE /\ flag' = 1
  /\ UNCHANGED <<config, host, trialVars, timeoutFlag, registered,
                 kernelVars, workVars>>

\* Mutant of ReadTimeoutFlag: a reported timeout is not acted on.
ReadTimeoutFlag_Ignored ==
  /\ host = "readTimeout"
  /\ host' = "finalSync"
  /\ UNCHANGED <<config, trialVars, flagVars, kernelVars, workVars>>

\* unblock(), second half: timeout_detected() throws when the kernel has
\* reported a timeout.
ReadTimeoutFlag ==
  /\ host = "readTimeout"
  /\ host' = IF timeoutFlag = 1 THEN "unwinding" ELSE "finalSync"
  /\ outcome' = IF timeoutFlag = 1 THEN "timeout" ELSE outcome
  /\ UNCHANGED <<config, launcher, trialsDone, called, flagVars, kernelVars,
                 workVars>>

\* Mutant of FinalSync: stop() returns without waiting for the stream.
FinalSync_NoWait ==
  /\ host = "finalSync"
  /\ host' = "recorded"
  /\ outcome' = "accepted"
  /\ trialsDone' = trialsDone + 1
  /\ UNCHANGED <<config, launcher, called, flagVars, kernelVars, workVars>>

\* stop(): sync_stream(), after which the trial's times are valid.
FinalSync ==
  /\ host = "finalSync" /\ StreamIdle
  /\ host' = "recorded"
  /\ outcome' = "accepted"
  /\ trialsDone' = trialsDone + 1
  /\ UNCHANGED <<config, launcher, called, flagVars, kernelVars, workVars>>

\* run_trials(): another trial.
NextTrial ==
  /\ host = "recorded" /\ trialsDone < TrialBound
  /\ host' = "start"
  /\ UNCHANGED <<config, trialVars, flagVars, kernelVars, workVars>>

\* ~blocking_kernel(), reached when the measurement ends or is unwound.
Destroy ==
  /\ host \in {"recorded", "unwinding"}
  /\ host' = "destroyed"
  /\ registered' = FALSE
  /\ UNCHANGED <<config, trialVars, pendingStore, flag, timeoutFlag,
                 kernelVars, workVars>>

HostStep ==
  \/ Start \/ ResetFlag \/ ResetTimeoutFlag \/ LaunchKernel
  \/ SubmitWork \/ LauncherSync \/ LauncherThrows \/ LauncherReturns
  \/ StoreFlag \/ ReadTimeoutFlag \/ FinalSync
  \/ NextTrial \/ Destroy

-----------------------------------------------------------------------------
(* Device kernel block_stream.                                             *)

\* start_point and the first value of `now`.
KernelStarts ==
  /\ kernel = "queued"
  /\ kernel' = "check"
  /\ elapsed' = 0 /\ sampled' = 0
  /\ UNCHANGED <<config, host, trialVars, flagVars, workVars>>

\* What the kernel's volatile load of *flag can return.  Once the memory is
\* no longer registered the access is undefined and may return anything.
FlagRead == IF registered THEN {flag} ELSE {0, 1}

\* now >= timeout_point.  timeout_point is in the past for timeout < 0.
PastTimeoutPoint == sampled >= timeout

\* Mutant of MayKeepWaiting: the loop tests the flag alone.
MayKeepWaiting_Forever == TRUE

\* !use_timeout || now < timeout_point.
MayKeepWaiting == timeout < 0 \/ ~PastTimeoutPoint

\* The loop condition: *flag first, then the sampled time.
KernelChecks ==
  /\ kernel = "check"
  /\ \E f \in FlagRead :
       kernel' = IF f = 0 /\ MayKeepWaiting THEN "sample" ELSE "exit"
  /\ UNCHANGED <<config, host, trialVars, flagVars, elapsed, sampled,
                 workVars>>

\* The loop body: now = clock.
KernelSamples ==
  /\ kernel = "sample"
  /\ kernel' = "check"
  /\ sampled' = elapsed
  /\ UNCHANGED <<config, host, trialVars, flagVars, elapsed, workVars>>

\* After the loop: raise the timeout flag if `now` is past timeout_point,
\* which is tested whether or not a timeout is in use.
KernelExits ==
  /\ kernel = "exit"
  /\ kernel' = IF PastTimeoutPoint THEN "report" ELSE "done"
  /\ timeoutFlag' = IF PastTimeoutPoint THEN 1 ELSE timeoutFlag
  /\ UNCHANGED <<config, host, trialVars, pendingStore, flag, registered,
                 elapsed, sampled, workVars>>

\* The message is printed and the kernel ends.
KernelReports ==
  /\ kernel = "report"
  /\ kernel' = "done"
  /\ UNCHANGED <<config, host, trialVars, flagVars, elapsed, sampled,
                 workVars>>

KernelStep == KernelStarts \/ KernelChecks \/ KernelSamples \/ KernelExits
              \/ KernelReports

\* The device clock advances while the kernel is resident.
Tick ==
  /\ kernel \in {"check", "sample", "exit", "report"}
  /\ elapsed < MaxElapsed
  /\ elapsed' = elapsed + 1
  /\ UNCHANGED <<config, host, trialVars, flagVars, kernel, sampled, workVars>>

\* Mutant of WorkRuns: one entry more than was submitted.
WorkRuns_OneMore ==
  /\ kernel \in {"none", "done"}
  /\ ran <= queued
  /\ ran' = ran + 1
  /\ early' = (early \/ (blocking /\ ~called))
  /\ UNCHANGED <<config, host, trialVars, flagVars, kernelVars, queued>>

\* The in-order stream runs the next entry once the kernel has ended.
WorkRuns ==
  /\ kernel \in {"none", "done"}
  /\ ran < queued
  /\ ran' = ran + 1
  /\ early' = (early \/ (blocking /\ ~called))
  /\ UNCHANGED <<config, host, trialVars, flagVars, kernelVars, queued>>

-----------------------------------------------------------------------------

Terminated == host = "destroyed" /\ kernel \in {"none", "done"} /\ ran = queued
              /\ ~pendingStore

KernelNext ==
  \/ HostStep
  \/ StoreDrains
  \/ KernelStep
  \/ Tick
  \/ WorkRuns
  \/ Terminated /\ UNCHANGED blockingVars

KernelSpec == KernelInit /\ [][KernelNext]_blockingVars

\* The host thread runs, the device makes progress on a resident kernel and
\* on queued work, its clock advances, and stores reach memory.
Fairness ==
  /\ WF_blockingVars(HostStep)
  /\ WF_blockingVars(StoreDrains)
  /\ WF_blockingVars(KernelStep)
  /\ WF_blockingVars(Tick)
  /\ WF_blockingVars(WorkRuns)

FairKernelSpec == KernelSpec /\ Fairness

-----------------------------------------------------------------------------
(* Properties.                                                             *)

\* A trial whose times are recorded had no entry executed before the host was
\* in unblock(): the events around the work never time the submission itself.
\* blocking_kernel.cuh: "The work submitted after blocker.block(stream) will
\* not execute until blocker.unblock() is called."
RecordedTrialWasGated ==
  outcome = "accepted" => ~early

\* With a timeout, unblock() throws "Deadlock detected" only if the device
\* really spent that long in the kernel of this very trial: no flag left by an
\* earlier trial can reject a later one.
TimeoutIsGenuine ==
  outcome = "timeout" /\ timeout >= 0 => elapsed >= timeout

\* state.cuh, "A negative value disables the timeout": a measurement with the
\* timeout disabled is never rejected for a timeout.
NegativeDisablesTimeout ==
  timeout < 0 => outcome # "timeout"

\* The flags stay registered for as long as the kernel can still access them,
\* after a normal end and after a detected timeout.  The one measurement that
\* takes them from under a kernel is one whose launcher threw: its frame is
\* unwound between block() and unblock(), so nothing has released the kernel.
FlagsOutliveKernel ==
  ~registered /\ kernel \in {"queued", "check", "sample", "exit"} =>
    outcome = "error" /\ blocking /\ ~called

\* With a timeout the host never waits forever, whatever the launcher does:
\* every synchronization behind the spinning kernel returns, and the
\* measurement ends.
HostFinishes == timeout >= 0 => <>(host = "destroyed")

-----------------------------------------------------------------------------
(* The kernel, its flags and its driver implement the gate.                *)

WorkBegun == IF ran = 0 THEN "no" ELSE IF early THEN "early" ELSE "gated"

Gate == INSTANCE TrialGate WITH gated <- blocking, opened <- called,
                                begun <- WorkBegun, verdict <- outcome

\* Every behaviour of the flags, the device kernel and the host is a behaviour
\* of the gate: work is held, released once, and only gated work is accepted.
ImplementsGate == Gate!Spec

=============================================================================
