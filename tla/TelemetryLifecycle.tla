-------------------------- MODULE TelemetryLifecycle --------------------------
(***************************************************************************)
(* The OpenTelemetry runtimes of a process (adapters/outbound/             *)
(* opentelemetry/runtime.py, provider_lifecycle.py).  They share, by       *)
(* counting references under a process lock, the providers of the managed  *)
(* mode, the processors of the attach mode and the instrumentation of      *)
(* HTTPX.  A start or a shutdown takes the lock several times; errors of a *)
(* shutdown are logged, or raised and the shutdown called again.           *)
(***************************************************************************)
EXTENDS Integers

CONSTANTS
  Runtimes,
  MaxErrors  \* bound on the calls of the SDK that raise

TelemetryAssumption == MaxErrors \in Nat

VARIABLES
  profile,  \* the settings of each runtime
  runtime,  \* the state of each runtime
  managed,  \* _MANAGED_STATE
  attached, \* _ATTACHMENTS: the processor of the settings all attach runtimes share
  httpx,    \* _HTTPX_REFERENCES, and whether HTTPX is instrumented
  errors,   \* calls that raised
  spoiled   \* a start failed half way, or a shutdown raised

telemetryVars == <<profile, runtime, managed, attached, httpx, errors, spoiled>>

Profiles == [mode : {"managed", "attach"}, onError : {"log", "raise"}]
Plain == [mode |-> "managed", onError |-> "log"]

\* `keys' are attachments the runtime holds, `instrumented' _httpx_instrumented.
New == [pc |-> "new", holds |-> FALSE, keys |-> 0, instrumented |-> FALSE]
Unset == [set |-> FALSE, references |-> 0, closed |-> FALSE, down |-> FALSE]
Detached == [references |-> 0, up |-> FALSE]

TelemetryTypeOK ==
  /\ profile \in [Runtimes -> Profiles]
  /\ runtime \in [Runtimes ->
       [pc : {"new", "instrument", "started", "release", "closed"}, holds : BOOLEAN,
        keys : Nat, instrumented : BOOLEAN]]
  /\ managed \in [set : BOOLEAN, references : Int, closed : BOOLEAN, down : BOOLEAN]
  /\ attached \in [references : Int, up : BOOLEAN]
  /\ httpx \in [references : Nat, on : BOOLEAN]
  /\ errors \in 0..MaxErrors /\ spoiled \in BOOLEAN

TelemetryInit ==
  /\ profile \in [Runtimes -> Profiles]
  /\ runtime = [r \in Runtimes |-> New]
  /\ managed = Unset /\ attached = Detached
  /\ httpx = [references |-> 0, on |-> FALSE]
  /\ errors = 0 /\ spoiled = FALSE

-----------------------------------------------------------------------------
Is(r, pc) == runtime[r].pc = pc
Uses(r, mode) == profile[r].mode = mode
Becomes(r, pc) == runtime' = [runtime EXCEPT ![r].pc = pc]

\* A call of the SDK raises; _handle_runtime_error raises it again, or logs it.
Errs == errors < MaxErrors /\ errors' = errors + 1
Reraises(r) == profile[r].onError = "raise"

-----------------------------------------------------------------------------
(* start                                                                    *)

Adopted == IF managed.set THEN [managed EXCEPT !.references = @ + 1]
           ELSE [Unset EXCEPT !.set = TRUE, !.references = 1]

\* _start_managed; closed providers cannot be started again in the process.
StartManaged(r) ==
  /\ Is(r, "new") /\ Uses(r, "managed") /\ ~managed.closed
  /\ managed' = Adopted
  /\ runtime' = [runtime EXCEPT ![r].pc = "instrument", ![r].holds = TRUE]
  /\ UNCHANGED <<profile, attached, httpx, errors, spoiled>>

\* _start_attach, on a provider that another library has installed.
StartAttach(r) ==
  /\ Is(r, "new") /\ Uses(r, "attach") /\ runtime[r].keys < 2
  /\ attached' = [references |-> attached.references + 1, up |-> TRUE]
  /\ runtime' = [runtime EXCEPT ![r].pc = "instrument", ![r].keys = @ + 1]
  /\ UNCHANGED <<profile, managed, httpx, errors, spoiled>>

InstrumentHttpx(r) ==
  /\ Is(r, "instrument")
  /\ httpx' = [references |-> httpx.references + 1, on |-> TRUE]
  /\ runtime' = [runtime EXCEPT ![r].pc = "started", ![r].instrumented = TRUE]
  /\ UNCHANGED <<profile, managed, attached, errors, spoiled>>

\* The instrumentation is missing: start raises, and may be called again; what it
\* took is not given back.
InstrumentFails(r) ==
  /\ Is(r, "instrument") /\ Errs
  /\ Becomes(r, "new") /\ spoiled' = TRUE
  /\ UNCHANGED <<profile, managed, attached, httpx>>

-----------------------------------------------------------------------------
(* shutdown                                                                 *)

ShutdownUnstarted(r) ==
  /\ Is(r, "new")
  /\ Becomes(r, "closed")
  /\ UNCHANGED <<profile, managed, attached, httpx, errors, spoiled>>

\* Defect that TLC must notice: the instrumentation goes with the first runtime.
LastUser_First == TRUE
LastUser == httpx.references <= 1

\* _uninstrument_httpx, unless an earlier call of shutdown did it.
UninstrumentHttpx(r) ==
  /\ Is(r, "started")
  /\ IF runtime[r].instrumented
     THEN \E raises \in BOOLEAN :
       /\ raises => LastUser /\ Errs
       /\ ~raises => UNCHANGED errors
       /\ httpx' = [references |-> IF httpx.references = 0 THEN 0
                                   ELSE httpx.references - 1,
                    on |-> IF LastUser /\ ~raises THEN FALSE ELSE httpx.on]
       /\ IF raises /\ Reraises(r)
          THEN UNCHANGED runtime
          ELSE runtime' = [runtime EXCEPT ![r].pc = "release",
                                          ![r].instrumented = FALSE]
       /\ spoiled' = (spoiled \/ raises)
     ELSE Becomes(r, "release") /\ UNCHANGED <<httpx, errors, spoiled>>
  /\ UNCHANGED <<profile, managed, attached>>

\* _release_managed_state: the last reference shuts the providers down.
ReleaseManaged(r) ==
  /\ Is(r, "release") /\ Uses(r, "managed")
  /\ LET last == managed.references <= 1 IN
     \E raises \in BOOLEAN :
       /\ raises => last /\ Errs
       /\ ~raises => UNCHANGED errors
       /\ LET kept == raises /\ Reraises(r) IN
          /\ managed' = [managed EXCEPT !.references = @ - 1,
                                        !.down = @ \/ last,
                                        !.closed = @ \/ (last /\ ~kept)]
          /\ Becomes(r, IF kept THEN "started" ELSE "closed")
          /\ spoiled' = (spoiled \/ kept)
  /\ UNCHANGED <<profile, attached, httpx>>

\* _release_attachments: all the keys of the runtime under one lock; the processor is
\* shut down with its last reference, and forgotten unless that raises.
ReleaseAttachments(r) ==
  /\ Is(r, "release") /\ Uses(r, "attach")
  /\ LET last == attached.up /\ attached.references <= runtime[r].keys IN
     \E raises \in BOOLEAN :
       /\ raises => last /\ Errs
       /\ ~raises => UNCHANGED errors
       /\ LET kept == raises /\ Reraises(r) IN
          /\ attached' =
               IF last /\ ~kept THEN Detached
               ELSE IF kept
               THEN [attached EXCEPT !.references = IF @ > 0 THEN 0 ELSE @ - 1]
               ELSE IF attached.up
               THEN [attached EXCEPT !.references = @ - runtime[r].keys]
               ELSE attached
          /\ runtime' = IF kept THEN [runtime EXCEPT ![r].pc = "started"]
                        ELSE [runtime EXCEPT ![r].pc = "closed", ![r].keys = 0]
          /\ spoiled' = (spoiled \/ kept)
  /\ UNCHANGED <<profile, managed, httpx>>

RuntimeStep(r) ==
  \/ StartManaged(r) \/ StartAttach(r) \/ InstrumentHttpx(r) \/ InstrumentFails(r)
  \/ ShutdownUnstarted(r) \/ UninstrumentHttpx(r)
  \/ ReleaseManaged(r) \/ ReleaseAttachments(r)

-----------------------------------------------------------------------------
\* No runtime loses what it uses because another one was shut down, and the last one
\* leaves nothing behind, in whatever order they start and stop; unless a start
\* failed half way or a shutdown raised.
SharedWhileUsed ==
  ~spoiled =>
    /\ \A r \in Runtimes : runtime[r].pc \in {"instrument", "started", "release"} =>
         /\ Uses(r, "managed") => ~managed.down
         /\ Uses(r, "attach") /\ runtime[r].keys > 0 => attached.up
         /\ runtime[r].instrumented => httpx.on
    /\ (\A r \in Runtimes : Is(r, "closed")) =>
         ~httpx.on /\ ~attached.up /\ (managed.set => managed.down)
=============================================================================
