---------------------------- MODULE NativeLoader ----------------------------
(***************************************************************************)
(* loadNativeLibrary (JvmBlake3.kt, AndroidBlake3.kt and FfmLoader.kt):    *)
(* the loader that any thread may run before its first native call.        *)
(*                                                                         *)
(* Only the loader's own steps are here; JniCalls and FfmHandles compose   *)
(* them with what their threads do around it.  A thread enters at "flag"   *)
(* and leaves at "returned" or, with an exception, at "thrown".            *)
(*                                                                         *)
(* What the machine offers is fixed for a behaviour: the variant of the    *)
(* library, the operating system, the resources of the jar, the library on *)
(* the library path.  Writing the temporary file may fail at any time.     *)
(***************************************************************************)
EXTENDS Integers, FiniteSets

CONSTANTS
  Threads,
  Variants        \* which of the files: "jvm", "android", "ffm"

ASSUME VariantsAssumption == Variants \subseteq {"jvm", "android", "ffm"}

VARIABLES
  machine,        \* what the loader finds
  loaded,         \* the AtomicBoolean
  library,        \* the native library is in the process
  failed,         \* a loader ended with an exception
  pc,
  outcome         \* how each thread's last call ended

loaderVars == <<machine, loaded, library, failed>>

Machines ==
  [variant : Variants,
   os : BOOLEAN,          \* os.name is one that is supported
   resource : BOOLEAN,    \* one of the candidates is in the jar
   image : BOOLEAN,       \* and holds a library for this machine
   path : {"found", "missing", "denied"}]   \* what loadLibrary does

LoaderInit ==
  /\ machine \in Machines
  /\ loaded = FALSE
  /\ library = FALSE
  /\ failed = FALSE
  /\ pc = [t \in Threads |-> "idle"]
  /\ outcome = [t \in Threads |-> "none"]

Transition(t, from, to) ==
  /\ pc[t] = from
  /\ pc' = [pc EXCEPT ![t] = to]

\* The step fails with an exception; loaded stays set.
Throws(t, from) ==
  /\ Transition(t, from, "thrown")
  /\ failed' = TRUE
  /\ UNCHANGED <<machine, loaded, library>>

\* The step brings the library in; its loader returns.
Loads(t, from) ==
  /\ Transition(t, from, "returned")
  /\ library' = TRUE
  /\ UNCHANGED <<machine, loaded, failed>>

\* Android looks on the library path first, the others in the jar.
FirstStep == IF machine.variant = "android" THEN "path" ELSE "os"

\* if (loaded.getAndSet(true)) return
GetAndSet_Unchecked(t) ==
  /\ Transition(t, "flag", FirstStep)
  /\ loaded' = TRUE
  /\ UNCHANGED <<machine, library, failed>>
GetAndSet(t) ==
  /\ Transition(t, "flag", IF loaded THEN "returned" ELSE FirstStep)
  /\ loaded' = TRUE
  /\ UNCHANGED <<machine, library, failed>>

\* System.loadLibrary.  Android goes on when the library is missing, and only
\* then; the others take whatever goes wrong for the end.
LoadLibrary(t) ==
  \/ machine.path = "found" /\ Loads(t, "path")
  \/ /\ machine.path = "missing" /\ machine.variant = "android"
     /\ Transition(t, "path", "os")
     /\ UNCHANGED loaderVars
  \/ /\ machine.path = "denied" \/ (machine.path = "missing" /\ machine.variant # "android")
     /\ Throws(t, "path")

CheckOs(t) ==
  \/ machine.os /\ Transition(t, "os", "resource") /\ UNCHANGED loaderVars
  \/ ~machine.os /\ Throws(t, "os")

\* getResourceAsStream over the candidates.
FindResource(t) ==
  \/ machine.resource /\ Transition(t, "resource", "extract") /\ UNCHANGED loaderVars
  \/ /\ ~machine.resource /\ machine.variant # "android"
     /\ Transition(t, "resource", "path")
     /\ UNCHANGED loaderVars
  \/ ~machine.resource /\ machine.variant = "android" /\ Throws(t, "resource")

\* createTempFile and copy.
Extract(t) ==
  \/ Transition(t, "extract", "load") /\ UNCHANGED loaderVars
  \/ Throws(t, "extract")

SystemLoad(t) ==
  \/ machine.image /\ Loads(t, "load")
  \/ ~machine.image /\ Throws(t, "load")

LoaderStep(t) ==
  \/ GetAndSet(t)
  \/ LoadLibrary(t)
  \/ CheckOs(t)
  \/ FindResource(t)
  \/ Extract(t)
  \/ SystemLoad(t)

\* Where the thread is that passed the flag.
Loading == {"path", "os", "resource", "extract", "load"}

(***************************************************************************)
(* One thread in the life of the process looks for the library, however    *)
(* many come at once, and never again once it has found it or failed to:   *)
(* it is not loaded twice, from two temporary files, nor loaded after a    *)
(* failure was reported.                                                   *)
(***************************************************************************)
OneAttempt ==
  /\ ~(library /\ failed)
  /\ \A t \in Threads : pc[t] \in Loading =>
       /\ ~library /\ ~failed
       /\ \A u \in Threads \ {t} : pc[u] \notin Loading

\* No call of any thread hangs, however the loader fares and whatever locks
\* its callers nest around it.
CallsEnd == \A t \in Threads : pc[t] # "idle" ~> pc[t] = "idle"
=============================================================================
