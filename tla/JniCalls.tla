------------------------------ MODULE JniCalls ------------------------------
(***************************************************************************)
(* Threads that use the library through JNI (jniMain: Blake3.kt and the    *)
(* constructors of Blake3Stream.kt): each call runs the loader and then a  *)
(* native method, which the JVM links to the library or, when that is not  *)
(* there, refuses with an UnsatisfiedLinkError.                            *)
(***************************************************************************)
EXTENDS NativeLoader

VARIABLE told       \* the loader's exception has reached a caller

vars == <<machine, loaded, library, failed, pc, outcome, told>>

Init ==
  /\ LoaderInit
  /\ told = FALSE

\* hash, keyedHash or a constructor is called.
Call(t) ==
  /\ Transition(t, "idle", "flag")
  /\ UNCHANGED <<loaderVars, outcome, told>>

Load(t) == LoaderStep(t) /\ UNCHANGED <<outcome, told>>

\* The native method is linked and runs, or the JVM throws.
NativeCall(t) ==
  /\ Transition(t, "returned", "idle")
  /\ outcome' = [outcome EXCEPT ![t] = IF library THEN "done" ELSE "unlinked"]
  /\ UNCHANGED <<loaderVars, told>>

\* The loader's exception ends the call.
Rethrow_Swallowed(t) ==
  /\ Transition(t, "thrown", "idle")
  /\ outcome' = [outcome EXCEPT ![t] = "unlinked"]
  /\ UNCHANGED <<loaderVars, told>>
Rethrow(t) ==
  /\ Transition(t, "thrown", "idle")
  /\ outcome' = [outcome EXCEPT ![t] = "reason"]
  /\ told' = TRUE
  /\ UNCHANGED loaderVars

Step(t) == Load(t) \/ NativeCall(t) \/ Rethrow(t)

Next == \E t \in Threads : Call(t) \/ Step(t)

\* A thread that is in a call runs on: file and linker operations end.
Fairness == \A t \in Threads : WF_vars(Step(t))

Spec == Init /\ [][Next]_vars /\ Fairness
-----------------------------------------------------------------------------
(***************************************************************************)
(* loaded is set before the library is there, so a call may find nothing   *)
(* to link to.  Then another thread is still loading, or the library could *)
(* not be loaded and a caller has been, or is being, told why.             *)
(***************************************************************************)
MissingIsExplained ==
  (\E t \in Threads : pc[t] = "returned" \/ outcome[t] = "unlinked") =>
    \/ library
    \/ \E u \in Threads : pc[u] \in Loading \cup {"thrown"}
    \/ told
=============================================================================
