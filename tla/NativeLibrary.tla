---------------------------- MODULE NativeLibrary ----------------------------
(***************************************************************************)
(* The native library in a process: the loader of its variant under the    *)
(* threads that use it, those of JniCalls for the variants of the JNI      *)
(* library, those of FfmHandles, which have more steps, for the FFM        *)
(* library.                                                                *)
(***************************************************************************)
EXTENDS FfmHandles

CONSTANT FfmThreads     \* the threads that use the FFM library
ASSUME FfmThreadsAssumption == FfmThreads \subseteq Threads

VARIABLE told
Jni == INSTANCE JniCalls

allVars == <<vars, told>>
Ffm == machine.variant = "ffm" /\ UNCHANGED told
NotFfm == machine.variant # "ffm" /\ UNCHANGED ffmVars

EitherInit == Init /\ Jni!Init
EitherNext ==
  \/ Ffm /\ \E t \in FfmThreads : NewStream(t) \/ OneShot(t) \/ Step(t)
  \/ NotFfm /\ Jni!Next

EitherSpec ==
  /\ EitherInit /\ [][EitherNext]_allVars
  /\ \A t \in FfmThreads : SF_allVars(Ffm /\ Step(t))
  /\ \A t \in Threads : WF_allVars(NotFfm /\ Jni!Step(t))
-----------------------------------------------------------------------------
(***************************************************************************)
(* loaded is set before the library is there, so a JNI call may find       *)
(* nothing to link to.  Then another thread is still loading, or the       *)
(* library could not be loaded and a caller has been, or is being, told    *)
(* why (loadNativeLibrary, Blake3Stream's init).                           *)
(***************************************************************************)
MissingIsExplained == machine.variant # "ffm" => Jni!MissingIsExplained

(***************************************************************************)
(* A call that ends has run native code exactly if the library is there by *)
(* then.  So nothing that went wrong too early is held against later       *)
(* calls: no flag set before the load, no symbol looked for and not found, *)
(* no size assumed; and no call fails for a reason that is over            *)
(* (loadNativeLibrary, findSymbol, lookup and hasherSize).                 *)
(***************************************************************************)
NativeCodeOnceLoaded ==
  [][\A t \in Threads : pc[t] # "idle" /\ pc'[t] = "idle" =>
       (outcome'[t] = "done" <=> library)]_allVars
=============================================================================
