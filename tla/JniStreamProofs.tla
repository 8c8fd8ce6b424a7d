-------------------------- MODULE JniStreamProofs --------------------------
(***************************************************************************)
(* Proofs about JniStream, for any set of threads and any arguments.       *)
(***************************************************************************)
EXTENDS JniStream, TLAPS

(***************************************************************************)
(* What the callers' arguments must be for the code to keep its promises:  *)
(* no sum of an offset and a length wraps.                                 *)
(***************************************************************************)
NoWrap == \A offset \in Offsets, length \in Lengths : AsInt(offset + length) = offset + length

Points == {"idle", "check", "pass", "array", "enter", "inside", "close",
           "free", "forget", "hash", "output"}
Calls == [op : Ops \cup {"none", "hash"}, offset : Int, length : Int]

Types ==
  /\ turns \in BOOLEAN /\ lossy \in BOOLEAN
  /\ mode \in Modes /\ len \in Nat
  /\ hasherPtr \in {0, Address}
  /\ readable \in [Threads -> SUBSET {0, Address}]
  /\ heap \in {"none", "live", "freed"}
  /\ pc \in [Threads -> Points]
  /\ call \in [Threads -> Calls]
  /\ own \in [Threads -> {<<>>} \cup Answers]
  /\ answer \in {NoOutput} \cup Answers
  /\ undefined \in BOOLEAN

\* The call that a thread is in, by where it is.
Place(t) ==
  /\ pc[t] = "idle" => call[t].op = "none"
  /\ pc[t] \in {"check", "pass", "enter", "inside"} => call[t].op \in {"update", "finalize", "reset"}
  /\ pc[t] = "array" => call[t].op \in {"update", "finalize"}
  /\ pc[t] \in {"close", "free", "forget"} => call[t].op = "close"
  /\ pc[t] \in {"hash", "output"} => call[t].op = "hash" /\ own[t] \in Answers
  /\ pc[t] = "hash" => own[t][2] = 0
  /\ pc[t] = "output" => own[t][2] = call[t].length \/ (lossy /\ own[t][2] = 0)
  /\ call[t].op \in {"update", "finalize"} => call[t].length > 0
  /\ call[t].op = "reset" => call[t].length = 0
  /\ call[t].op = "hash" => call[t].length \in 0..ArrayLen

\* Who can see no address is not about to leave a live hasher behind.
Gone ==
  hasherPtr = 0 \/ (\E t \in Threads : 0 \in readable[t] \/ pc[t] = "forget") => heap # "live"

(***************************************************************************)
(* With callers that take turns: no two threads are in calls of the stream *)
(* unless both finalize; all see the field as it is; a hasher is there     *)
(* until it was freed, and for as long as a thread needs it.               *)
(***************************************************************************)
Exclusive ==
  \A t, u \in Threads :
    t # u /\ call[t].op \in Ops /\ call[u].op \in Ops =>
      call[t].op = "finalize" /\ call[u].op = "finalize"

Needs(t) == pc[t] \in {"pass", "array", "enter", "inside", "free"}

InTurn ==
  /\ Exclusive
  /\ \A t \in Threads : readable[t] = {hasherPtr}
  /\ hasherPtr # 0 /\ (\A t \in Threads : pc[t] # "forget") => heap = "live"
  /\ \A t \in Threads : Needs(t) => hasherPtr # 0
  /\ NoWrap => ~undefined

IInv ==
  /\ Types
  /\ \A t \in Threads : Place(t)
  /\ Gone
  /\ turns => InTurn
  /\ NoWrap => RangeInArray
-----------------------------------------------------------------------------
\* Nothing happens to the calls of the other threads.
Others(t) ==
  \A u \in Threads \ {t} : pc'[u] = pc[u] /\ call'[u] = call[u] /\ own'[u] = own[u]

LEMMA EndsFacts ==
  ASSUME Types, NEW t \in Threads, NEW from, NEW how, NEW n, NEW ans \in {NoOutput} \cup Answers,
         Ends(t, from, how, n, ans)
  PROVE  /\ pc[t] = from /\ pc'[t] = "idle"
         /\ call'[t] = NoCall /\ own'[t] = <<>>
         /\ answer' = ans /\ reply' = <<how, n>> /\ undefined' = undefined
         /\ pc' \in [Threads -> Points] /\ call' \in [Threads -> Calls]
         /\ own' \in [Threads -> {<<>>} \cup Answers]
         /\ answer' \in {NoOutput} \cup Answers
         /\ Others(t)
<1>1. NoCall \in Calls /\ "idle" \in Points
  BY DEF NoCall, Calls, Points
<1> QED
  BY <1>1 DEF Ends, Goes, Types, Others

LEMMA GoesFacts ==
  ASSUME Types, NEW t \in Threads, NEW from, NEW to \in Points,
         Goes(t, from, to), UNCHANGED <<call, own>>
  PROVE  /\ pc[t] = from /\ pc'[t] = to
         /\ call'[t] = call[t] /\ own'[t] = own[t]
         /\ pc' \in [Threads -> Points] /\ call' \in [Threads -> Calls]
         /\ own' \in [Threads -> {<<>>} \cup Answers]
         /\ Others(t)
BY DEF Goes, Types, Others

\* A step of t that leaves the hasher where it is keeps the invariant when
\* it keeps what the invariant says of t.
LEMMA LocalStep ==
  ASSUME IInv, NEW t \in Threads, Others(t),
         UNCHANGED <<turns, lossy, hasherPtr, readable, heap, mode>>, len' \in Nat,
         pc' \in [Threads -> Points], call' \in [Threads -> Calls],
         own' \in [Threads -> {<<>>} \cup Answers],
         answer' \in {NoOutput} \cup Answers, undefined' \in BOOLEAN,
         Place(t)', pc[t] # "forget", pc'[t] # "forget",
         call'[t].op \in Ops =>
           \/ call'[t].op = call[t].op
           \/ turns => \A u \in Threads \ {t} : call[u].op \in Ops =>
                         call[u].op = "finalize" /\ call'[t].op = "finalize",
         turns /\ Needs(t)' => hasherPtr # 0,
         turns /\ NoWrap => ~undefined',
         NoWrap /\ pc'[t] \in {"check", "pass", "array", "enter", "inside"} => InArray(t)'
  PROVE  IInv'
<1>1. Types'
  BY DEF IInv, Types
<1>2. \A u \in Threads : Place(u)'
  <2>1. ASSUME NEW u \in Threads \ {t}
        PROVE  Place(u)'
    BY DEF IInv, Others, Place
  <2> QED
    BY <2>1
<1>3. Gone'
  BY DEF IInv, Gone, Others
<1>4. ASSUME turns
      PROVE  InTurn'
  <2>1. InTurn
    BY <1>4 DEF IInv
  <2>2. Exclusive'
    BY <1>4, <2>1 DEF InTurn, Exclusive, Others
  <2>3. \A u \in Threads : Needs(u)' => hasherPtr' # 0
    BY <1>4, <2>1 DEF InTurn, Needs, Others
  <2>4. hasherPtr' # 0 /\ (\A u \in Threads : pc'[u] # "forget") => heap' = "live"
    BY <2>1 DEF InTurn, Others
  <2>5. \A u \in Threads : readable'[u] = {hasherPtr'}
    BY <2>1 DEF InTurn
  <2>6. (NoWrap => ~undefined)'
    BY <1>4 DEF NoWrap, AsInt
  <2> QED
    BY <2>2, <2>3, <2>4, <2>5, <2>6 DEF InTurn
<1>5. ASSUME NoWrap
      PROVE  RangeInArray'
  BY <1>5 DEF IInv, RangeInArray, InArray, Others
<1>6. NoWrap' <=> NoWrap
  BY DEF NoWrap, AsInt
<1> QED
  BY <1>1, <1>2, <1>3, <1>4, <1>5, <1>6 DEF IInv
-----------------------------------------------------------------------------
LEMMA InitIInv == Init => IInv
<1> SUFFICES ASSUME Init
             PROVE  IInv
  OBVIOUS
<1>1. /\ hasherPtr = 0 /\ heap = "none" /\ undefined = FALSE
      /\ \A t \in Threads : pc[t] = "idle" /\ call[t] = NoCall /\ readable[t] = {0}
  BY DEF Init, CallsInit
<1>2. Types
  <2>1. NoCall \in Calls
    BY DEF NoCall, Calls
  <2> QED
    BY <2>1, CallsAssumption, CriticalAssumption DEF Init, CallsInit, Types, Points
<1>3. \A t \in Threads : Place(t)
  BY <1>1 DEF Place, NoCall
<1>4. Gone
  BY <1>1 DEF Gone
<1>5. InTurn
  BY <1>1 DEF InTurn, Exclusive, Needs, NoCall, Ops
<1>6. RangeInArray
  BY <1>1 DEF RangeInArray
<1> QED
  BY <1>2, <1>3, <1>4, <1>5, <1>6 DEF IInv

\* A call that ends without having touched the hasher.
LEMMA EndsKeeps ==
  ASSUME IInv, NEW t \in Threads, NEW from, from # "forget", NEW how, NEW n,
         NEW ans \in {NoOutput} \cup Answers, Ends(t, from, how, n, ans),
         UNCHANGED <<turns, lossy, hasherPtr, readable, heap, mode>>, len' \in Nat
  PROVE  IInv'
<1>1. Types
  BY DEF IInv
<1>2. /\ pc[t] = from /\ pc'[t] = "idle"
      /\ call'[t] = NoCall
      /\ undefined' = undefined
      /\ pc' \in [Threads -> Points] /\ call' \in [Threads -> Calls]
      /\ own' \in [Threads -> {<<>>} \cup Answers]
      /\ answer' \in {NoOutput} \cup Answers
      /\ Others(t)
  BY <1>1, EndsFacts
<1>3. Place(t)' /\ call'[t].op \notin Ops /\ ~Needs(t)'
  BY <1>2 DEF Place, NoCall, Ops, Needs
<1>4. undefined' \in BOOLEAN /\ (turns /\ NoWrap => ~undefined')
  BY <1>2 DEF IInv, InTurn, Types
<1> QED
  BY <1>2, <1>3, <1>4, LocalStep

\* A call that goes on from one check or native function to the next.
LEMMA GoesKeeps ==
  ASSUME IInv, NEW t \in Threads, NEW from, from # "forget", NEW to \in Points, to # "forget",
         Goes(t, from, to), Stays, UNCHANGED <<turns, lossy, streamVars>>,
         Place(t)',
         turns /\ Needs(t)' => hasherPtr # 0,
         to \in {"check", "pass", "array", "enter", "inside"} =>
           from \in {"check", "pass", "array", "enter", "inside"}
  PROVE  IInv'
<1>1. Types
  BY DEF IInv
<1>2. /\ pc[t] = from /\ pc'[t] = to
      /\ call'[t] = call[t]
      /\ pc' \in [Threads -> Points] /\ call' \in [Threads -> Calls]
      /\ own' \in [Threads -> {<<>>} \cup Answers]
      /\ Others(t)
  BY <1>1, GoesFacts DEF Stays
<1>3. /\ answer' \in {NoOutput} \cup Answers /\ undefined' \in BOOLEAN
      /\ turns /\ NoWrap => ~undefined'
      /\ len' \in Nat
  BY <1>1 DEF IInv, InTurn, Types, Stays, streamVars
<1>4. NoWrap /\ pc'[t] \in {"check", "pass", "array", "enter", "inside"} => InArray(t)'
  BY <1>2 DEF IInv, RangeInArray, InArray
<1> QED
  BY <1>2, <1>3, <1>4, LocalStep DEF streamVars

\* What callers that take turns do next to each other.
LEMMA Alone ==
  ASSUME turns, NEW t \in Threads, NEW op, Allowed(t, op), IInv
  PROVE  \A u \in Threads \ {t} :
           call[u].op \in Ops => call[u].op = "finalize" /\ op = "finalize"
BY DEF Allowed, Shared, Ops

LEMMA NewKeeps ==
  ASSUME IInv, NEW t \in Threads, NEW m \in Modes, NEW keySize, New(t, m, keySize),
         UNCHANGED <<turns, lossy>>
  PROVE  IInv'
<1>0. Types
  BY DEF IInv
<1>1. ASSUME NEW why, Throws(t, "idle", why), UNCHANGED streamVars
      PROVE  IInv'
  <2>1. len' \in Nat
    BY <1>0, <1>1 DEF Types, streamVars
  <2> QED
    BY <1>1, <2>1, EndsKeeps DEF Throws, streamVars
<1>2. ASSUME Ends(t, "idle", "new", 0, NoOutput),
             hasherPtr' = Address, readable' = [u \in Threads |-> {Address}], heap' = "live",
             mode' = m, len' = 0
      PROVE  IInv'
  <2>1. /\ pc[t] = "idle" /\ pc'[t] = "idle"
        /\ call'[t] = NoCall
        /\ undefined' = undefined
        /\ pc' \in [Threads -> Points] /\ call' \in [Threads -> Calls]
        /\ own' \in [Threads -> {<<>>} \cup Answers]
        /\ answer' \in {NoOutput} \cup Answers
        /\ Others(t)
    BY <1>0, <1>2, EndsFacts
  <2>2. Types'
    BY <1>0, <1>2, <2>1 DEF Types
  <2>3. \A u \in Threads : Place(u)'
    <3>1. Place(t)'
      BY <2>1 DEF Place, NoCall
    <3>2. ASSUME NEW u \in Threads \ {t}
          PROVE  Place(u)'
      BY <2>1 DEF IInv, Others, Place
    <3> QED
      BY <3>1, <3>2
  <2>4. \A u \in Threads : call[u].op \notin Ops
    <3>1. call[t].op = "none"
      BY <2>1 DEF IInv, Place
    <3>2. \A u \in Threads \ {t} : call[u].op \in {"none", "hash"}
      BY DEF New, Allowed, Shared, Ops
    <3> QED
      BY <3>1, <3>2 DEF Ops
  <2>5. \A u \in Threads : call'[u].op \notin Ops
    BY <2>1, <2>4 DEF Others, NoCall, Ops
  <2>6. \A u \in Threads : pc'[u] \in {"idle", "hash", "output"}
    <3>1. \A u \in Threads : pc[u] \in {"idle", "hash", "output"}
      BY <1>0, <2>4 DEF IInv, Place, Types, Points, Ops
    <3> QED
      BY <2>1, <3>1 DEF Others
  <2>7. Gone'
    BY <1>2, <2>6 DEF Gone, Address
  <2>8. turns => InTurn'
    <3>1. turns /\ NoWrap => ~undefined'
      BY <2>1 DEF IInv, InTurn
    <3>2. NoWrap' <=> NoWrap
      BY DEF NoWrap, AsInt
    <3> QED
      BY <1>2, <2>5, <2>6, <3>1, <3>2 DEF InTurn, Exclusive, Needs, Address
  <2>9. RangeInArray'
    BY <2>6 DEF RangeInArray
  <2> QED
    BY <2>2, <2>3, <2>7, <2>8, <2>9 DEF IInv
<1> QED
  BY <1>1, <1>2 DEF New

LEMMA CallKeeps ==
  ASSUME IInv, NEW t \in Threads, NEW op, NEW offset \in Int, NEW length \in Int,
         Call(t, op, offset, length), UNCHANGED <<turns, lossy>>,
         \/ op \in {"update", "finalize"} /\ offset \in Offsets /\ length \in Lengths
         \/ op \in {"reset", "close"} /\ offset = 0 /\ length = 0
  PROVE  IInv'
<1> DEFINE to == IF op = "close" THEN "close" ELSE "check"
           arguments == [op |-> op, offset |-> offset, length |-> length]
<1>0. Types /\ UNCHANGED streamVars /\ len' \in Nat
  BY DEF IInv, Types, Call, streamVars
<1>1. CASE Ends(t, "idle", op, length, NoOutput)
  BY <1>0, <1>1, EndsKeeps DEF streamVars
<1>2. CASE Throws(t, "idle", "bounds")
  BY <1>0, <1>2, EndsKeeps DEF Throws, streamVars
<1>3. ASSUME ~NoBytes(op, length), op \in {"update", "finalize"} => InBounds(offset, length),
             Allowed(t, op), Goes(t, "idle", to), call' = [call EXCEPT ![t] = arguments],
             answer' = NoOutput, UNCHANGED <<own, reply, undefined>>
      PROVE  IInv'
  <2>1. arguments \in Calls /\ to \in Points
    BY DEF Calls, Ops, Points
  <2>2. /\ pc[t] = "idle" /\ pc'[t] = to
        /\ call'[t] = arguments
        /\ pc' \in [Threads -> Points] /\ call' \in [Threads -> Calls]
        /\ own' \in [Threads -> {<<>>} \cup Answers]
        /\ answer' \in {NoOutput} \cup Answers
        /\ Others(t)
    <3> HIDE DEF arguments, to
    <3> QED
      BY <1>0, <1>3, <2>1 DEF Goes, Types, Others
  <2>3. Place(t)' /\ ~Needs(t)'
    BY <1>3, <2>2 DEF Place, Needs, NoBytes
  <2>4. undefined' \in BOOLEAN /\ (turns /\ NoWrap => ~undefined')
    BY <1>0, <1>3 DEF IInv, InTurn, Types
  <2>5. turns => \A u \in Threads \ {t} : call[u].op \in Ops =>
                   call[u].op = "finalize" /\ call'[t].op = "finalize"
    BY <1>3, <2>2, Alone
  <2>6. NoWrap /\ pc'[t] \in {"check", "pass", "array", "enter", "inside"} => InArray(t)'
    BY <1>3, <2>2, CallsAssumption DEF NoWrap, InBounds, InArray
  <2>7. pc[t] # "forget" /\ pc'[t] # "forget"
    BY <2>2
  <2> HIDE DEF arguments, to
  <2> QED
    BY <1>0, <2>2, <2>3, <2>4, <2>5, <2>6, <2>7, LocalStep DEF streamVars
<1> QED
  BY <1>1, <1>2, <1>3 DEF Call, Begins

LEMMA CheckKeeps ==
  ASSUME IInv, NEW t \in Threads, Check(t), UNCHANGED <<turns, lossy>>
  PROVE  IInv'
<1>0. Types /\ UNCHANGED streamVars /\ len' \in Nat
  BY DEF IInv, Types, Check, streamVars
<1>1. CASE Throws(t, "check", "closed")
  BY <1>0, <1>1, EndsKeeps DEF Throws, streamVars
<1>2. ASSUME Opened(t), Goes(t, "check", "pass"), Stays
      PROVE  IInv'
  <2>1. pc[t] = "check" /\ pc'[t] = "pass" /\ call' = call
    BY <1>0, <1>2, GoesFacts DEF Stays, Points
  <2>2. Place(t)'
    BY <2>1 DEF IInv, Place
  <2>3. turns => hasherPtr # 0
    BY <1>2 DEF IInv, InTurn, Opened, Address
  <2> QED
    BY <1>0, <1>2, <2>2, <2>3, GoesKeeps DEF Points
<1> QED
  BY <1>1, <1>2 DEF Check

LEMMA PassKeeps ==
  ASSUME IInv, NEW t \in Threads, Pass(t), UNCHANGED <<turns, lossy>>
  PROVE  IInv'
<1> DEFINE to == IF call[t].op = "reset" THEN "enter" ELSE "array"
<1>0. Types /\ UNCHANGED streamVars /\ len' \in Nat
  BY DEF IInv, Types, Pass, streamVars
<1>1. CASE Ends(t, "pass", call[t].op, call[t].length, NoOutput)
  BY <1>0, <1>1, EndsKeeps DEF streamVars
<1>2. ASSUME Opened(t), Goes(t, "pass", to), Stays
      PROVE  IInv'
  <2>1. pc[t] = "pass" /\ pc'[t] = to /\ call' = call
    BY <1>0, <1>2, GoesFacts DEF Stays, Points
  <2>2. Place(t)'
    BY <2>1 DEF IInv, Place
  <2>3. turns => hasherPtr # 0
    BY <2>1 DEF IInv, InTurn, Needs
  <2> QED
    BY <1>0, <1>2, <2>2, <2>3, GoesKeeps DEF Points
<1> QED
  BY <1>1, <1>2 DEF Pass

LEMMA GetArrayKeeps ==
  ASSUME IInv, NEW t \in Threads, GetArray(t), UNCHANGED <<turns, lossy>>
  PROVE  IInv'
<1>0. Types /\ UNCHANGED streamVars /\ len' \in Nat
  BY DEF IInv, Types, GetArray, streamVars
<1>1. CASE Ends(t, "array", call[t].op, call[t].length, NoOutput)
  BY <1>0, <1>1, EndsKeeps DEF streamVars
<1>2. ASSUME Goes(t, "array", "enter"), Stays
      PROVE  IInv'
  <2>1. pc[t] = "array" /\ pc'[t] = "enter" /\ call' = call
    BY <1>0, <1>2, GoesFacts DEF Stays, Points
  <2>2. Place(t)'
    BY <2>1 DEF IInv, Place
  <2>3. turns => hasherPtr # 0
    BY <2>1 DEF IInv, InTurn, Needs
  <2> QED
    BY <1>0, <1>2, <2>2, <2>3, GoesKeeps DEF Points
<1> QED
  BY <1>1, <1>2 DEF GetArray

\* Where callers take turns native code enters a hasher that is there, and
\* meets nobody who changes it.
LEMMA EnterKeeps ==
  ASSUME IInv, NEW t \in Threads, Enter(t), UNCHANGED <<turns, lossy>>
  PROVE  IInv'
<1>0. Types /\ UNCHANGED streamVars
  BY DEF IInv, Enter
<1>1. /\ pc[t] = "enter" /\ pc'[t] = "inside"
      /\ call' = call
      /\ pc' \in [Threads -> Points] /\ call' \in [Threads -> Calls]
      /\ own' \in [Threads -> {<<>>} \cup Answers]
      /\ answer' \in {NoOutput} \cup Answers
      /\ len' \in Nat
      /\ undefined' \in BOOLEAN
      /\ Others(t)
  BY <1>0, GoesFacts DEF Enter, Types, Points, streamVars
<1>2. Place(t)'
  BY <1>1 DEF IInv, Place
<1>3. NoWrap => InArray(t)
  BY <1>1 DEF IInv, RangeInArray
<1>4. ASSUME turns
      PROVE  hasherPtr # 0 /\ heap = "live" /\ ~Clashes(t)
  <2>1. InTurn
    BY <1>4 DEF IInv
  <2>2. hasherPtr # 0
    BY <1>1, <2>1 DEF InTurn, Needs
  <2>3. call[t].op \in {"update", "finalize", "reset"}
    BY <1>1 DEF IInv, Place
  <2>4. \A u \in Threads \ {t} : pc[u] # "forget"
    BY <2>1, <2>3 DEF InTurn, Exclusive, IInv, Place, Ops
  <2>5. heap = "live"
    BY <1>1, <2>1, <2>2, <2>4 DEF InTurn
  <2>6. ~Clashes(t)
    <3> SUFFICES ASSUME NEW u \in Threads, Inside(u)
                 PROVE  {call[t].op, call[u].op} = {"finalize"}
      BY DEF Clashes
    <3>1. u # t /\ call[u].op \in Ops /\ call[t].op \in Ops
      BY <1>1, <2>3 DEF Inside, IInv, Place, Ops
    <3>2. call[t].op = "finalize" /\ call[u].op = "finalize"
      BY <2>1, <3>1 DEF InTurn, Exclusive
    <3> QED
      BY <3>2
  <2> QED
    BY <2>2, <2>5, <2>6
<1>5. turns /\ NoWrap => ~undefined'
  BY <1>3, <1>4 DEF Enter
<1>6. NoWrap => InArray(t)'
  BY <1>1, <1>3 DEF InArray
<1> QED
  BY <1>0, <1>1, <1>2, <1>4, <1>5, <1>6, LocalStep DEF streamVars

LEMMA LeaveKeeps ==
  ASSUME IInv, NEW t \in Threads, Leave(t), UNCHANGED <<turns, lossy>>
  PROVE  IInv'
<1>0. Types
  BY DEF IInv
<1> DEFINE ans == IF call[t].op = "finalize" THEN <<mode, len>> ELSE NoOutput
<1>1. ans \in {NoOutput} \cup Answers
  BY <1>0 DEF Types, Answers
<1>2. Ends(t, "inside", call[t].op, call[t].length, ans)
  BY DEF Leave
<1>3. len' \in Nat
  BY <1>0, <1>2 DEF Leave, LenAfter, Types, Calls, IInv, Place, Ends, Goes
<1> HIDE DEF ans
<1> QED
  BY <1>1, <1>2, <1>3, EndsKeeps DEF Leave

LEMMA CheckCloseKeeps ==
  ASSUME IInv, NEW t \in Threads, CheckClose(t), UNCHANGED <<turns, lossy>>
  PROVE  IInv'
<1>0. Types /\ UNCHANGED streamVars /\ len' \in Nat
  BY DEF IInv, Types, CheckClose, streamVars
<1>1. CASE Ends(t, "close", "close", 0, NoOutput)
  BY <1>0, <1>1, EndsKeeps DEF streamVars
<1>2. ASSUME Opened(t), Goes(t, "close", "free"), Stays
      PROVE  IInv'
  <2>1. pc[t] = "close" /\ pc'[t] = "free" /\ call' = call
    BY <1>0, <1>2, GoesFacts DEF Stays, Points
  <2>2. Place(t)'
    BY <2>1 DEF IInv, Place
  <2>3. turns => hasherPtr # 0
    BY <1>2 DEF IInv, InTurn, Opened, Address
  <2> QED
    BY <1>0, <1>2, <2>2, <2>3, GoesKeeps DEF Points
<1> QED
  BY <1>1, <1>2 DEF CheckClose

\* A thread that closes in its turn is alone with the stream.
LEMMA ClosesAlone ==
  ASSUME IInv, turns, NEW t \in Threads, pc[t] \in {"free", "forget"}
  PROVE  \A u \in Threads \ {t} :
           call[u].op \notin Ops /\ pc[u] \in {"idle", "hash", "output"}
<1>1. call[t].op = "close"
  BY DEF IInv, Place
<1>2. \A u \in Threads \ {t} : call[u].op \notin Ops
  BY <1>1 DEF IInv, InTurn, Exclusive, Ops
<1> QED
  BY <1>2 DEF IInv, Types, Points, Place, Ops

LEMMA FreeKeeps ==
  ASSUME IInv, NEW t \in Threads, Free(t), UNCHANGED <<turns, lossy>>
  PROVE  IInv'
<1>0. Types
  BY DEF IInv
<1>1. PICK value \in readable[t] :
        /\ Goes(t, "free", "forget")
        /\ heap' = Freed(value)
        /\ undefined' = (value # 0 /\ (heap # "live" \/ \E u \in Threads : Inside(u)))
        /\ UNCHANGED <<hasherPtr, readable, mode, len, call, own, answer, reply>>
  BY DEF Free
<1>2. /\ pc[t] = "free" /\ pc'[t] = "forget"
      /\ pc' \in [Threads -> Points]
      /\ Others(t)
  BY <1>0, <1>1, GoesFacts DEF Points
<1>3. value \in {0, Address} /\ undefined' \in BOOLEAN
  BY <1>0, <1>1 DEF Types
<1>4. heap' # "live" /\ heap' \in {"none", "live", "freed"}
  BY <1>0, <1>1, <1>3 DEF IInv, Gone, Freed, Types
<1>5. Types'
  BY <1>0, <1>1, <1>2, <1>3, <1>4 DEF Types
<1>6. \A u \in Threads : Place(u)'
  <2>1. Place(t)'
    BY <1>1, <1>2 DEF IInv, Place
  <2>2. ASSUME NEW u \in Threads \ {t}
        PROVE  Place(u)'
    BY <1>1, <1>2 DEF IInv, Others, Place
  <2> QED
    BY <2>1, <2>2
<1>7. Gone'
  BY <1>4 DEF Gone
<1>8. ASSUME turns
      PROVE  InTurn'
  <2>1. InTurn /\ (\A u \in Threads \ {t} : pc[u] \in {"idle", "hash", "output"})
    BY <1>2, <1>8, ClosesAlone DEF IInv
  <2>2. heap = "live"
    BY <1>2, <2>1 DEF InTurn, Needs
  <2>3. undefined' = FALSE
    BY <1>1, <1>2, <2>1, <2>2 DEF Inside
  <2>4. Exclusive'
    BY <1>1, <2>1 DEF InTurn, Exclusive
  <2>5. \A u \in Threads : Needs(u)' => Needs(u)
    BY <1>2 DEF Needs, Others
  <2> QED
    BY <1>1, <1>2, <2>1, <2>3, <2>4, <2>5 DEF InTurn
<1>9. NoWrap => RangeInArray'
  BY <1>1, <1>2 DEF IInv, RangeInArray, InArray, Others
<1>10. NoWrap' <=> NoWrap
  BY DEF NoWrap, AsInt
<1> QED
  BY <1>5, <1>6, <1>7, <1>8, <1>9, <1>10 DEF IInv

LEMMA ForgetKeeps ==
  ASSUME IInv, NEW t \in Threads, Forget(t), UNCHANGED <<turns, lossy>>
  PROVE  IInv'
<1>0. Types
  BY DEF IInv
<1>1. /\ pc[t] = "forget" /\ pc'[t] = "idle"
      /\ call'[t] = NoCall
      /\ undefined' = undefined
      /\ pc' \in [Threads -> Points] /\ call' \in [Threads -> Calls]
      /\ own' \in [Threads -> {<<>>} \cup Answers]
      /\ answer' \in {NoOutput} \cup Answers
      /\ Others(t)
  BY <1>0, EndsFacts DEF Forget
<1>2. hasherPtr' = 0 /\ readable' = Written(t, 0, readable) /\ UNCHANGED <<heap, mode, len>>
  BY DEF Forget, Forgotten
<1>3. heap # "live"
  BY <1>1 DEF IInv, Gone
<1>4. readable' \in [Threads -> SUBSET {0, Address}]
  BY <1>0, <1>2 DEF Types, Written
<1>5. Types'
  BY <1>0, <1>1, <1>2, <1>4 DEF Types
<1>6. \A u \in Threads : Place(u)'
  <2>1. Place(t)'
    BY <1>1 DEF Place, NoCall
  <2>2. ASSUME NEW u \in Threads \ {t}
        PROVE  Place(u)'
    BY <1>1 DEF IInv, Others, Place
  <2> QED
    BY <2>1, <2>2
<1>7. Gone'
  BY <1>2, <1>3 DEF Gone
<1>8. ASSUME turns
      PROVE  InTurn'
  <2>1. InTurn
    BY <1>8 DEF IInv
  <2>2. \A u \in Threads : pc'[u] \in {"idle", "hash", "output"} /\ call'[u].op \notin Ops
    BY <1>1, <1>8, ClosesAlone DEF Others, NoCall, Ops
  <2>3. \A u \in Threads : readable'[u] = {hasherPtr'}
    BY <1>2, <1>8 DEF Written
  <2>4. (NoWrap => ~undefined)'
    BY <1>1, <2>1 DEF InTurn, NoWrap, AsInt
  <2> QED
    BY <1>2, <2>2, <2>3, <2>4 DEF InTurn, Exclusive, Needs
<1>9. NoWrap => RangeInArray'
  BY <1>1 DEF IInv, RangeInArray, InArray, Others
<1>10. NoWrap' <=> NoWrap
  BY DEF NoWrap, AsInt
<1> QED
  BY <1>5, <1>6, <1>7, <1>8, <1>9, <1>10 DEF IInv

\* A one-shot hash leaves the stream alone.
LEMMA HashKeeps ==
  ASSUME IInv, NEW t \in Threads, NEW keySize, NEW size \in 0..ArrayLen, NEW outLen,
         Hash(t, size, outLen) \/ KeyedHash(t, keySize, size, outLen), UNCHANGED <<turns, lossy>>
  PROVE  IInv'
<1>0. Types /\ UNCHANGED streamVars /\ len' \in Nat
  BY DEF IInv, Types, Hash, KeyedHash, streamVars
<1>1. CASE Throws(t, "idle", "argument")
  BY <1>0, <1>1, EndsKeeps DEF Throws, streamVars
<1>2. ASSUME NEW m \in {"plain", "keyed"}, StartsHash(t, m, size)
      PROVE  IInv'
  <2> DEFINE arguments == [op |-> "hash", offset |-> 0, length |-> size]
  <2>1. arguments \in Calls /\ <<m, 0>> \in Answers /\ "hash" \in Points
    BY CallsAssumption DEF Calls, Answers, Points
  <2>2. /\ pc[t] = "idle" /\ pc'[t] = "hash"
        /\ call'[t] = arguments /\ own'[t] = <<m, 0>>
        /\ pc' \in [Threads -> Points] /\ call' \in [Threads -> Calls]
        /\ own' \in [Threads -> {<<>>} \cup Answers]
        /\ answer' \in {NoOutput} \cup Answers
        /\ undefined' = undefined
        /\ Others(t)
    <3> HIDE DEF arguments
    <3> QED
      BY <1>0, <1>2, <2>1 DEF StartsHash, Goes, Types, Others, arguments
  <2>3. Place(t)' /\ ~Needs(t)' /\ call'[t].op \notin Ops
    BY <2>1, <2>2 DEF Place, Needs, Ops
  <2>4. undefined' \in BOOLEAN /\ (turns /\ NoWrap => ~undefined')
    BY <1>0, <2>2 DEF IInv, InTurn, Types
  <2>5. pc'[t] \notin {"check", "pass", "array", "enter", "inside", "forget"} /\ pc[t] # "forget"
    BY <2>2
  <2> HIDE DEF arguments
  <2> QED
    BY <1>0, <2>2, <2>3, <2>4, <2>5, LocalStep DEF streamVars
<1> QED
  BY <1>1, <1>2 DEF Hash, KeyedHash

LEMMA HashInputKeeps ==
  ASSUME IInv, NEW t \in Threads, HashInput(t), UNCHANGED <<turns, lossy>>
  PROVE  IInv'
<1>0. Types /\ UNCHANGED streamVars /\ len' \in Nat
  BY DEF IInv, Types, HashInput, streamVars
<1>1. /\ pc[t] = "hash" /\ pc'[t] = "output"
      /\ call' = call
      /\ pc' \in [Threads -> Points] /\ call' \in [Threads -> Calls]
      /\ answer' \in {NoOutput} \cup Answers
      /\ undefined' = undefined
      /\ \A u \in Threads \ {t} : pc'[u] = pc[u]
  BY <1>0 DEF HashInput, Goes, Types, Points
<1>2. own[t] \in Answers /\ call[t].op = "hash" /\ call[t].length \in Nat
  BY <1>1, CallsAssumption DEF IInv, Place
<1>3. <<own[t][1], call[t].length>> \in Answers
  BY <1>2 DEF Answers
<1>4. own'[t] \in Answers /\ own' \in [Threads -> {<<>>} \cup Answers] /\ Others(t)
  BY <1>0, <1>1, <1>2, <1>3 DEF HashInput, Types, Others
<1>5. Place(t)' /\ ~Needs(t)'
  BY <1>0, <1>1, <1>2, <1>4 DEF IInv, Types, Place, Needs, HashInput
<1>6. undefined' \in BOOLEAN /\ (turns /\ NoWrap => ~undefined')
  BY <1>0, <1>1 DEF IInv, InTurn, Types
<1> QED
  BY <1>0, <1>1, <1>4, <1>5, <1>6, LocalStep DEF streamVars

LEMMA HashOutputKeeps ==
  ASSUME IInv, NEW t \in Threads, HashOutput(t), UNCHANGED <<turns, lossy>>
  PROVE  IInv'
<1>0. Types /\ UNCHANGED streamVars /\ len' \in Nat
  BY DEF IInv, Types, HashOutput, streamVars
<1>1. CASE Ends(t, "output", "hash", call[t].length, own[t])
  <2>1. own[t] \in Answers
    BY <1>1 DEF Ends, Goes, IInv, Place
  <2> QED
    BY <1>0, <1>1, <2>1, EndsKeeps DEF streamVars
<1>2. CASE Ends(t, "output", "hash", call[t].length, NoOutput)
  BY <1>0, <1>2, EndsKeeps DEF streamVars
<1> QED
  BY <1>1, <1>2 DEF HashOutput
-----------------------------------------------------------------------------
LEMMA NextIInv ==
  ASSUME IInv, [Next]_vars
  PROVE  IInv'
<1>1. CASE UNCHANGED vars
  <2>1. Types' /\ Gone'
    BY <1>1 DEF vars, IInv, Types, Gone
  <2>2. \A t \in Threads : Place(t)'
    BY <1>1 DEF vars, IInv, Place
  <2>3. turns' => InTurn'
    BY <1>1 DEF vars, IInv, InTurn, Exclusive, Needs, NoWrap, AsInt
  <2>4. (NoWrap => RangeInArray)'
    BY <1>1 DEF vars, IInv, RangeInArray, InArray, NoWrap, AsInt
  <2> QED
    BY <2>1, <2>2, <2>3, <2>4 DEF IInv
<1>2. ASSUME NEW t \in Threads, NEW op \in {"update", "finalize"},
             NEW offset \in Offsets, NEW length \in Lengths,
             Call(t, op, offset, length), UNCHANGED <<turns, lossy>>
      PROVE  IInv'
  BY <1>2, CallKeeps, CallsAssumption
<1>3. ASSUME NEW t \in Threads, NEW op \in {"reset", "close"},
             Call(t, op, 0, 0), UNCHANGED <<turns, lossy>>
      PROVE  IInv'
  BY <1>3, CallKeeps
<1> QED
  BY <1>1, <1>2, <1>3, NewKeeps, CheckKeeps, PassKeeps, GetArrayKeeps, EnterKeeps, LeaveKeeps,
     CheckCloseKeeps, FreeKeeps, ForgetKeeps, HashKeeps, HashInputKeeps, HashOutputKeeps
     DEF Next

LEMMA AlwaysIInv == Spec => []IInv
BY InitIInv, NextIInv, PTL DEF Spec

(***************************************************************************)
(* Whoever calls what at once, a stream that lets go of its address has    *)
(* freed the hasher there (close in Blake3Stream.kt).                      *)
(***************************************************************************)
THEOREM AlwaysFreedWhenClosed == Spec => []FreedWhenClosed
<1>1. IInv => FreedWhenClosed
  BY DEF IInv, Gone, FreedWhenClosed
<1> QED
  BY <1>1, AlwaysIInv, PTL

(***************************************************************************)
(* For any number of threads that take turns, native code is in no hasher  *)
(* that is freed or changing and frees none twice, and it is in no element *)
(* that the array does not have, unless a sum wraps (Blake3Stream.kt and   *)
(* Blake3Kmp.c).                                                           *)
(***************************************************************************)
THEOREM AlwaysAlwaysDefined ==
  ASSUME NoWrap
  PROVE  Spec => []AlwaysDefined
<1>1. IInv => AlwaysDefined
  BY DEF IInv, InTurn, AlwaysDefined, Types, TypeOK, CallsTypeOK, Calls, Points
<1> QED
  BY <1>1, AlwaysIInv, PTL

(***************************************************************************)
(* The bounds check refuses every range outside of the array, whether      *)
(* callers take turns or not, unless a sum wraps (Blake3Stream.kt:27).     *)
(***************************************************************************)
THEOREM RangeAlwaysInArray ==
  ASSUME NoWrap
  PROVE  Spec => []RangeInArray
<1>1. IInv => RangeInArray
  BY DEF IInv
<1> QED
  BY <1>1, AlwaysIInv, PTL
-----------------------------------------------------------------------------
(***************************************************************************)
(* The refinement.  The lengths that Blake3Stream knows are those callers  *)
(* use.                                                                    *)
(***************************************************************************)
KnownLengths == ArrayLen <= MaxLen /\ \A length \in Lengths : length >= -1

LEMMA InitSimulation == Init => Promise!Init
BY CallsAssumption, CriticalAssumption DEF Init, CallsInit, Promise!Init

\* A step that callers see nothing of.
Invisible == UNCHANGED <<hasherPtr, mode, len, answer, reply>>

LEMMA StepSimulation ==
  ASSUME IInv, NoWrap, KnownLengths, turns, NEW t \in Threads,
         \/ \E m \in Modes, keySize \in KeySizes : New(t, m, keySize)
         \/ \E size \in 0..ArrayLen, outLen \in 0..1 :
              \/ Hash(t, size, outLen)
              \/ \E keySize \in KeySizes : KeyedHash(t, keySize, size, outLen)
         \/ \E op \in {"update", "finalize"}, offset \in Offsets, length \in Lengths :
              Call(t, op, offset, length)
         \/ \E op \in {"reset", "close"} : Call(t, op, 0, 0)
         \/ Check(t) \/ Pass(t) \/ GetArray(t) \/ Enter(t) \/ Leave(t)
         \/ CheckClose(t) \/ Free(t) \/ Forget(t)
         \/ HashInput(t) \/ HashOutput(t)
  PROVE  Promise!Promised \/ Invisible
<1>0. Types /\ Place(t) /\ InTurn
  BY DEF IInv
<1>1. ASSUME NEW m \in Modes, NEW keySize \in KeySizes, New(t, m, keySize)
      PROVE  Promise!Promised
  BY <1>1 DEF New, Ends, Throws, streamVars, Address, Promise!Promised, Promise!New, Promise!Throw
<1>2. ASSUME NEW size \in 0..ArrayLen, NEW outLen, NEW keySize,
             Hash(t, size, outLen) \/ KeyedHash(t, keySize, size, outLen)
      PROVE  Promise!Promised
  BY <1>2 DEF Hash, KeyedHash, StartsHash, Ends, Throws, streamVars,
              Promise!Promised, Promise!Begin, Promise!Throw
<1>3. ASSUME NEW op \in {"update", "finalize", "reset", "close"}, NEW offset \in Int,
             NEW length \in Int, length >= -1, Call(t, op, offset, length)
      PROVE  Promise!Promised
  <2>1. CASE NoBytes(op, length)
    <3>1. /\ op \in {"update", "finalize"} /\ length <= 0 /\ length \in (-1)..MaxLen
          /\ UNCHANGED streamVars /\ answer' = NoOutput /\ reply' = <<op, length>>
      BY <1>3, <2>1, CallsAssumption DEF Call, Begins, NoBytes, Ends
    <3>2. Promise!Nothing(length)
      BY <3>1 DEF Promise!Nothing, streamVars
    <3> QED
      BY <3>1, <3>2 DEF Promise!Promised
  <2>2. CASE ~NoBytes(op, length)
    BY <1>3, <2>2 DEF Call, Begins, Ends, Throws, streamVars,
                      Promise!Promised, Promise!Begin, Promise!Throw
  <2> QED
    BY <2>1, <2>2
<1>4. ASSUME Check(t)
      PROVE  Promise!Promised \/ Invisible
  <2>1. CASE Shut(t) /\ Throws(t, "check", "closed") /\ UNCHANGED streamVars
    <3>1. hasherPtr = 0
      BY <1>0, <2>1 DEF Shut, InTurn
    <3> QED
      BY <2>1, <3>1 DEF Throws, Ends, streamVars, Promise!Promised, Promise!Throw
  <2>2. CASE Stays /\ UNCHANGED streamVars
    BY <2>2 DEF Stays, streamVars, Invisible
  <2> QED
    BY <1>4, <2>1, <2>2 DEF Check
<1>5. ASSUME Pass(t)
      PROVE  Invisible
  <2>1. pc[t] = "pass"
    BY <1>5 DEF Pass, Ends, Goes
  <2>2. ~Shut(t)
    BY <1>0, <2>1 DEF InTurn, Needs, Shut
  <2> QED
    BY <1>5, <2>2 DEF Pass, Stays, streamVars, Invisible
<1>6. ASSUME GetArray(t)
      PROVE  Promise!Promised \/ Invisible
  <2>1. CASE Stays /\ UNCHANGED streamVars
    BY <2>1 DEF Stays, streamVars, Invisible
  <2>2. CASE lossy /\ Ends(t, "array", call[t].op, call[t].length, NoOutput) /\ UNCHANGED streamVars
    <3>1. /\ call[t].op \in {"update", "finalize"} /\ call[t].length \in (-1)..MaxLen
          /\ lossy /\ UNCHANGED streamVars
          /\ answer' = NoOutput /\ reply' = <<call[t].op, call[t].length>>
      BY <1>0, <2>2, CallsAssumption
         DEF Ends, Goes, Place, IInv, RangeInArray, InArray, Types, Calls, KnownLengths
    <3>2. Promise!Nothing(call[t].length)
      BY <3>1 DEF Promise!Nothing, streamVars
    <3> QED
      BY <3>1, <3>2 DEF Promise!Promised
  <2> QED
    BY <1>6, <2>1, <2>2 DEF GetArray
<1>7. ASSUME Enter(t)
      PROVE  Invisible
  BY <1>7 DEF Enter, streamVars, Invisible
<1>8. ASSUME Leave(t)
      PROVE  Promise!Promised
  <2>1. /\ hasherPtr # 0 /\ call[t].op \in {"update", "finalize", "reset"}
        /\ reply' = <<call[t].op, call[t].length>>
        /\ call[t].op = "reset" => call[t].length = 0
        /\ UNCHANGED <<hasherPtr, mode>>
    BY <1>0, <1>8 DEF Leave, Ends, Goes, InTurn, Needs, Place
  <2>2. call[t].op \in {"update", "finalize"} => call[t].length \in 1..MaxLen
    BY <1>0, <1>8, CallsAssumption
       DEF Leave, Ends, Goes, Place, IInv, RangeInArray, InArray, Types, Calls, KnownLengths
  <2>3. CASE call[t].op = "update"
    <3>1. Promise!Update(call[t].length)
      BY <1>8, <2>1, <2>3 DEF Leave, Ends, LenAfter, Promise!Update
    <3> QED
      BY <2>2, <2>3, <3>1 DEF Promise!Promised
  <2>4. CASE call[t].op = "finalize"
    <3>1. Promise!Finalize(call[t].length)
      BY <1>8, <2>1, <2>4 DEF Leave, Ends, LenAfter, Promise!Finalize
    <3> QED
      BY <2>2, <2>4, <3>1 DEF Promise!Promised
  <2>5. CASE call[t].op = "reset"
    <3>1. Promise!Reset
      BY <1>8, <2>1, <2>5 DEF Leave, Ends, LenAfter, Promise!Reset
    <3> QED
      BY <3>1 DEF Promise!Promised
  <2> QED
    BY <2>1, <2>3, <2>4, <2>5
<1>9. ASSUME CheckClose(t)
      PROVE  Promise!Promised \/ Invisible
  <2>1. CASE Shut(t) /\ Ends(t, "close", "close", 0, NoOutput) /\ UNCHANGED streamVars
    <3>1. hasherPtr = 0
      BY <1>0, <2>1 DEF Shut, InTurn
    <3> QED
      BY <2>1, <3>1 DEF Ends, streamVars, Promise!Promised, Promise!Close
  <2>2. CASE Stays /\ UNCHANGED streamVars
    BY <2>2 DEF Stays, streamVars, Invisible
  <2> QED
    BY <1>9, <2>1, <2>2 DEF CheckClose
<1>10. ASSUME Free(t)
       PROVE  Invisible
  BY <1>10 DEF Free, Invisible
<1>11. ASSUME Forget(t)
       PROVE  Promise!Promised
  BY <1>11 DEF Forget, Forgotten, Ends, Promise!Promised, Promise!Close
<1>12. ASSUME HashInput(t)
       PROVE  Invisible
  BY <1>12 DEF HashInput, streamVars, Invisible
<1>13. ASSUME HashOutput(t)
       PROVE  Promise!Promised
  <2>1. /\ pc[t] = "output" /\ UNCHANGED streamVars
        /\ \/ answer' = own[t]
           \/ lossy /\ answer' = NoOutput
        /\ reply' = <<"hash", call[t].length>>
    BY <1>13 DEF HashOutput, Ends, Goes
  <2>2. /\ own[t] \in Answers /\ call[t].length \in 0..MaxLen
        /\ own[t][2] = call[t].length \/ (lossy /\ own[t][2] = 0)
    BY <1>0, <2>1, CallsAssumption DEF Place, KnownLengths
  <2>3. PICK m \in Modes, n \in Nat : own[t] = <<m, n>>
    BY <2>2 DEF Answers
  <2>4. Promise!OneShot(m, call[t].length)
    BY <2>1, <2>2, <2>3 DEF streamVars, Promise!OneShot
  <2> QED
    BY <2>2, <2>4 DEF Promise!Promised
<1>14. ASSUME NEW op \in {"update", "finalize"}, NEW offset \in Offsets, NEW length \in Lengths,
              Call(t, op, offset, length)
       PROVE  Promise!Promised
  BY <1>3, <1>14, CallsAssumption DEF KnownLengths
<1>15. ASSUME NEW op \in {"reset", "close"}, Call(t, op, 0, 0)
       PROVE  Promise!Promised
  BY <1>3, <1>15
<1> QED
  BY <1>1, <1>2, <1>4, <1>5, <1>6, <1>7, <1>8, <1>9, <1>10, <1>11, <1>12, <1>13, <1>14, <1>15

LEMMA NextSimulation ==
  ASSUME IInv, NoWrap, KnownLengths, [Next]_vars
  PROVE  [Promise!Next]_(Promise!vars)
<1>1. CASE UNCHANGED vars
  BY <1>1 DEF vars, Promise!vars
<1>2. CASE Next /\ ~turns
  BY <1>2 DEF Next, Promise!Next, Promise!settings
<1>3. CASE Next /\ turns
  <2>1. Promise!Promised \/ Invisible
    BY <1>3, StepSimulation DEF Next
  <2>2. UNCHANGED <<turns, lossy>>
    BY <1>3 DEF Next
  <2>3. CASE Promise!Promised
    BY <2>2, <2>3 DEF Promise!Next, Promise!settings
  <2>4. CASE Invisible
    BY <2>2, <2>4 DEF Invisible, Promise!vars
  <2> QED
    BY <2>1, <2>3, <2>4
<1> QED
  BY <1>1, <1>2, <1>3

(***************************************************************************)
(* To any number of threads that take turns the JNI stream is the atomic   *)
(* stream of Blake3Stream, for all arguments whose sums do not wrap.       *)
(***************************************************************************)
THEOREM AlwaysImplementsStream ==
  ASSUME NoWrap, KnownLengths
  PROVE  Spec => ImplementsStream
<1>1. Init => Promise!Init
  BY InitSimulation
<1>2. IInv /\ [Next]_vars => [Promise!Next]_(Promise!vars)
  BY NextSimulation
<1> QED
  BY <1>1, <1>2, AlwaysIInv, PTL DEF Spec, ImplementsStream, Promise!Spec
=============================================================================
