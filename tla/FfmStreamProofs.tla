-------------------------- MODULE FfmStreamProofs --------------------------
(***************************************************************************)
(* Proofs about FfmStream, for any set of threads and any arguments: those *)
(* whose sums wrap are refused by MemorySegment.copy.                      *)
(***************************************************************************)
EXTENDS FfmStream, TLAPS

Points == {"idle", "segment", "copy", "enter", "inside", "result", "close",
           "forgetSegment", "forgetArena", "closeArena"}
Calls == [op : Ops \cup {"none"}, offset : Int, length : Int]

Types ==
  /\ turns \in BOOLEAN
  /\ mode \in Modes /\ len \in Nat
  /\ field \in [Fields -> {There, Null}]
  /\ readable \in [Fields -> [Threads -> SUBSET {There, Null}]]
  /\ arena \in {"none", "open", "closed"} /\ denied \in BOOLEAN
  /\ pc \in [Threads -> Points]
  /\ call \in [Threads -> Calls]
  /\ own \in [Threads -> {<<>>} \cup Answers]
  /\ answer \in {NoOutput} \cup Answers
  /\ undefined \in BOOLEAN

\* The call that a thread is in, by where it is.
Place(t) ==
  /\ pc[t] = "idle" => call[t].op = "none"
  /\ pc[t] \in {"segment", "enter", "inside"} => call[t].op \in {"update", "finalize", "reset"}
  /\ pc[t] = "copy" => call[t].op = "update"
  /\ pc[t] = "result" => call[t].op = "finalize" /\ own[t] \in Answers
  /\ pc[t] = "close" \/ Closing(t) => call[t].op = "close"
  /\ call[t].op \in {"update", "finalize"} => call[t].length > 0
  /\ call[t].op \in {"reset", "close"} => call[t].length = 0
  /\ call[t].op = "update" /\ pc[t] \in {"enter", "inside"} => InArray(t)

\* An arena that nobody has or is about to close is closed, or it refused.
Kept ==
  field["arena"] = Null /\ arena = "open" /\ (\A t \in Threads : ~Closing(t)) => denied

(***************************************************************************)
(* With callers that take turns: no two threads are in calls of the stream *)
(* unless both finalize; all see the fields as they are; the fields and    *)
(* the arena agree but for the thread that closes; and an answer on its    *)
(* way to the caller's array is still the one for the hasher.              *)
(***************************************************************************)
Exclusive ==
  \A t, u \in Threads :
    t # u /\ call[t].op \in Ops /\ call[u].op \in Ops =>
      call[t].op = "finalize" /\ call[u].op = "finalize"

Agree ==
  /\ \A t \in Threads : pc[t] = "forgetArena" => field["hasherSegment"] = Null
  /\ (\A t \in Threads : pc[t] # "forgetArena") => field["hasherSegment"] = field["arena"]
  /\ field["arena"] = There => arena = "open"
  /\ arena = "open" /\ (\A t \in Threads : pc[t] # "closeArena") => field["arena"] = There
  /\ \A t \in Threads : pc[t] = "closeArena" => field["arena"] = Null

Answering(t) == pc[t] = "result" => own[t] = <<mode, len>> /\ arena = "open"

InTurn ==
  /\ Exclusive
  /\ \A f \in Fields, t \in Threads : readable[f][t] = {field[f]}
  /\ Agree
  /\ \A t \in Threads : Answering(t)
  /\ ~denied /\ ~undefined

IInv ==
  /\ Types
  /\ \A t \in Threads : Place(t)
  /\ (\E t \in Threads : Inside(t)) => arena = "open"
  /\ Kept
  /\ turns => InTurn
-----------------------------------------------------------------------------
\* Nothing happens to the calls of the other threads.
Others(t) ==
  \A u \in Threads \ {t} : pc'[u] = pc[u] /\ call'[u] = call[u] /\ own'[u] = own[u]

LEMMA EndsFacts ==
  ASSUME Types, NEW t \in Threads, NEW from, NEW how, NEW n, NEW ans \in {NoOutput} \cup Answers,
         Ends(t, from, how, n, ans)
  PROVE  /\ pc[t] = from /\ pc'[t] = "idle"
         /\ call'[t] = NoCall /\ own'[t] = <<>>
         /\ answer' = ans /\ reply' = <<how, n>> /\ undefined' = undefined
         /\ pc' \in [Threads -> Points] /\ call' \in [Threads -> Calls]
         /\ own' \in [Threads -> {<<>>} \cup Answers]
         /\ answer' \in {NoOutput} \cup Answers
         /\ Others(t)
<1>1. NoCall \in Calls /\ "idle" \in Points
  BY DEF NoCall, Calls, Points
<1> QED
  BY <1>1 DEF Ends, Goes, Types, Others

LEMMA GoesFacts ==
  ASSUME Types, NEW t \in Threads, NEW from, NEW to \in Points,
         Goes(t, from, to), UNCHANGED <<call, own>>
  PROVE  /\ pc[t] = from /\ pc'[t] = to
         /\ call'[t] = call[t] /\ own'[t] = own[t]
         /\ pc' \in [Threads -> Points] /\ call' \in [Threads -> Calls]
         /\ own' \in [Threads -> {<<>>} \cup Answers]
         /\ Others(t)
BY DEF Goes, Types, Others

\* Where a thread changes none of the fields nor the arena.
Calling == Points \ {"forgetSegment", "forgetArena", "closeArena"}

\* A step of t that leaves fields and arena as they are keeps the invariant
\* when it keeps what the invariant says of t.
LEMMA LocalStep ==
  ASSUME IInv, NEW t \in Threads, Others(t),
         UNCHANGED <<turns, field, readable, arena, denied, mode>>, len' \in Nat,
         turns /\ len' # len => \A u \in Threads \ {t} : call[u].op \notin Ops,
         pc' \in [Threads -> Points], call' \in [Threads -> Calls],
         own' \in [Threads -> {<<>>} \cup Answers],
         answer' \in {NoOutput} \cup Answers, undefined' \in BOOLEAN,
         Place(t)', pc[t] \in Calling, pc'[t] \in Calling \cup {"forgetSegment"},
         call'[t].op \in Ops =>
           \/ call'[t].op = call[t].op
           \/ turns => \A u \in Threads \ {t} : call[u].op \in Ops =>
                         call[u].op = "finalize" /\ call'[t].op = "finalize",
         pc'[t] = "inside" => arena = "open",
         turns => ~undefined' /\ Answering(t)'
  PROVE  IInv'
<1>1. Types'
  BY DEF IInv, Types
<1>2. \A u \in Threads : Place(u)'
  <2>1. ASSUME NEW u \in Threads \ {t}
        PROVE  Place(u)'
    BY DEF IInv, Others, Place, Closing, InArray
  <2> QED
    BY <2>1
<1>3. ((\E u \in Threads : Inside(u)) => arena = "open")'
  BY DEF IInv, Inside, Others
<1>4. Kept'
  BY DEF IInv, Kept, Closing, Calling, Points, Others
<1>5. ASSUME turns
      PROVE  InTurn'
  <2>1. InTurn
    BY <1>5 DEF IInv
  <2>2. Exclusive'
    <3>1. \A u \in Threads \ {t} : call'[t].op \in Ops /\ call'[u].op \in Ops =>
                                  call'[t].op = "finalize" /\ call'[u].op = "finalize"
      BY <1>5, <2>1 DEF InTurn, Exclusive, Others
    <3>2. \A u, w \in Threads \ {t} : u # w /\ call'[u].op \in Ops /\ call'[w].op \in Ops =>
                                     call'[u].op = "finalize" /\ call'[w].op = "finalize"
      BY <2>1 DEF InTurn, Exclusive, Others
    <3> QED
      BY <3>1, <3>2 DEF Exclusive
  <2>3. Agree'
    BY <2>1 DEF InTurn, Agree, Calling, Points, Others
  <2>4. ASSUME NEW u \in Threads \ {t}
        PROVE  Answering(u)'
    BY <1>5, <2>1 DEF InTurn, Answering, Others, IInv, Place, Ops
  <2> QED
    BY <1>5, <2>1, <2>2, <2>3, <2>4 DEF InTurn
<1> QED
  BY <1>1, <1>2, <1>3, <1>4, <1>5 DEF IInv

LEMMA InitIInv == Init => IInv
<1> SUFFICES ASSUME Init
             PROVE  IInv
  OBVIOUS
<1>1. /\ arena = "none" /\ denied = FALSE /\ undefined = FALSE
      /\ \A f \in Fields : field[f] = Null /\ \A t \in Threads : readable[f][t] = {Null}
      /\ \A t \in Threads : pc[t] = "idle" /\ call[t] = NoCall
  BY DEF Init, CallsInit
<1>2. Types
  <2>1. NoCall \in Calls
    BY DEF NoCall, Calls
  <2> QED
    BY <2>1, CallsAssumption DEF Init, CallsInit, Types, Points
<1>3. \A t \in Threads : Place(t)
  BY <1>1 DEF Place, NoCall, Closing, InArray
<1>4. Kept /\ ~(\E t \in Threads : Inside(t))
  BY <1>1 DEF Kept, Inside
<1>5. InTurn
  <2>1. Exclusive
    BY <1>1 DEF Exclusive, NoCall, Ops
  <2>2. Agree
    BY <1>1 DEF Agree, Fields, Null, There
  <2>3. \A t \in Threads : Answering(t)
    BY <1>1 DEF Answering
  <2> QED
    BY <1>1, <2>1, <2>2, <2>3 DEF InTurn
<1> QED
  BY <1>2, <1>3, <1>4, <1>5 DEF IInv

\* A call that ends without having touched fields or arena.
LEMMA EndsKeeps ==
  ASSUME IInv, NEW t \in Threads, NEW from \in Calling, NEW how, NEW n,
         NEW ans \in {NoOutput} \cup Answers, Ends(t, from, how, n, ans),
         UNCHANGED <<turns, field, readable, arena, denied, mode>>, len' \in Nat,
         turns /\ len' # len => \A u \in Threads \ {t} : call[u].op \notin Ops
  PROVE  IInv'
<1>1. Types
  BY DEF IInv
<1>2. /\ pc[t] = from /\ pc'[t] = "idle"
      /\ call'[t] = NoCall
      /\ undefined' = undefined
      /\ pc' \in [Threads -> Points] /\ call' \in [Threads -> Calls]
      /\ own' \in [Threads -> {<<>>} \cup Answers]
      /\ answer' \in {NoOutput} \cup Answers
      /\ Others(t)
  BY <1>1, EndsFacts
<1>3. Place(t)' /\ call'[t].op \notin Ops
  BY <1>2 DEF Place, NoCall, Ops, Closing, InArray
<1>4. Answering(t)' /\ pc'[t] \in Calling
  BY <1>2 DEF Answering, Calling, Points
<1>5. undefined' \in BOOLEAN /\ (turns => ~undefined')
  BY <1>2 DEF IInv, InTurn, Types
<1> QED
  BY <1>2, <1>3, <1>4, <1>5, LocalStep

\* A call that goes on to another of its steps.
LEMMA GoesKeeps ==
  ASSUME IInv, NEW t \in Threads, NEW from \in Calling, NEW to \in Calling \cup {"forgetSegment"},
         Goes(t, from, to), Stays, UNCHANGED <<turns, streamVars>>,
         Place(t)', to \notin {"inside", "result"}
  PROVE  IInv'
<1>1. Types
  BY DEF IInv
<1>2. /\ pc[t] = from /\ pc'[t] = to
      /\ call'[t] = call[t]
      /\ pc' \in [Threads -> Points] /\ call' \in [Threads -> Calls]
      /\ own' \in [Threads -> {<<>>} \cup Answers]
      /\ Others(t)
  BY <1>1, GoesFacts DEF Stays, Calling, Points
<1>3. /\ answer' \in {NoOutput} \cup Answers /\ undefined' \in BOOLEAN
      /\ turns => ~undefined'
      /\ len' \in Nat
  BY <1>1 DEF IInv, InTurn, Types, Stays, streamVars
<1>4. Answering(t)'
  BY <1>2 DEF Answering
<1> QED
  BY <1>2, <1>3, <1>4, LocalStep DEF streamVars
-----------------------------------------------------------------------------
\* What callers that take turns do next to each other.
LEMMA Alone ==
  ASSUME turns, NEW t \in Threads, NEW op, Allowed(t, op), IInv
  PROVE  \A u \in Threads \ {t} :
           call[u].op \in Ops => call[u].op = "finalize" /\ op = "finalize"
BY DEF Allowed, Shared, Ops

\* A call that throws, or returns, with the hasher as it was.
LEMMA NothingKeeps ==
  ASSUME IInv, NEW t \in Threads, NEW from \in Calling, NEW how, NEW n,
         NEW ans \in {NoOutput} \cup Answers, Ends(t, from, how, n, ans),
         UNCHANGED <<turns, streamVars>>
  PROVE  IInv'
<1>1. len' \in Nat /\ len' = len
  BY DEF IInv, Types, streamVars
<1> QED
  BY <1>1, EndsKeeps DEF streamVars

LEMMA NewKeeps ==
  ASSUME IInv, NEW t \in Threads, NEW m \in Modes, NEW keySize, New(t, m, keySize),
         UNCHANGED turns
  PROVE  IInv'
<1>0. Types
  BY DEF IInv
<1>1. ASSUME NEW why, Throws(t, "idle", why), UNCHANGED streamVars
      PROVE  IInv'
  BY <1>1, NothingKeeps DEF Throws, Calling, Points
<1>2. ASSUME Ends(t, "idle", "new", 0, NoOutput),
             field' = [f \in Fields |-> There],
             readable' = [f \in Fields |-> [u \in Threads |-> {There}]],
             arena' = "open", denied' = FALSE, mode' = m, len' = 0
      PROVE  IInv'
  <2>1. /\ pc[t] = "idle" /\ pc'[t] = "idle"
        /\ call'[t] = NoCall
        /\ undefined' = undefined
        /\ pc' \in [Threads -> Points] /\ call' \in [Threads -> Calls]
        /\ own' \in [Threads -> {<<>>} \cup Answers]
        /\ answer' \in {NoOutput} \cup Answers
        /\ Others(t)
    BY <1>0, <1>2, EndsFacts
  <2>2. Types'
    BY <1>0, <1>2, <2>1 DEF Types
  <2>3. \A u \in Threads : call'[u].op = "none"
    <3>1. \A u \in Threads \ {t} : call[u].op \notin Ops
      BY DEF New, Allowed, Shared, Ops
    <3>2. \A u \in Threads \ {t} : call[u].op = "none"
      BY <1>0, <3>1 DEF Types, Calls
    <3> QED
      BY <2>1, <3>2 DEF Others, NoCall
  <2>4. \A u \in Threads : pc'[u] = "idle"
    <3>1. \A u \in Threads \ {t} : call[u].op = "none"
      BY <2>1, <2>3 DEF Others
    <3>2. \A u \in Threads \ {t} : pc[u] = "idle"
      BY <1>0, <3>1 DEF IInv, Place, Closing, Types, Points
    <3> QED
      BY <2>1, <3>2 DEF Others
  <2>5. \A u \in Threads : Place(u)'
    BY <2>3, <2>4 DEF Place, Closing
  <2>6. Kept' /\ arena' = "open"
    BY <1>2 DEF Kept, Fields, There, Null
  <2>7. turns => InTurn'
    <3>1. turns => ~undefined'
      BY <2>1 DEF IInv, InTurn
    <3>2. Exclusive'
      BY <2>3 DEF Exclusive, Ops
    <3>3. Agree'
      BY <1>2, <2>4 DEF Agree, Fields, There, Null
    <3>4. \A u \in Threads : Answering(u)'
      BY <2>4 DEF Answering
    <3>5. \A f \in Fields, u \in Threads : readable'[f][u] = {field'[f]}
      BY <1>2
    <3> QED
      BY <1>2, <3>1, <3>2, <3>3, <3>4, <3>5 DEF InTurn
  <2> QED
    BY <2>2, <2>5, <2>6, <2>7 DEF IInv
<1> QED
  BY <1>1, <1>2 DEF New

LEMMA CallKeeps ==
  ASSUME IInv, NEW t \in Threads, NEW op \in Ops, NEW offset \in Int, NEW length \in Int,
         Call(t, op, offset, length), UNCHANGED turns,
         op \in {"reset", "close"} => length = 0
  PROVE  IInv'
<1> DEFINE to == IF op = "close" THEN "close" ELSE "segment"
           arguments == [op |-> op, offset |-> offset, length |-> length]
<1>0. Types /\ UNCHANGED streamVars /\ len' \in Nat /\ len' = len
  BY DEF IInv, Types, Call, streamVars
<1>1. CASE Ends(t, "idle", op, length, NoOutput)
  BY <1>0, <1>1, NothingKeeps DEF Calling, Points
<1>2. CASE Throws(t, "idle", "bounds")
  BY <1>0, <1>2, NothingKeeps DEF Throws, Calling, Points
<1>3. ASSUME ~NoBytes(op, length), Allowed(t, op), Goes(t, "idle", to),
             call' = [call EXCEPT ![t] = arguments],
             answer' = NoOutput, UNCHANGED <<own, reply, undefined>>
      PROVE  IInv'
  <2>1. arguments \in Calls /\ to \in Points
    BY DEF Calls, Ops, Points
  <2>2. /\ pc[t] = "idle" /\ pc'[t] = to
        /\ call'[t] = arguments
        /\ pc' \in [Threads -> Points] /\ call' \in [Threads -> Calls]
        /\ own' \in [Threads -> {<<>>} \cup Answers]
        /\ answer' \in {NoOutput} \cup Answers
        /\ Others(t)
    <3> HIDE DEF arguments, to
    <3> QED
      BY <1>0, <1>3, <2>1 DEF Goes, Types, Others
  <2>3. Place(t)'
    BY <1>3, <2>2 DEF Place, Closing, NoBytes, Ops
  <2>4. undefined' \in BOOLEAN /\ (turns => ~undefined' /\ Answering(t)')
    BY <1>0, <1>3, <2>2 DEF IInv, InTurn, Types, Answering
  <2>5. turns => \A u \in Threads \ {t} : call[u].op \in Ops =>
                   call[u].op = "finalize" /\ call'[t].op = "finalize"
    BY <1>3, <2>2, Alone
  <2>6. pc[t] \in Calling /\ pc'[t] \in Calling /\ pc'[t] # "inside"
    BY <2>2 DEF Calling, Points
  <2> HIDE DEF arguments, to
  <2> QED
    BY <1>0, <2>2, <2>3, <2>4, <2>5, <2>6, LocalStep DEF streamVars
<1> QED
  BY <1>1, <1>2, <1>3 DEF Call, Begins

LEMMA ReadSegmentKeeps ==
  ASSUME IInv, NEW t \in Threads, ReadSegment(t), UNCHANGED turns
  PROVE  IInv'
<1> DEFINE to == IF call[t].op = "update" THEN "copy" ELSE "enter"
<1>1. CASE Throws(t, "segment", "closed")
  BY <1>1, NothingKeeps DEF ReadSegment, Throws, Calling, Points
<1>2. ASSUME Goes(t, "segment", to), Stays
      PROVE  IInv'
  <2>1. to \in Calling \ {"inside", "result"}
    BY DEF Calling, Points
  <2>2. pc[t] = "segment" /\ pc'[t] = to /\ call' = call /\ own' = own
    BY <1>2, <2>1, GoesFacts DEF Stays, IInv, Calling
  <2>3. Place(t)'
    BY <2>2 DEF IInv, Place, Closing
  <2> HIDE DEF to
  <2> QED
    BY <1>2, <2>1, <2>3, GoesKeeps DEF ReadSegment, Calling, Points
<1> QED
  BY <1>1, <1>2 DEF ReadSegment

LEMMA CopyInputKeeps ==
  ASSUME IInv, NEW t \in Threads, CopyInput(t), UNCHANGED turns
  PROVE  IInv'
<1>1. ASSUME NEW why, Throws(t, "copy", why)
      PROVE  IInv'
  BY <1>1, NothingKeeps DEF CopyInput, Throws, Calling, Points
<1>2. ASSUME Copies(call[t].offset, call[t].length), Goes(t, "copy", "enter"), Stays
      PROVE  IInv'
  <2>1. pc[t] = "copy" /\ pc'[t] = "enter" /\ call' = call /\ own' = own
    BY <1>2, GoesFacts DEF Stays, IInv, Points
  <2>2. InArray(t)'
    BY <1>2, <2>1, CallsAssumption DEF Copies, InArray, IInv, Types, Calls
  <2>3. Place(t)'
    BY <2>1, <2>2 DEF IInv, Place, Closing
  <2> QED
    BY <1>2, <2>3, GoesKeeps DEF CopyInput, Calling, Points
<1> QED
  BY <1>1, <1>2 DEF CopyInput

\* A downcall enters an open arena and, where callers take turns, meets
\* nobody who changes the hasher.
LEMMA EnterKeeps ==
  ASSUME IInv, NEW t \in Threads, Enter(t), UNCHANGED turns
  PROVE  IInv'
<1>0. Types /\ UNCHANGED streamVars
  BY DEF IInv, Enter
<1>1. ASSUME NEW why, Throws(t, "enter", why)
      PROVE  IInv'
  BY <1>0, <1>1, NothingKeeps DEF Throws, Calling, Points
<1>2. ASSUME arena = "open", Goes(t, "enter", "inside"), undefined' = Clashes(t),
             UNCHANGED <<call, own, answer, reply>>
      PROVE  IInv'
  <2>1. /\ pc[t] = "enter" /\ pc'[t] = "inside"
        /\ call' = call
        /\ pc' \in [Threads -> Points] /\ call' \in [Threads -> Calls]
        /\ own' \in [Threads -> {<<>>} \cup Answers]
        /\ answer' \in {NoOutput} \cup Answers
        /\ Others(t)
    BY <1>0, <1>2, GoesFacts DEF Types, Points
  <2>2. undefined' \in BOOLEAN /\ len' \in Nat /\ len' = len
    BY <1>0, <1>2 DEF Clashes, Types, streamVars
  <2>3. Place(t)'
    BY <2>1 DEF IInv, Place, Closing, InArray
  <2>4. ASSUME turns
        PROVE  ~Clashes(t)
    <3> SUFFICES ASSUME NEW u \in Threads, Inside(u)
                 PROVE  {call[t].op, call[u].op} = {"finalize"}
      BY DEF Clashes
    <3>1. u # t /\ call[u].op \in Ops /\ call[t].op \in Ops
      BY <2>1 DEF Inside, IInv, Place, Ops
    <3>2. call[t].op = "finalize" /\ call[u].op = "finalize"
      BY <2>4, <3>1 DEF IInv, InTurn, Exclusive
    <3> QED
      BY <3>2
  <2>5. pc[t] \in Calling /\ pc'[t] \in Calling /\ Answering(t)'
    BY <2>1 DEF Calling, Points, Answering
  <2> QED
    BY <1>0, <1>2, <2>1, <2>2, <2>3, <2>4, <2>5, LocalStep DEF streamVars
<1> QED
  BY <1>1, <1>2 DEF Enter

LEMMA LeaveKeeps ==
  ASSUME IInv, NEW t \in Threads, Leave(t), UNCHANGED turns
  PROVE  IInv'
<1>0. Types /\ UNCHANGED <<field, readable, arena, denied, mode>>
  BY DEF IInv, Leave
<1>1. pc[t] = "inside"
  BY DEF Leave, Goes, Ends
<1>2. call[t].op \in {"update", "finalize", "reset"} /\ arena = "open"
  BY <1>1 DEF IInv, Place, Inside
<1>3. len' \in Nat
  BY <1>0, <1>2 DEF Leave, LenAfter, Types, Calls, IInv, Place
<1>4. CASE call[t].op = "finalize"
  <2>1. /\ Goes(t, "inside", "result")
        /\ own' = [own EXCEPT ![t] = <<mode, len>>]
        /\ UNCHANGED <<call, answer, reply, undefined>>
        /\ len' = len
    BY <1>4 DEF Leave, LenAfter
  <2>2. <<mode, len>> \in Answers /\ "result" \in Points
    BY <1>0 DEF Types, Answers, Points
  <2>3. /\ pc'[t] = "result" /\ call' = call /\ own'[t] = <<mode, len>>
        /\ pc' \in [Threads -> Points] /\ call' \in [Threads -> Calls]
        /\ own' \in [Threads -> {<<>>} \cup Answers]
        /\ answer' \in {NoOutput} \cup Answers /\ undefined' \in BOOLEAN
        /\ Others(t)
    BY <1>0, <2>1, <2>2 DEF Goes, Types, Others
  <2>4. Place(t)'
    BY <1>4, <2>2, <2>3 DEF IInv, Place, Closing, InArray
  <2>5. Answering(t)' /\ (turns => ~undefined')
    BY <1>0, <1>2, <2>1, <2>3 DEF Answering, IInv, InTurn
  <2>6. pc[t] \in Calling /\ pc'[t] \in Calling
    BY <1>1, <2>3 DEF Calling, Points
  <2> QED
    BY <1>0, <1>3, <2>1, <2>3, <2>4, <2>5, <2>6, LocalStep
<1>5. CASE call[t].op # "finalize"
  <2>1. turns => \A u \in Threads \ {t} : call[u].op \notin Ops
    BY <1>2, <1>5 DEF IInv, InTurn, Exclusive, Ops
  <2>2. Ends(t, "inside", call[t].op, call[t].length, NoOutput)
    BY <1>5 DEF Leave
  <2> QED
    BY <1>0, <1>3, <2>1, <2>2, EndsKeeps DEF Calling, Points
<1> QED
  BY <1>4, <1>5

LEMMA CopyResultKeeps ==
  ASSUME IInv, NEW t \in Threads, CopyResult(t), UNCHANGED turns
  PROVE  IInv'
<1>1. CASE Ends(t, "result", "finalize", call[t].length, own[t])
  <2>1. own[t] \in Answers
    BY <1>1 DEF Ends, Goes, IInv, Place
  <2> QED
    BY <1>1, <2>1, NothingKeeps DEF CopyResult, Calling, Points
<1>2. CASE Throws(t, "result", "bounds")
  BY <1>2, NothingKeeps DEF CopyResult, Throws, Calling, Points
<1> QED
  BY <1>1, <1>2 DEF CopyResult

LEMMA ReadArenaKeeps ==
  ASSUME IInv, NEW t \in Threads, ReadArena(t), UNCHANGED turns
  PROVE  IInv'
<1>1. CASE Ends(t, "close", "close", 0, NoOutput)
  BY <1>1, NothingKeeps DEF ReadArena, Calling, Points
<1>2. ASSUME Goes(t, "close", "forgetSegment"), Stays
      PROVE  IInv'
  <2>1. pc[t] = "close" /\ pc'[t] = "forgetSegment" /\ call' = call /\ own' = own
    BY <1>2, GoesFacts DEF Stays, IInv, Points
  <2>2. Place(t)'
    BY <2>1 DEF IInv, Place, Closing
  <2> QED
    BY <1>2, <2>2, GoesKeeps DEF ReadArena, Calling, Points
<1> QED
  BY <1>1, <1>2 DEF ReadArena
-----------------------------------------------------------------------------
\* A thread that closes in its turn is alone with the stream.
LEMMA ClosesAlone ==
  ASSUME IInv, turns, NEW t \in Threads, call[t].op = "close"
  PROVE  \A u \in Threads \ {t} : call[u].op = "none" /\ pc[u] = "idle"
<1>1. \A u \in Threads \ {t} : call[u].op \notin Ops
  BY DEF IInv, InTurn, Exclusive, Ops
<1>2. \A u \in Threads \ {t} : call[u].op = "none"
  BY <1>1 DEF IInv, Types, Calls
<1> QED
  BY <1>2 DEF IInv, Types, Points, Place, Closing

\* t, which closes, sets a field to null.
LEMMA ForgetKeeps ==
  ASSUME IInv, NEW t \in Threads, UNCHANGED turns,
         \/ ForgetSegment(t)
         \/ ForgetArena(t)
  PROVE  IInv'
<1>0. Types
  BY DEF IInv
<1>1. PICK f \in Fields, from \in {"forgetSegment", "forgetArena"}, to \in {"forgetArena", "closeArena"} :
        /\ Goes(t, from, to) /\ Stays /\ Forgets(t, f)
        /\ \/ f = "hasherSegment" /\ from = "forgetSegment" /\ to = "forgetArena"
           \/ f = "arena" /\ from = "forgetArena" /\ to = "closeArena"
  BY DEF ForgetSegment, ForgetArena, Fields
<1>2. /\ pc[t] = from /\ pc'[t] = to
      /\ call' = call /\ own' = own /\ UNCHANGED <<answer, undefined>>
      /\ pc' \in [Threads -> Points]
      /\ Others(t)
  BY <1>0, <1>1, GoesFacts DEF Stays, Points
<1>3. /\ field' = [field EXCEPT ![f] = Null]
      /\ readable' = [readable EXCEPT ![f] = Written(t, Null, readable[f])]
      /\ UNCHANGED <<arena, denied, mode, len>>
  BY <1>1 DEF Forgets
<1>4. call[t].op = "close" /\ Closing(t)'
  BY <1>1, <1>2 DEF IInv, Place, Closing
<1>5. Types'
  <2>1. Written(t, Null, readable[f]) \in [Threads -> SUBSET {There, Null}]
    BY <1>0 DEF Types, Written
  <2> QED
    BY <1>0, <1>2, <1>3, <2>1 DEF Types
<1>6. \A u \in Threads : Place(u)'
  BY <1>1, <1>2 DEF IInv, Others, Place, Closing, InArray
<1>7. ((\E u \in Threads : Inside(u)) => arena = "open")'
  BY <1>1, <1>2, <1>3 DEF IInv, Inside, Others
<1>8. Kept'
  BY <1>4 DEF Kept
<1>9. ASSUME turns
      PROVE  InTurn'
  <2>1. InTurn /\ \A u \in Threads \ {t} : pc[u] = "idle" /\ pc'[u] = "idle"
    BY <1>2, <1>4, <1>9, ClosesAlone DEF IInv, Others
  <2>2. Exclusive'
    BY <1>2, <2>1 DEF InTurn, Exclusive
  <2>3. \A g \in Fields, u \in Threads : readable'[g][u] = {field'[g]}
    BY <1>0, <1>3, <1>9, <2>1 DEF InTurn, Written, Types
  <2>4. Agree'
    <3>1. CASE f = "hasherSegment"
      BY <1>0, <1>1, <1>2, <1>3, <2>1, <3>1 DEF InTurn, Agree, Types, Fields, There, Null
    <3>2. CASE f = "arena"
      BY <1>0, <1>1, <1>2, <1>3, <2>1, <3>2 DEF InTurn, Agree, Types, Fields, There, Null
    <3> QED
      BY <3>1, <3>2 DEF Fields
  <2>5. \A u \in Threads : Answering(u)'
    BY <1>1, <1>2, <2>1 DEF Answering
  <2> QED
    BY <1>2, <1>3, <2>1, <2>2, <2>3, <2>4, <2>5 DEF InTurn
<1> QED
  BY <1>5, <1>6, <1>7, <1>8, <1>9 DEF IInv

LEMMA CloseArenaKeeps ==
  ASSUME IInv, NEW t \in Threads, CloseArena(t), UNCHANGED turns
  PROVE  IInv'
<1>0. Types
  BY DEF IInv
<1>1. /\ pc[t] = "closeArena" /\ pc'[t] = "idle"
      /\ call'[t] = NoCall
      /\ undefined' = undefined
      /\ pc' \in [Threads -> Points] /\ call' \in [Threads -> Calls]
      /\ own' \in [Threads -> {<<>>} \cup Answers]
      /\ answer' \in {NoOutput} \cup Answers
      /\ Others(t)
  BY <1>0, EndsFacts DEF CloseArena
<1>2. /\ IF MayClose THEN arena' = "closed" /\ denied' = denied ELSE denied' = TRUE /\ arena' = arena
      /\ UNCHANGED <<field, readable, mode, len>>
  BY DEF CloseArena, Closed
<1>3. call[t].op = "close"
  BY <1>1 DEF IInv, Place, Closing
<1>4. Types'
  BY <1>0, <1>1, <1>2 DEF Types
<1>5. \A u \in Threads : Place(u)'
  <2>1. Place(t)'
    BY <1>1 DEF Place, NoCall, Closing, InArray
  <2>2. ASSUME NEW u \in Threads \ {t}
        PROVE  Place(u)'
    BY <1>1 DEF IInv, Others, Place, Closing, InArray
  <2> QED
    BY <2>1, <2>2
<1>6. ((\E u \in Threads : Inside(u)) => arena = "open")'
  BY <1>1, <1>2 DEF IInv, Inside, Others, MayClose
<1>7. Kept'
  BY <1>2 DEF Kept
<1>8. ASSUME turns
      PROVE  InTurn'
  <2>1. InTurn /\ \A u \in Threads \ {t} : call[u].op = "none" /\ pc[u] = "idle"
    BY <1>3, <1>8, ClosesAlone DEF IInv
  <2>2. MayClose
    BY <1>1, <2>1 DEF MayClose, Inside
  <2>3. \A u \in Threads : call'[u].op = "none" /\ pc'[u] = "idle"
    BY <1>1, <2>1 DEF Others, NoCall
  <2>4. Agree'
    BY <1>1, <1>2, <2>1, <2>2, <2>3 DEF InTurn, Agree, There, Null
  <2> QED
    BY <1>1, <1>2, <2>1, <2>2, <2>3, <2>4 DEF InTurn, Exclusive, Answering, Ops
<1> QED
  BY <1>4, <1>5, <1>6, <1>7, <1>8 DEF IInv

LEMMA OneShotKeeps ==
  ASSUME IInv, NEW t \in Threads, NEW m \in Modes, NEW keySize, NEW size \in 0..ArrayLen,
         NEW outLen, OneShot(t, m, keySize, size, outLen), UNCHANGED turns
  PROVE  IInv'
<1>1. CASE Ends(t, "idle", "hash", size, <<m, size>>)
  <2>1. <<m, size>> \in Answers
    BY CallsAssumption DEF Answers
  <2> QED
    BY <1>1, <2>1, NothingKeeps DEF OneShot, Calling, Points
<1>2. CASE Throws(t, "idle", "argument")
  BY <1>2, NothingKeeps DEF OneShot, Throws, Calling, Points
<1> QED
  BY <1>1, <1>2 DEF OneShot
-----------------------------------------------------------------------------
LEMMA NextIInv ==
  ASSUME IInv, [Next]_vars
  PROVE  IInv'
<1>1. CASE UNCHANGED vars
  <2>1. Types' /\ Kept' /\ ((\E t \in Threads : Inside(t)) => arena = "open")'
    BY <1>1 DEF vars, IInv, Types, Kept, Closing, Inside
  <2>2. \A t \in Threads : Place(t)'
    BY <1>1 DEF vars, IInv, Place, Closing, InArray
  <2>3. turns' => InTurn'
    BY <1>1 DEF vars, IInv, InTurn, Exclusive, Agree, Answering
  <2> QED
    BY <2>1, <2>2, <2>3 DEF IInv
<1>2. ASSUME NEW t \in Threads, NEW op \in {"update", "finalize"},
             NEW offset \in Offsets, NEW length \in Lengths,
             Call(t, op, offset, length), UNCHANGED turns
      PROVE  IInv'
  BY <1>2, CallKeeps, CallsAssumption DEF Ops
<1>3. ASSUME NEW t \in Threads, NEW op \in {"reset", "close"},
             Call(t, op, 0, 0), UNCHANGED turns
      PROVE  IInv'
  BY <1>3, CallKeeps DEF Ops
<1> QED
  BY <1>1, <1>2, <1>3, NewKeeps, OneShotKeeps, ReadSegmentKeeps, CopyInputKeeps, EnterKeeps,
     LeaveKeeps, CopyResultKeeps, ReadArenaKeeps, ForgetKeeps, CloseArenaKeeps
     DEF Next

LEMMA AlwaysIInv == Spec => []IInv
BY InitIInv, NextIInv, PTL DEF Spec

(***************************************************************************)
(* However many threads there are and whatever they do at once, the arena  *)
(* is open while native code is in the hasher, which, where callers take   *)
(* turns, nobody else changes (the downcalls and close in Blake3Stream.kt).*)
(***************************************************************************)
THEOREM AlwaysOpenWhileInside == Spec => []OpenWhileInside
<1>1. IInv => TypeOK
  BY DEF IInv, Types, TypeOK, CallsTypeOK, Calls, Points
<1>2. IInv => OpenWhileInside
  BY <1>1 DEF IInv, InTurn, OpenWhileInside
<1> QED
  BY <1>2, AlwaysIInv, PTL

(***************************************************************************)
(* Memory is lost only to a close that was denied, and never by callers    *)
(* that take turns (close in Blake3Stream.kt).                             *)
(***************************************************************************)
THEOREM AlwaysReleased == Spec => []Released
<1>1. IInv => Released
  BY DEF IInv, Kept, InTurn, Released
<1> QED
  BY <1>1, AlwaysIInv, PTL

\* MemorySegment.copy refuses the ranges that the array does not have.
LEMMA CopiesInArray ==
  ASSUME Types, NEW t \in Threads
  PROVE  Copies(call[t].offset, call[t].length) <=> InArray(t)
<1>1. call[t].offset \in Int /\ call[t].length \in Int /\ ArrayLen \in Int
  BY CallsAssumption DEF Types, Calls
<1> QED
  BY <1>1 DEF Copies, InArray

\* What a step may do with the caller's array.
Ranged(t) ==
  /\ call[t].op = "update" /\ pc'[t] = "inside" => InArray(t)
  /\ call[t].op \in {"update", "finalize"} /\ Answered(t, call[t].op) => InArray(t)
  /\ Answered(t, "bounds") => ~InArray(t)

\* A call answers behind its copy, or behind native code that was given one,
\* and is refused for its range where it copies.
LEMMA StepRanged ==
  ASSUME IInv, Next, NEW t \in Threads
  PROVE  Ranged(t)
<1>0. /\ Types /\ Place(t)
      /\ \A u \in Threads : Place(u) /\ (Copies(call[u].offset, call[u].length) <=> InArray(u))
  BY CopiesInArray DEF IInv
<1>1. ASSUME NEW u \in Threads, NEW from, NEW to, Goes(u, from, to),
             to \notin {"idle", "inside"}
      PROVE  Ranged(t)
  BY <1>0, <1>1 DEF Ranged, Answered, Goes, Types, Place
<1>2. ASSUME NEW u \in Threads, NEW from, NEW how, NEW n, NEW ans, Ends(u, from, how, n, ans),
             from # "idle" /\ how \in {"update", "finalize"} => InArray(u),
             from # "idle" /\ how = "bounds" => ~InArray(u)
      PROVE  Ranged(t)
  <2>1. pc[u] = from /\ pc' = [pc EXCEPT ![u] = "idle"] /\ reply'[1] = how
    BY <1>2 DEF Ends, Goes
  <2>2. CASE t = u
    BY <1>2, <2>1, <2>2 DEF Ranged, Answered, IInv, Types
  <2>3. CASE t # u
    BY <1>0, <2>1, <2>3 DEF Ranged, Answered, Types, Place
  <2> QED
    BY <2>2, <2>3
<1>3. ASSUME NEW u \in Threads, NEW from, NEW why, Throws(u, from, why), why # "bounds",
             why \notin {"update", "finalize"}
      PROVE  Ranged(t)
  BY <1>2, <1>3 DEF Throws
<1>4. ASSUME NEW u \in Threads, NEW m \in Modes, NEW keySize, New(u, m, keySize)
      PROVE  Ranged(t)
  BY <1>2, <1>3, <1>4 DEF New
<1>5. ASSUME NEW u \in Threads, NEW m \in Modes, NEW keySize, NEW size, NEW outLen,
             OneShot(u, m, keySize, size, outLen)
      PROVE  Ranged(t)
  BY <1>2, <1>3, <1>5 DEF OneShot
<1>6. ASSUME NEW u \in Threads, NEW op, NEW offset, NEW length, Call(u, op, offset, length)
      PROVE  Ranged(t)
  <2>1. CASE Ends(u, "idle", op, length, NoOutput)
    BY <1>2, <2>1
  <2>2. CASE Throws(u, "idle", "bounds")
    BY <1>2, <2>2 DEF Throws
  <2>3. CASE Goes(u, "idle", IF op = "close" THEN "close" ELSE "segment")
    BY <1>1, <2>3
  <2> QED
    BY <1>6, <2>1, <2>2, <2>3 DEF Call, Begins
<1>7. ASSUME NEW u \in Threads, ReadSegment(u)
      PROVE  Ranged(t)
  BY <1>1, <1>3, <1>7 DEF ReadSegment
<1>8. ASSUME NEW u \in Threads, CopyInput(u)
      PROVE  Ranged(t)
  <2>1. CASE Throws(u, "copy", "bounds") /\ ~Copies(call[u].offset, call[u].length)
    BY <1>0, <1>2, <2>1 DEF Throws
  <2>2. CASE Goes(u, "copy", "enter") \/ Throws(u, "copy", "memory")
    BY <1>1, <1>3, <2>2
  <2> QED
    BY <1>8, <2>1, <2>2 DEF CopyInput
<1>9. ASSUME NEW u \in Threads, Enter(u)
      PROVE  Ranged(t)
  <2>1. CASE Goes(u, "enter", "inside")
    BY <1>0, <2>1 DEF Ranged, Answered, Goes, Types, Place
  <2>2. CASE Throws(u, "enter", "memory") \/ Throws(u, "enter", "closed")
    BY <1>3, <2>2
  <2> QED
    BY <1>9, <2>1, <2>2 DEF Enter
<1>10. ASSUME NEW u \in Threads, Leave(u)
       PROVE  Ranged(t)
  <2>1. CASE call[u].op = "finalize"
    BY <1>1, <1>10, <2>1 DEF Leave
  <2>2. CASE call[u].op # "finalize"
    <3>1. Ends(u, "inside", call[u].op, call[u].length, NoOutput)
      BY <1>10, <2>2 DEF Leave
    <3>2. call[u].op \in {"update", "reset"} /\ (call[u].op = "update" => InArray(u))
      BY <1>0, <2>2, <3>1 DEF Ends, Goes, Place
    <3> QED
      BY <1>2, <3>1, <3>2
  <2> QED
    BY <2>1, <2>2
<1>11. ASSUME NEW u \in Threads, CopyResult(u)
       PROVE  Ranged(t)
  BY <1>0, <1>2, <1>11 DEF CopyResult, Throws
<1>12. ASSUME NEW u \in Threads, ReadArena(u) \/ ForgetSegment(u) \/ ForgetArena(u) \/ CloseArena(u)
       PROVE  Ranged(t)
  BY <1>1, <1>2, <1>12 DEF ReadArena, ForgetSegment, ForgetArena, CloseArena
<1> QED
  BY <1>4, <1>5, <1>6, <1>7, <1>8, <1>9, <1>10, <1>11, <1>12 DEF Next

(***************************************************************************)
(* Whatever offsets and lengths callers use, sums that wrap included, no   *)
(* update of a range that the array does not have is hashed, no finalize   *)
(* of one answers, and no other call is refused once it has begun          *)
(* (Blake3Stream.kt:39, 45 and 64).                                        *)
(***************************************************************************)
THEOREM RangeAlwaysInArray == Spec => RangeInArray
<1> DEFINE Steps == \A t \in Threads : Ranged(t)
<1>1. IInv /\ [Next]_vars => [Steps]_vars
  BY StepRanged
<1>2. [Steps]_vars => [\A t \in Threads :
         /\ call[t].op = "update" /\ pc'[t] = "inside" => InArray(t)
         /\ call[t].op \in {"update", "finalize"} /\ Answered(t, call[t].op) => InArray(t)
         /\ Answered(t, "bounds") => ~InArray(t)]_vars
  BY DEF Ranged
<1> QED
  BY <1>1, <1>2, AlwaysIInv, PTL DEF Spec, RangeInArray
-----------------------------------------------------------------------------
(***************************************************************************)
(* The refinement.  The lengths that Blake3Stream knows are those callers  *)
(* use.                                                                    *)
(***************************************************************************)
KnownLengths == ArrayLen <= MaxLen /\ \A length \in Lengths : length >= -1

LEMMA InitSimulation == Init => Promise!Init
BY CallsAssumption DEF Init, CallsInit, Promise!Init

\* A step that callers see nothing of.
Invisible == UNCHANGED <<arena, mode, len, answer, reply>>

\* The arena is closed for who reads a null field in its turn.
LEMMA NullIsClosed ==
  ASSUME IInv, turns, NEW t \in Threads, NEW f \in Fields, Null \in readable[f][t],
         pc[t] \in {"segment", "close"}
  PROVE  arena # "open"
<1>1. InTurn /\ call[t].op \in {"update", "finalize", "reset", "close"}
  BY DEF IInv, Place
<1>2. \A u \in Threads : pc[u] \notin {"forgetArena", "closeArena"}
  BY <1>1 DEF InTurn, Exclusive, IInv, Place, Closing, Ops
<1>3. field[f] = Null
  BY <1>1 DEF InTurn
<1> QED
  BY <1>1, <1>2, <1>3 DEF InTurn, Agree, Fields, There, Null

LEMMA StepSimulation ==
  ASSUME IInv, KnownLengths, turns, NEW t \in Threads,
         \/ \E m \in Modes, keySize \in KeySizes :
              \/ New(t, m, keySize)
              \/ \E size \in 0..ArrayLen, outLen \in 0..1 : OneShot(t, m, keySize, size, outLen)
         \/ \E op \in {"update", "finalize"}, offset \in Offsets, length \in Lengths :
              Call(t, op, offset, length)
         \/ \E op \in {"reset", "close"} : Call(t, op, 0, 0)
         \/ ReadSegment(t) \/ CopyInput(t) \/ Enter(t) \/ Leave(t) \/ CopyResult(t)
         \/ ReadArena(t) \/ ForgetSegment(t) \/ ForgetArena(t) \/ CloseArena(t)
  PROVE  Promise!Promised \/ Invisible
<1>0. Types /\ Place(t) /\ InTurn
  BY DEF IInv
<1>1. ASSUME NEW m \in Modes, NEW keySize \in KeySizes, New(t, m, keySize)
      PROVE  Promise!Promised
  <2>1. arena # "open"
    <3>1. \A u \in Threads \ {t} : call[u].op \notin Ops
      BY <1>1 DEF New, Allowed, Shared, Ops
    <3>2. \A u \in Threads : pc[u] \notin {"forgetArena", "closeArena"}
      BY <1>0, <1>1, <3>1 DEF New, Idle, IInv, Place, Closing, Ops
    <3> QED
      BY <1>0, <1>1, <3>2 DEF New, InTurn, Agree, There, Null
  <2> QED
    BY <1>1, <2>1 DEF New, Ends, Throws, streamVars, Promise!Promised, Promise!New, Promise!Throw
<1>2. ASSUME NEW m \in Modes, NEW keySize, NEW size \in 0..ArrayLen, NEW outLen,
             OneShot(t, m, keySize, size, outLen)
      PROVE  Promise!Promised
  <2>1. CASE Ends(t, "idle", "hash", size, <<m, size>>) /\ UNCHANGED streamVars
    <3>1. size \in 0..MaxLen /\ Promise!OneShot(m, size)
      BY <2>1, CallsAssumption DEF KnownLengths, Ends, streamVars, Promise!OneShot
    <3> QED
      BY <3>1 DEF Promise!Promised
  <2>2. CASE Throws(t, "idle", "argument") /\ UNCHANGED streamVars
    BY <2>2 DEF Throws, Ends, streamVars, Promise!Promised, Promise!Throw
  <2> QED
    BY <1>2, <2>1, <2>2 DEF OneShot
<1>3. ASSUME NEW op \in {"update", "finalize", "reset", "close"}, NEW offset \in Int,
             NEW length \in Int, length >= -1, Call(t, op, offset, length)
      PROVE  Promise!Promised
  <2>1. CASE NoBytes(op, length)
    <3>1. /\ op \in {"update", "finalize"} /\ length <= 0 /\ length \in (-1)..MaxLen
          /\ UNCHANGED streamVars /\ answer' = NoOutput /\ reply' = <<op, length>>
      BY <1>3, <2>1, CallsAssumption DEF Call, Begins, NoBytes, Ends
    <3>2. Promise!Nothing(length)
      BY <3>1 DEF Promise!Nothing, streamVars
    <3> QED
      BY <3>1, <3>2 DEF Promise!Promised
  <2>2. CASE ~NoBytes(op, length)
    BY <1>3, <2>2 DEF Call, Begins, Ends, Throws, streamVars,
                      Promise!Promised, Promise!Begin, Promise!Throw
  <2> QED
    BY <2>1, <2>2
<1>4. ASSUME ReadSegment(t)
      PROVE  Promise!Promised \/ Invisible
  <2>1. CASE /\ Null \in readable["hasherSegment"][t] /\ Throws(t, "segment", "closed")
             /\ UNCHANGED streamVars
    <3>1. pc[t] = "segment"
      BY <2>1 DEF Throws, Ends, Goes
    <3>2. arena # "open"
      BY <2>1, <3>1, NullIsClosed DEF Fields
    <3> QED
      BY <2>1, <3>2 DEF Throws, Ends, streamVars, Promise!Promised, Promise!Throw
  <2>2. CASE Stays /\ UNCHANGED streamVars
    BY <2>2 DEF Stays, streamVars, Invisible
  <2> QED
    BY <1>4, <2>1, <2>2 DEF ReadSegment
<1>5. ASSUME CopyInput(t)
      PROVE  Promise!Promised \/ Invisible
  BY <1>5 DEF CopyInput, Stays, Throws, Ends, streamVars, Invisible, Promise!Promised, Promise!Throw
<1>6. ASSUME Enter(t)
      PROVE  Promise!Promised \/ Invisible
  BY <1>6 DEF Enter, Throws, Ends, streamVars, Invisible, Promise!Promised, Promise!Throw
<1>7. ASSUME Leave(t)
      PROVE  Promise!Promised \/ Invisible
  <2>1. pc[t] = "inside"
    BY <1>7 DEF Leave, Goes, Ends
  <2>2. /\ call[t].op \in {"update", "finalize", "reset"} /\ arena = "open"
        /\ call[t].op = "reset" => call[t].length = 0
        /\ UNCHANGED <<arena, mode>>
    BY <1>0, <1>7, <2>1 DEF Leave, Place, IInv, Inside
  <2>3. CASE call[t].op = "finalize"
    BY <1>7, <2>3 DEF Leave, LenAfter, Invisible
  <2>4. CASE call[t].op = "update"
    <3>1. call[t].length \in 1..MaxLen
      BY <1>0, <2>1, <2>4, CallsAssumption DEF Place, InArray, Types, Calls, KnownLengths
    <3>2. Promise!Update(call[t].length)
      BY <1>7, <2>2, <2>4 DEF Leave, Ends, LenAfter, Promise!Update
    <3> QED
      BY <3>1, <3>2 DEF Promise!Promised
  <2>5. CASE call[t].op = "reset"
    <3>1. Promise!Reset
      BY <1>7, <2>2, <2>5 DEF Leave, Ends, LenAfter, Promise!Reset
    <3> QED
      BY <3>1 DEF Promise!Promised
  <2> QED
    BY <2>2, <2>3, <2>4, <2>5
<1>8. ASSUME CopyResult(t)
      PROVE  Promise!Promised
  <2>1. pc[t] = "result"
    BY <1>8 DEF CopyResult, Throws, Ends, Goes
  <2>2. /\ own[t] = <<mode, len>> /\ arena = "open"
        /\ call[t].length > 0
    BY <1>0, <2>1 DEF InTurn, Answering, Place
  <2>3. CASE /\ Copies(call[t].offset, call[t].length)
             /\ Ends(t, "result", "finalize", call[t].length, own[t])
             /\ UNCHANGED streamVars
    <3>1. call[t].length \in 1..MaxLen
      BY <1>0, <2>2, <2>3, CallsAssumption DEF Copies, Types, Calls, KnownLengths
    <3>2. Promise!Finalize(call[t].length)
      BY <2>2, <2>3 DEF Ends, streamVars, Promise!Finalize
    <3> QED
      BY <3>1, <3>2 DEF Promise!Promised
  <2>4. CASE Throws(t, "result", "bounds") /\ UNCHANGED streamVars
    BY <2>4 DEF Throws, Ends, streamVars, Promise!Promised, Promise!Throw
  <2> QED
    BY <1>8, <2>3, <2>4 DEF CopyResult
<1>9. ASSUME ReadArena(t)
      PROVE  Promise!Promised \/ Invisible
  <2>1. CASE /\ Null \in readable["arena"][t] /\ Ends(t, "close", "close", 0, NoOutput)
             /\ UNCHANGED streamVars
    <3>1. pc[t] = "close"
      BY <2>1 DEF Ends, Goes
    <3>2. arena # "open"
      BY <2>1, <3>1, NullIsClosed DEF Fields
    <3> QED
      BY <2>1, <3>2 DEF Ends, streamVars, Promise!Promised, Promise!Close
  <2>2. CASE Stays /\ UNCHANGED streamVars
    BY <2>2 DEF Stays, streamVars, Invisible
  <2> QED
    BY <1>9, <2>1, <2>2 DEF ReadArena
<1>10. ASSUME ForgetSegment(t) \/ ForgetArena(t)
       PROVE  Invisible
  BY <1>10 DEF ForgetSegment, ForgetArena, Stays, Forgets, Invisible
<1>11. ASSUME CloseArena(t)
       PROVE  Promise!Promised
  <2>1. call[t].op = "close"
    BY <1>0, <1>11 DEF CloseArena, Ends, Goes, Place, Closing
  <2>2. MayClose
    BY <1>11, <2>1, ClosesAlone DEF CloseArena, Ends, Goes, MayClose, Inside
  <2> QED
    BY <1>11, <2>2 DEF CloseArena, Closed, Ends, Promise!Promised, Promise!Close
<1>12. ASSUME NEW op \in {"update", "finalize"}, NEW offset \in Offsets, NEW length \in Lengths,
              Call(t, op, offset, length)
       PROVE  Promise!Promised
  BY <1>3, <1>12, CallsAssumption DEF KnownLengths
<1>13. ASSUME NEW op \in {"reset", "close"}, Call(t, op, 0, 0)
       PROVE  Promise!Promised
  BY <1>3, <1>13
<1> QED
  BY <1>1, <1>2, <1>4, <1>5, <1>6, <1>7, <1>8, <1>9, <1>10, <1>11, <1>12, <1>13

LEMMA NextSimulation ==
  ASSUME IInv, KnownLengths, [Next]_vars
  PROVE  [Promise!Next]_(Promise!vars)
<1>1. CASE UNCHANGED vars
  BY <1>1 DEF vars, Promise!vars
<1>2. CASE Next /\ ~turns
  BY <1>2 DEF Next, Promise!Next, Promise!settings
<1>3. CASE Next /\ turns
  <2>1. Promise!Promised \/ Invisible
    BY <1>3, StepSimulation DEF Next
  <2>2. UNCHANGED turns
    BY <1>3 DEF Next
  <2>3. CASE Promise!Promised
    BY <2>2, <2>3 DEF Promise!Next, Promise!settings
  <2>4. CASE Invisible
    BY <2>2, <2>4 DEF Invisible, Promise!vars
  <2> QED
    BY <2>1, <2>3, <2>4
<1> QED
  BY <1>1, <1>2, <1>3

(***************************************************************************)
(* To any number of threads that take turns the FFM stream is the atomic   *)
(* stream of Blake3Stream, for all arguments.                              *)
(***************************************************************************)
THEOREM AlwaysImplementsStream ==
  ASSUME KnownLengths
  PROVE  Spec => ImplementsStream
<1>1. Init => Promise!Init
  BY InitSimulation
<1>2. IInv /\ [Next]_vars => [Promise!Next]_(Promise!vars)
  BY NextSimulation
<1> QED
  BY <1>1, <1>2, AlwaysIInv, PTL DEF Spec, ImplementsStream, Promise!Spec
=============================================================================
