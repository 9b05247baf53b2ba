---------------------------- MODULE CallsProofs ----------------------------
(***************************************************************************)
(* Proofs about Calls, for every number of threads, instances, functions   *)
(* and stack depths.                                                       *)
(*                                                                         *)
(* ContextsRestored is not inductive: that Leave puts the right values     *)
(* back needs what the call state and the guard saved, and that it was     *)
(* saved from the context which Leave restores.  CallInv says so, phase by *)
(* phase.  FramesInv adds what is on the stack: the frames are a chain up  *)
(* to the trampoline, which is why the walk of a backtrace is exact.       *)
(***************************************************************************)
EXTENDS Calls, WellFoundedInduction, TLAPS

Inside == {"wasm", "returned", "unwound"}

\* One thread: what its contexts, its guard and its call state hold in each phase.
ThreadInv(t) ==
  /\ phase[t] = "idle" => call[t] = NoCall
  /\ phase[t] # "idle" => call[t].fn \in Func /\ guard[t] = 0
  /\ \A i \in Inst : phase[t] = "idle" \/ i # Home[call[t].fn] =>
       regs[t][i] = Zero /\ stackLimit[t][i] = 0
  /\ phase[t] \notin Inside => \A i \in Inst : regs[t][i] = Zero
  /\ phase[t] \in Inside =>
       /\ cts[t].inst = Home[call[t].fn] /\ cts[t].old = Zero
       /\ tls[t] = "self"
  /\ phase[t] = "unwound" => cts[t].unwind.trap \in TrapCode
  /\ phase[t] \in Inside \cup {"ready"} => handlers = "complete"

\* The variables are functions on the threads.
Shape ==
  /\ phase \in [Thread -> Phase]
  /\ DOMAIN call = Thread /\ DOMAIN guard = Thread
  /\ DOMAIN cts = Thread /\ DOMAIN tls = Thread /\ DOMAIN outcome = Thread
  /\ DOMAIN regs = Thread /\ \A t \in Thread : DOMAIN regs[t] = Inst
  /\ DOMAIN stackLimit = Thread /\ \A t \in Thread : DOMAIN stackLimit[t] = Inst
  /\ \A t \in Thread : DOMAIN cts[t] = {"inst", "old", "unwind"}

CallInv == Shape /\ \A t \in Thread : ThreadInv(t)

\* Every step of a thread preserves the invariant: the actions of the way in save
\* what they replace, compiled code and the trap handler leave the contexts alone,
\* and the way out restores them.
LEMMA StepCallInv ==
  ASSUME CallInv, NEW t \in Thread, HostStep(t) \/ WasmStep(t) \/ NewCall(t)
  PROVE  CallInv'
<1>1. ASSUME NEW f \in Func, NEW sp, NEW room, CallUnchecked(t, f, sp, room) PROVE CallInv'
  <2>1. Shape'
    BY <1>1 DEF CallInv, Shape, Phase, CallUnchecked, EnterWasm
  <2>2. ThreadInv(t)'
    BY <1>1, CallsAssumption, ZenonT(60) DEF CallInv, Shape, ThreadInv, Inside, Phase, CallUnchecked, EnterWasm
  <2>3. ASSUME NEW u \in Thread, u # t PROVE ThreadInv(u)'
    BY <1>1, <2>3, ZenonT(60) DEF CallInv, Shape, ThreadInv, Inside, Phase, CallUnchecked, EnterWasm
  <2> QED BY <2>1, <2>2, <2>3 DEF CallInv
<1>2. ASSUME BeginInstall(t) PROVE CallInv'
  <2>1. Shape'
    BY <1>2 DEF CallInv, Shape, Phase, BeginInstall, storeVars
  <2>2. ThreadInv(t)'
    BY <1>2 DEF CallInv, Shape, ThreadInv, Inside, Phase, BeginInstall, storeVars
  <2>3. ASSUME NEW u \in Thread, u # t PROVE ThreadInv(u)'
    BY <1>2, <2>3 DEF CallInv, Shape, ThreadInv, Inside, Phase, BeginInstall, storeVars
  <2> QED BY <2>1, <2>2, <2>3 DEF CallInv
<1>3. ASSUME EndInstall(t) PROVE CallInv'
  <2>1. Shape'
    BY <1>3 DEF CallInv, Shape, Phase, EndInstall, storeVars
  <2>2. ThreadInv(t)'
    BY <1>3 DEF CallInv, Shape, ThreadInv, Inside, Phase, EndInstall, storeVars
  <2>3. ASSUME NEW u \in Thread, u # t PROVE ThreadInv(u)'
    BY <1>3, <2>3 DEF CallInv, Shape, ThreadInv, Inside, Phase, EndInstall, storeVars
  <2> QED BY <2>1, <2>2, <2>3 DEF CallInv
<1>4. ASSUME FindInstalled(t) PROVE CallInv'
  <2>1. Shape'
    BY <1>4 DEF CallInv, Shape, Phase, FindInstalled, storeVars
  <2>2. ThreadInv(t)'
    BY <1>4 DEF CallInv, Shape, ThreadInv, Inside, Phase, FindInstalled, storeVars
  <2>3. ASSUME NEW u \in Thread, u # t PROVE ThreadInv(u)'
    BY <1>4, <2>3 DEF CallInv, Shape, ThreadInv, Inside, Phase, FindInstalled, storeVars
  <2> QED BY <2>1, <2>2, <2>3 DEF CallInv
<1>5. ASSUME CatchTraps(t) PROVE CallInv'
  <2>1. Shape'
    BY <1>5 DEF CallInv, Shape, Phase, CatchTraps, Trampoline, Push, NewState, Zero
  <2>2. ThreadInv(t)'
    <3>1. PICK h : h = Home[call[t].fn]
      OBVIOUS
    <3>2. phase[t] = "ready" /\ call[t].fn \in Func /\ guard[t] = 0 /\ handlers = "complete"
      BY <1>5 DEF CallInv, ThreadInv, CatchTraps
    <3>3. h \in Inst /\ \A i \in Inst : regs[t][i] = Zero
      BY <3>1, <3>2, CallsAssumption DEF CallInv, ThreadInv, Inside
    <3>4. /\ phase'[t] = "wasm" /\ cts'[t] = NewState(h, regs[t][h]) /\ tls'[t] = "self"
          /\ UNCHANGED <<call, guard, stackLimit, handlers>>
          /\ \A i \in Inst : i # h => regs'[t][i] = regs[t][i]
      BY <1>5, <3>1 DEF CallInv, Shape, CatchTraps, Trampoline, Push
    <3>5. cts'[t].inst = h /\ cts'[t].old = Zero
      BY <3>3, <3>4 DEF NewState
    <3>6. \A i \in Inst : i # h => stackLimit[t][i] = 0
      BY <3>1 DEF CallInv, ThreadInv
    <3> QED BY <3>1, <3>2, <3>3, <3>4, <3>5, <3>6 DEF ThreadInv, Inside
  <2>3. ASSUME NEW u \in Thread, u # t PROVE ThreadInv(u)'
    BY <1>5, <2>3 DEF CallInv, Shape, ThreadInv, Inside, Phase, CatchTraps, Trampoline, Push, NewState, Zero
  <2> QED BY <2>1, <2>2, <2>3 DEF CallInv
<1>6. ASSUME NEW f \in Func, PushFrame(t, f) PROVE CallInv'
  <2>1. Shape'
    BY <1>6 DEF CallInv, Shape, Phase, PushFrame, storeVars
  <2>2. ThreadInv(t)'
    BY <1>6 DEF CallInv, Shape, ThreadInv, Inside, Phase, PushFrame, storeVars
  <2>3. ASSUME NEW u \in Thread, u # t PROVE ThreadInv(u)'
    BY <1>6, <2>3 DEF CallInv, Shape, ThreadInv, Inside, Phase, PushFrame, storeVars
  <2> QED BY <2>1, <2>2, <2>3 DEF CallInv
<1>7. ASSUME Return(t) PROVE CallInv'
  <2>1. Shape'
    BY <1>7 DEF CallInv, Shape, Phase, Return, storeVars
  <2>2. ThreadInv(t)'
    <3>1. UNCHANGED <<call, stackLimit, guard, regs, tls, cts, handlers>>
      BY <1>7 DEF Return, storeVars
    <3>2. phase[t] = "wasm" /\ phase'[t] \in {"wasm", "returned"}
      BY <1>7 DEF Return, CallInv, Shape
    <3> QED BY <3>1, <3>2 DEF CallInv, ThreadInv, Inside
  <2>3. ASSUME NEW u \in Thread, u # t PROVE ThreadInv(u)'
    BY <1>7, <2>3 DEF CallInv, Shape, ThreadInv, Inside, Phase, Return, storeVars
  <2> QED BY <2>1, <2>2, <2>3 DEF CallInv
<1>8. ASSUME NEW pc, NEW fp, NEW s, phase[t] = "wasm" \/ pc = NoPc, TrapHandler(t, pc, fp, s) PROVE CallInv'
  <2>1. CASE Handled(t, pc) /\ SetJitTrap(t, pc, fp, s)
    <3>1. phase[t] = "wasm" /\ pc.site \in TrapCode
      <4>1. pc.fn \in Func /\ pc.site \in TrapCode
        BY <2>1 DEF Handled
      <4>2. pc.fn # NoFunc /\ NoPc.fn = NoFunc
        BY <4>1, CallsAssumption, Zenon DEF NoPc
      <4> QED BY <1>8, <4>1, <4>2
    <3>2. UNCHANGED <<call, guard, regs, stackLimit, tls, outcome, handlers>>
      BY <1>8 DEF TrapHandler, storeVars
    <3>3. /\ phase' = [phase EXCEPT ![t] = "unwound"]
          /\ cts'[t].unwind.trap = pc.site
          /\ cts'[t].inst = cts[t].inst /\ cts'[t].old = cts[t].old
          /\ DOMAIN cts' = Thread /\ DOMAIN cts'[t] = DOMAIN cts[t]
          /\ \A u \in Thread : u # t => cts'[u] = cts[u]
      BY <2>1 DEF SetJitTrap, CallInv, Shape
    <3>4. Shape'
      BY <3>2, <3>3 DEF CallInv, Shape, Phase
    <3>5. ThreadInv(t)'
      BY <3>1, <3>2, <3>3 DEF CallInv, Shape, ThreadInv, Inside, Phase
    <3>6. ASSUME NEW u \in Thread, u # t PROVE ThreadInv(u)'
      BY <3>2, <3>3, <3>6 DEF CallInv, Shape, ThreadInv, Inside
    <3> QED BY <3>4, <3>5, <3>6 DEF CallInv
  <2>2. CASE UNCHANGED <<cts, frames, phase, failed>>
    BY <1>8, <2>2 DEF TrapHandler, storeVars, CallInv, Shape, ThreadInv
  <2> QED BY <1>8, <2>1, <2>2 DEF TrapHandler
<1>9. ASSUME phase[t] \in {"returned", "unwound"}, Leave(t), DOMAIN outcome' = Thread PROVE CallInv'
  <2> DEFINE h == Home[call[t].fn]
  <2>1. h \in Inst /\ cts[t].inst = h /\ cts[t].old = Zero /\ guard[t] = 0
    BY <1>9, CallsAssumption DEF CallInv, ThreadInv, Inside
  <2>2. regs'[t] = [regs[t] EXCEPT ![h] = Zero] /\ stackLimit'[t] = [stackLimit[t] EXCEPT ![h] = 0]
    BY <1>9, <2>1 DEF Leave, Pop, DropState, DropGuard, CallInv, Shape
  <2>3. \A i \in Inst : regs'[t][i] = Zero /\ stackLimit'[t][i] = 0
    <3>1. \A i \in Inst : i # h => regs[t][i] = Zero /\ stackLimit[t][i] = 0
      BY <1>9 DEF CallInv, ThreadInv
    <3>2. DOMAIN regs[t] = Inst /\ DOMAIN stackLimit[t] = Inst
      BY DEF CallInv, Shape
    <3> HIDE DEF h
    <3> QED BY <2>2, <3>1, <3>2
  <2>4. Shape'
    BY <1>9, <2>2 DEF Leave, Pop, DropState, DropGuard, CallInv, Shape, Phase
  <2>5. ThreadInv(t)'
    BY <1>9, <2>3 DEF Leave, Pop, DropState, DropGuard, CallInv, Shape, ThreadInv, Inside
  <2>6. ASSUME NEW u \in Thread, u # t PROVE ThreadInv(u)'
    BY <1>9, <2>6, ZenonT(60) DEF Leave, Pop, DropState, DropGuard, CallInv, Shape, ThreadInv, Inside
  <2> QED BY <2>4, <2>5, <2>6 DEF CallInv
<1>10. CASE HostStep(t)
  <2>1. CASE LeaveReturned(t)
    BY <2>1, <1>9 DEF LeaveReturned, CallInv, Shape
  <2>2. CASE LeaveUnwound(t)
    BY <2>2, <1>9 DEF LeaveUnwound, CallInv, Shape
  <2> QED BY <1>10, <1>2, <1>3, <1>4, <1>5, <2>1, <2>2 DEF HostStep
<1>11. CASE WasmStep(t)
  <2>1. ASSUME NEW c \in TrapCode, TrapSite(t, c) PROVE CallInv'
    BY <2>1, <1>8 DEF TrapSite
  <2>2. ASSUME NEW f \in Func, Overflow(t, f) PROVE CallInv'
    BY <2>2, <1>8 DEF Overflow
  <2> QED BY <1>11, <1>6, <1>7, <2>1, <2>2 DEF WasmStep
<1>12. CASE NewCall(t)
  BY <1>12, <1>1, <1>8 DEF NewCall, HostFault
<1> QED BY <1>10, <1>11, <1>12

\* The invariant holds throughout every run.
THEOREM CallInvariance == SafetySpec => []CallInv
<1>1. CallInv /\ [Next]_vars => CallInv'
  <2> SUFFICES ASSUME CallInv, [Next]_vars PROVE CallInv'
    OBVIOUS
  <2>1. CASE Next
    BY <2>1, StepCallInv DEF Next
  <2>2. CASE UNCHANGED vars
    BY <2>2 DEF vars, storeVars, CallInv, Shape, ThreadInv
  <2> QED BY <2>1, <2>2
<1>2. Init => CallInv
  <2> SUFFICES ASSUME Init PROVE CallInv
    OBVIOUS
  <2>1. Shape
    BY DEF Init, Shape, Phase
  <2>2. ASSUME NEW t \in Thread PROVE ThreadInv(t)
    BY DEF Init, ThreadInv, Inside
  <2> QED BY <2>1, <2>2 DEF CallInv
<1> QED BY <1>1, <1>2, PTL DEF SafetySpec

\* Whatever way a call ended, CallThreadState::drop and WasmExecutionGuard::drop
\* have put every context of the thread back to what it was.
THEOREM ContextsAreRestored == SafetySpec => []ContextsRestored
<1>1. CallInv => ContextsRestored
  BY DEF CallInv, ThreadInv, ContextsRestored
<1> QED BY <1>1, CallInvariance, PTL

\* No thread runs compiled code before ensure_signal_handlers_are_registered has
\* returned on some thread, its own or another one.
THEOREM HandlersComeFirst == SafetySpec => []HandlersBeforeWasm
<1>1. CallInv => HandlersBeforeWasm
  BY DEF CallInv, ThreadInv, HandlersBeforeWasm, Inside
<1> QED BY <1>1, CallInvariance, PTL

-----------------------------------------------------------------------------
(* The stack.                                                               *)

Frame == [fn : Func \cup {NoFunc}, fp : Int]

\* The stack of a call that is in wasm: the trampoline, then functions, one below
\* the other and above the guard page.
Chain(s, sp) ==
  /\ s \in Seq(Frame) /\ Len(s) > 0
  /\ \A k \in 1..Len(s) : s[k].fp = sp - k
  /\ \A k \in 2..Len(s) : s[k].fn \in Func /\ s[k].fp >= StackEnd

\* The frames of wasm on s, innermost first.
Shows(bt, s) ==
  /\ Len(bt) = Len(s) - 1
  /\ \A k \in 1..(Len(s) - 1) :
       bt[k].fp = s[Len(s) + 1 - k].fp /\ bt[k].pc.fn = s[Len(s) + 1 - k].fn

\* The frames of the entered instance are within the limit of this call.
Within(s, c) ==
  \A k \in 2..Len(s) : Home[s[k].fn] = Home[c.fn] => s[k].fp + MaxWasmStack >= c.sp

\* What a call has taken from the store, saved and set, by its phase.
DataInv(t) ==
  /\ storage[t] = 0 /\ guard[t] = 0 /\ cts[t].old = Zero
  /\ cts[t].unwind.trap \in TrapCode \cup {NoTrap}
  /\ outcome[t] \in {"none", "returned", "panicked"} \cup TrapCode
  /\ tls[t] \in {"none", "null", "self"}
  /\ phase[t] = "idle" => values[t] = 0
  /\ phase[t] # "idle" => /\ call[t].sp \in HostSp /\ call[t].room \in Nat
                          /\ values[t] = ValuesVecSize(call[t].fn)
                          /\ stackLimit[t][Home[call[t].fn]] = call[t].sp - MaxWasmStack
  /\ phase[t] \in Inside =>
       regs[t][Home[call[t].fn]] = [Zero EXCEPT !.entry_fp = call[t].sp - 1]

\* What is on its stack, and what a trap has recorded of it.
StackInv(t) ==
  /\ phase[t] \in {"wasm", "unwound"} => Chain(frames[t], call[t].sp)
  /\ phase[t] = "wasm" => Within(frames[t], call[t])
  /\ phase[t] = "unwound" => Shows(cts[t].unwind.backtrace, frames[t])

\* The whole: nothing asserted has failed, and every thread is as said above.
FramesInv ==
  /\ DOMAIN frames = Thread /\ DOMAIN storage = Thread /\ DOMAIN values = Thread
  /\ handlers \in {"unset", "running", "complete"} /\ killed \in BOOLEAN
  /\ failed = {}
  /\ \A t \in Thread : DataInv(t) /\ StackInv(t)

\* What the walk over the frame pointers returns on a stack that is a chain.
Above(s, fp, trampoline) ==
  IF fp = trampoline THEN <<>>
  ELSE IF fp < trampoline /\ \E k \in 2..Len(s) : s[k].fp = fp
    THEN [i \in 1..(trampoline - fp) |-> fp + i - 1]
  ELSE <<0>>

\* On a chain a frame pointer names one frame, and the record there leads to the
\* frame one above.
LEMMA ChainLink ==
  ASSUME NEW sp \in Nat, NEW s, Chain(s, sp), NEW k \in 2..Len(s)
  PROVE  /\ FrameAt(s, s[k].fp) = k /\ s[k].fp = sp - k /\ s[k].fp \in Nat
         /\ s[k-1].fp = sp - (k-1)
         /\ OlderFp(s, s[k].fp) = s[k].fp + 1 /\ OlderPc(s, s[k].fp).fn = s[k-1].fn
<1>1. Len(s) \in Nat /\ DOMAIN s = 1..Len(s)
  BY DEF Chain
<1>2. \A j \in 1..Len(s) : s[j].fp = sp - j
  BY DEF Chain
<1>3. k \in 1..Len(s) /\ k - 1 \in 1..Len(s)
  BY <1>1
<1>4. \A j \in DOMAIN s : s[j].fp = s[k].fp <=> j = k
  BY <1>1, <1>2, <1>3
<1>5. FrameAt(s, s[k].fp) = k
  BY <1>1, <1>3, <1>4 DEF FrameAt
<1>6. s[k].fp \in Nat /\ s[k].fp = sp - k /\ s[k-1].fp = sp - (k-1)
  BY <1>1, <1>2, <1>3 DEF Chain, StackEnd
<1>7. OlderFp(s, s[k].fp) = s[k-1].fp
  BY <1>5 DEF OlderFp
<1>8. OlderPc(s, s[k].fp).fn = s[k-1].fn
  BY <1>5 DEF OlderPc
<1> QED BY <1>5, <1>6, <1>7, <1>8

\* trace_through_wasm, started at a frame of wasm, visits that frame and all those
\* between it and the trampoline, and stops there.  The walk is a recursive function;
\* Above satisfies its equation, and any other solution agrees with Above at each
\* frame, by induction on the number of frames above it.
LEMMA WalkExact ==
  ASSUME NEW sp \in Nat \ {0}, NEW s, Chain(s, sp), NEW k \in 2..Len(s)
  PROVE  TraceThroughWasm(s, s[k].fp, sp - 1) = [i \in 1..(k - 1) |-> s[k + 1 - i].fp]
<1> DEFINE tr == sp - 1
           IsFrame(fp) == \E j \in 2..Len(s) : s[j].fp = fp
           Walk(w) == [fp \in Nat |->
                         IF fp = tr THEN <<>>
                         ELSE IF fp < tr /\ IsFrame(fp) THEN <<fp>> \o w[OlderFp(s, fp)]
                         ELSE <<0>>]
           W == [fp \in Nat |-> Above(s, fp, tr)]
           walk == CHOOSE w : w = Walk(w)
<1>1. Len(s) \in Nat /\ tr \in Nat
  BY DEF Chain
<1>2. ASSUME NEW fp \in Nat, fp < tr, IsFrame(fp)
      PROVE  W[fp] = <<fp>> \o W[OlderFp(s, fp)]
  <2>1. PICK j \in 2..Len(s) : s[j].fp = fp
    BY <1>2
  <2>2. fp = sp - j /\ OlderFp(s, fp) = fp + 1
    <3>1. s[j].fp = sp - j /\ OlderFp(s, s[j].fp) = s[j].fp + 1
      BY ChainLink
    <3> QED BY ONLY <2>1, <3>1
  <2>3. W[fp] = [i \in 1..(tr - fp) |-> fp + i - 1]
    BY <1>2 DEF Above
  <2>4. W[fp + 1] = [i \in 1..(tr - (fp + 1)) |-> fp + i]
    <3>1. CASE j = 2
      <4>1. fp + 1 = tr
        BY <2>2, <3>1
      <4>2. W[fp + 1] = <<>>
        BY <1>1, <4>1 DEF Above
      <4>3. 1..(tr - (fp + 1)) = {}
        BY <1>1, <4>1
      <4> QED BY <4>2, <4>3
    <3>2. CASE j # 2
      <4>1. j - 1 \in 2..Len(s) /\ j - 1 \in 1..Len(s)
        BY <1>1, <3>2
      <4>2. s[j-1].fp = fp + 1 /\ fp + 1 < tr
        BY <1>1, <2>1, <2>2, <3>2, <4>1, SMTT(30) DEF Chain
      <4>3. W[fp + 1] = [i \in 1..(tr - (fp + 1)) |-> (fp + 1) + i - 1]
        BY <4>1, <4>2 DEF Above
      <4> QED BY <4>3
    <3> QED BY <3>1, <3>2
  <2>5. <<fp>> \o W[fp + 1] = [i \in 1..(tr - fp) |-> fp + i - 1]
    <3> DEFINE U == [i \in 1..(tr - (fp + 1)) |-> fp + i]
    <3>1. U \in Seq(Nat) /\ Len(U) = tr - (fp + 1)
      BY <1>1, <1>2
    <3>2. <<fp>> \o U \in Seq(Nat) /\ Len(<<fp>> \o U) = tr - fp
      BY <1>1, <1>2, <3>1
    <3>3. \A i \in 1..(tr - fp) : (<<fp>> \o U)[i] = fp + i - 1
      BY <1>1, <1>2, <3>1
    <3>4. PICK q : q = <<fp>> \o U
      OBVIOUS
    <3>5. q \in [1..(tr - fp) -> Nat] /\ \A i \in 1..(tr - fp) : q[i] = fp + i - 1
      <4> HIDE DEF U
      <4>1. q \in Seq(Nat) /\ Len(q) = tr - fp
        BY <3>2, <3>4
      <4>2. q \in [1..Len(q) -> Nat]
        BY <4>1
      <4> QED BY <3>3, <3>4, <4>1, <4>2
    <3>6. q = [i \in 1..(tr - fp) |-> fp + i - 1]
      BY <3>5
    <3> QED BY <2>4, <3>4, <3>6
  <2> QED BY <2>2, <2>3, <2>5
<1>3. W = Walk(W)
  BY <1>2 DEF Above
<1>4. walk = Walk(walk)
  BY <1>3
<1> HIDE DEF walk
<1>10. \A fp \in Nat : fp < tr /\ IsFrame(fp) => walk[fp] = <<fp>> \o walk[OlderFp(s, fp)]
  <2> HIDE DEF IsFrame
  <2> SUFFICES ASSUME NEW fp \in Nat, fp < tr, IsFrame(fp)
               PROVE  walk[fp] = <<fp>> \o walk[OlderFp(s, fp)]
    OBVIOUS
  <2>1. fp # tr
    BY <1>1
  <2>2. walk[fp] = IF fp = tr THEN <<>>
                   ELSE IF fp < tr /\ IsFrame(fp) THEN <<fp>> \o walk[OlderFp(s, fp)]
                   ELSE <<0>>
    BY <1>4
  <2> QED BY <2>1, <2>2
<1> DEFINE S == {n \in Nat : n + 1 \in 1..Len(s) => walk[sp - (n + 1)] = W[sp - (n + 1)]}
<1>5. 0 \in S
  <2>1. walk[tr] = <<>> /\ W[tr] = <<>>
    BY <1>1, <1>4 DEF Above
  <2> QED BY <2>1
<1>6. ASSUME NEW n \in Nat, n \in S PROVE n + 1 \in S
  <2> SUFFICES ASSUME n + 2 \in 1..Len(s) PROVE walk[sp - (n + 2)] = W[sp - (n + 2)]
    BY <1>6
  <2> DEFINE fp == sp - (n + 2)
  <2>1. n + 2 \in 2..Len(s) /\ n + 1 \in 1..Len(s)
    BY <1>1
  <2>2. fp = s[n + 2].fp /\ fp \in Nat /\ OlderFp(s, fp) = sp - (n + 1)
    BY <2>1, ChainLink
  <2>3. fp < tr /\ fp # tr /\ IsFrame(fp)
    <3>1. fp < tr /\ fp # tr
      OBVIOUS
    <3>2. \E j \in 2..Len(s) : s[j].fp = fp
      BY <2>1, <2>2
    <3> QED BY <3>1, <3>2
  <2>4. walk[fp] = <<fp>> \o walk[OlderFp(s, fp)]
    BY <1>10, <2>2, <2>3
  <2>5. W[fp] = <<fp>> \o W[OlderFp(s, fp)]
    BY <1>2, <2>2, <2>3
  <2>6. walk[OlderFp(s, fp)] = W[OlderFp(s, fp)]
    BY <1>6, <2>1, <2>2
  <2> QED BY <2>4, <2>5, <2>6
<1>7. k - 1 \in S
  <2> HIDE DEF S
  <2> SUFFICES ASSUME Nat \ S # {} PROVE FALSE
    BY <1>1
  <2> DEFINE less == {pair \in Nat \X Nat : pair[1] < pair[2]}
  <2>1. IsWellFoundedOn(less, Nat)
    BY NatLessThanWellFounded DEF OpToRel
  <2>2. PICK m \in Nat \ S : \A n \in Nat \ S : ~ (<<n, m>> \in less)
    <3> HIDE DEF less
    <3> QED BY <2>1, WFMin
  <2>3. m # 0 /\ m - 1 \in Nat
    BY <1>5, <2>2
  <2>4. <<m - 1, m>> \in less
    BY <2>2, <2>3
  <2>5. m - 1 \in S
    <3> HIDE DEF less
    <3> QED BY <2>2, <2>3, <2>4
  <2> HIDE DEF less
  <2> QED BY <1>6, <2>2, <2>3, <2>5
<1>8. walk[s[k].fp] = W[s[k].fp]
  BY <1>1, <1>7, ChainLink
<1>9. W[s[k].fp] = [i \in 1..(k - 1) |-> s[k + 1 - i].fp]
  <2>1. s[k].fp \in Nat /\ s[k].fp = sp - k /\ s[k].fp < tr
    BY <1>1, ChainLink
  <2>2. W[s[k].fp] = [i \in 1..(tr - s[k].fp) |-> s[k].fp + i - 1]
    BY <2>1 DEF Above
  <2>3. tr - s[k].fp = k - 1
    BY <1>1, <2>1
  <2>4. \A i \in 1..(k - 1) : s[k + 1 - i].fp = s[k].fp + i - 1
    BY <1>1, <2>1 DEF Chain
  <2> QED BY <2>2, <2>3, <2>4
<1>11. TraceThroughWasm(s, s[k].fp, sp - 1) = walk[s[k].fp]
  BY DEF TraceThroughWasm, walk
<1> QED BY <1>8, <1>9, <1>11

\* So the backtrace that set_jit_trap records shows the stack of the fault, and the
\* assertion that the walk stays below the trampoline holds.
LEMMA BacktraceShows ==
  ASSUME NEW t \in Thread, NEW s, NEW sp \in Nat \ {0}, Chain(s, sp), Len(s) > 1,
         regs[t][cts[t].inst].entry_fp = sp - 1, NEW pc, pc.fn = s[Len(s)].fn
  PROVE  /\ Shows(Backtrace(t, pc, s[Len(s)].fp, s), s)
         /\ 0 \notin Range(Walked(t, s[Len(s)].fp, s))
<1>0. PICK n : n = Len(s)
  OBVIOUS
<1>1. n \in Nat /\ n \in 2..n /\ n \in 2..Len(s)
  BY <1>0 DEF Chain
<1>2. PICK fps : fps = Walked(t, s[n].fp, s)
  OBVIOUS
<1>3. fps = [i \in 1..(n - 1) |-> s[n + 1 - i].fp]
  <2>1. TraceThroughWasm(s, s[n].fp, sp - 1) = [i \in 1..(n - 1) |-> s[n + 1 - i].fp]
    BY <1>1, WalkExact
  <2> QED BY <1>2, <2>1, Zenon DEF Walked
<1>4. PICK bt : bt = Backtrace(t, pc, s[n].fp, s)
  OBVIOUS
<1>5. bt = [k \in 1..(n - 1) |-> [fp |-> fps[k], pc |-> IF k = 1 THEN pc ELSE OlderPc(s, fps[k - 1])]]
  BY <1>2, <1>3, <1>4 DEF Backtrace
<1>6. Len(bt) = n - 1
  BY <1>1, <1>5
<1>7. ASSUME NEW k \in 1..(n - 1)
      PROVE  bt[k].fp = s[n + 1 - k].fp /\ bt[k].pc.fn = s[n + 1 - k].fn
  <2>1. bt[k].fp = s[n + 1 - k].fp
    BY <1>3, <1>5
  <2>2. CASE k = 1
    <3>1. bt[k].pc = pc
      BY <1>5, <2>2
    <3>2. n + 1 - k = n
      BY <1>1, <2>2
    <3> QED BY <1>0, <2>1, <3>1, <3>2
  <2>3. CASE k # 1
    <3>1. PICK j \in 2..Len(s) : j = n + 2 - k
      <4>1. n + 2 - k \in 2..n
        BY <1>1, <2>3
      <4> QED BY <1>0, <4>1
    <3>2. k - 1 \in 1..(n - 1) /\ j = n + 1 - (k - 1) /\ j - 1 = n + 1 - k
      BY <1>1, <2>3, <3>1
    <3>3. fps[k - 1] = s[j].fp
      BY <1>3, <3>2
    <3>4. OlderPc(s, fps[k - 1]).fn = s[j - 1].fn
      BY <3>3, ChainLink
    <3>5. bt[k].pc = OlderPc(s, fps[k - 1])
      BY <1>5, <2>3
    <3> QED BY <2>1, <3>2, <3>4, <3>5
  <2> QED BY <2>1, <2>2, <2>3
<1>8. 0 \notin Range(fps)
  <2>1. \A i \in 1..(n - 1) : n + 1 - i \in 2..Len(s)
    BY <1>0, <1>1
  <2>2. \A j \in 2..Len(s) : s[j].fp >= 1
    BY DEF Chain, StackEnd
  <2>3. \A i \in DOMAIN fps : fps[i] # 0
    BY <1>3, <2>1, <2>2
  <2> QED BY <2>3 DEF Range
<1> QED BY <1>0, <1>2, <1>4, <1>6, <1>7, <1>8 DEF Shows

\* The values_vec of a call has room for parameters and for results.
LEMMA MaxOfTwo ==
  ASSUME NEW p \in Nat, NEW r \in Nat
  PROVE  Max({p, r}) \in {p, r} /\ Max({p, r}) >= p /\ Max({p, r}) >= r
<1>1. \E x \in {p, r} : \A y \in {p, r} : x >= y
  <2>1. CASE p >= r
    BY <2>1
  <2>2. CASE ~(p >= r)
    BY <2>2
  <2> QED BY <2>1, <2>2
<1>2. Max({p, r}) \in {p, r} /\ \A y \in {p, r} : Max({p, r}) >= y
  BY <1>1 DEF Max
<1> QED BY <1>2

\* The stack s with one more frame.
Grown(s, f, fp, sp, new) ==
  /\ fp \in Int /\ Len(new) = Len(s) + 1 /\ Len(s) \in Nat
  /\ new[Len(new)].fn = f /\ new[Len(new)].fp = fp
  /\ \A k \in 1..Len(s) : new[k] = s[k]
  /\ fp >= StackEnd => Chain(new, sp)

\* A call of a compiled function adds a frame to the chain.
LEMMA ChainGrows ==
  ASSUME NEW sp \in Nat, NEW s, Chain(s, sp), NEW f \in Func, NEW fp, fp = s[Len(s)].fp - 1
  PROVE  Grown(s, f, fp, sp, Append(s, [fn |-> f, fp |-> fp]))
<1>1. Len(s) \in Nat /\ Len(s) \in 1..Len(s) /\ s \in Seq(Frame)
  BY DEF Chain
<1>2. fp = sp - (Len(s) + 1) /\ fp \in Int
  BY <1>1 DEF Chain
<1>3. PICK x : x = [fn |-> f, fp |-> fp]
  OBVIOUS
<1>4. x \in Frame /\ x.fn = f /\ x.fp = fp
  BY <1>2, <1>3 DEF Frame
<1>5. PICK new : new = Append(s, x)
  OBVIOUS
<1>6. /\ new \in Seq(Frame) /\ Len(new) = Len(s) + 1
      /\ new[Len(s) + 1] = x /\ \A k \in 1..Len(s) : new[k] = s[k]
  BY <1>1, <1>4, <1>5
<1>7. ASSUME fp >= StackEnd PROVE Chain(new, sp)
  <2>1. \A k \in 1..Len(new) : new[k].fp = sp - k
    <3> SUFFICES ASSUME NEW k \in 1..Len(new) PROVE new[k].fp = sp - k
      OBVIOUS
    <3>1. k \in 1..Len(s) \/ k = Len(s) + 1
      BY <1>1, <1>6
    <3> QED BY <1>2, <1>4, <1>6, <3>1 DEF Chain
  <2>2. \A k \in 2..Len(new) : new[k].fn \in Func /\ new[k].fp >= StackEnd
    <3> SUFFICES ASSUME NEW k \in 2..Len(new) PROVE new[k].fn \in Func /\ new[k].fp >= StackEnd
      OBVIOUS
    <3>1. (k \in 2..Len(s) /\ k \in 1..Len(s)) \/ k = Len(s) + 1
      BY <1>1, <1>6
    <3> QED BY <1>4, <1>6, <1>7, <3>1 DEF Chain
  <2> QED BY <1>1, <1>6, <2>1, <2>2 DEF Chain
<1>8. Grown(s, f, fp, sp, new)
  BY <1>1, <1>2, <1>4, <1>6, <1>7 DEF Grown
<1> QED BY <1>3, <1>5, <1>8

\* Every step of a thread preserves what is known of its stack and of what the call
\* has taken from the store.
LEMMA StepFramesInv ==
  ASSUME CallInv, FramesInv, NEW t \in Thread, HostStep(t) \/ WasmStep(t) \/ NewCall(t)
  PROVE  FramesInv'
<1> DEFINE SameElsewhere == \A u \in Thread : u # t =>
             /\ phase'[u] = phase[u] /\ call'[u] = call[u] /\ storage'[u] = storage[u]
             /\ values'[u] = values[u] /\ stackLimit'[u] = stackLimit[u] /\ guard'[u] = guard[u]
             /\ regs'[u] = regs[u] /\ tls'[u] = tls[u] /\ cts'[u] = cts[u]
             /\ frames'[u] = frames[u] /\ outcome'[u] = outcome[u]
           Global == /\ DOMAIN frames' = Thread /\ DOMAIN storage' = Thread /\ DOMAIN values' = Thread
                     /\ handlers' \in {"unset", "running", "complete"} /\ killed' \in BOOLEAN
                     /\ failed' = {}
<1>1. ASSUME SameElsewhere, Global, DataInv(t)', StackInv(t)' PROVE FramesInv'
  <2>1. ASSUME NEW u \in Thread, u # t PROVE DataInv(u)' /\ StackInv(u)'
    <3>1. DataInv(u) /\ StackInv(u)
      BY DEF FramesInv
    <3>2. /\ phase'[u] = phase[u] /\ call'[u] = call[u] /\ storage'[u] = storage[u]
          /\ values'[u] = values[u] /\ stackLimit'[u] = stackLimit[u] /\ guard'[u] = guard[u]
          /\ regs'[u] = regs[u] /\ tls'[u] = tls[u] /\ cts'[u] = cts[u]
          /\ frames'[u] = frames[u] /\ outcome'[u] = outcome[u]
      BY <1>1, <2>1
    <3>3. DataInv(u)'
      BY <3>1, <3>2 DEF DataInv
    <3> QED BY <3>1, <3>2, <3>3 DEF StackInv
  <2> QED BY <1>1, <2>1 DEF FramesInv
<1>2. /\ DOMAIN frames = Thread /\ DOMAIN storage = Thread /\ DOMAIN values = Thread
      /\ handlers \in {"unset", "running", "complete"} /\ killed \in BOOLEAN /\ failed = {}
      /\ Shape /\ DataInv(t) /\ StackInv(t) /\ ThreadInv(t)
  BY DEF FramesInv, CallInv
<1>3. ASSUME phase[t] # "idle"
      PROVE  call[t].fn \in Func /\ Home[call[t].fn] \in Inst /\ call[t].sp \in Nat \ {0}
             /\ call[t].sp > MaxWasmStack /\ call[t].sp \in HostSp
  <2>1. call[t].fn \in Func /\ call[t].sp \in HostSp
    BY <1>2, <1>3 DEF ThreadInv, DataInv
  <2>2. /\ Home[call[t].fn] \in Inst /\ call[t].sp \in Nat /\ MaxWasmStack \in Nat
        /\ call[t].sp > MaxWasmStack
    BY <2>1, CallsAssumption, Zenon
  <2> QED BY <2>1, <2>2
<1>4. ASSUME NEW f \in Func, NEW sp \in HostSp, NEW room \in Nat, CallUnchecked(t, f, sp, room)
      PROVE  FramesInv'
  <2>1. SameElsewhere /\ Global
    BY <1>2, <1>4 DEF CallUnchecked, EnterWasm, Shape, DataInv, Fail
  <2>2. /\ phase[t] = "idle" /\ phase'[t] = "entering" /\ call'[t] = [fn |-> f, sp |-> sp, room |-> room]
        /\ storage'[t] = 0 /\ values'[t] = ValuesVecSize(f) /\ guard'[t] = stackLimit[t][Home[f]]
        /\ stackLimit'[t][Home[f]] = sp - MaxWasmStack
        /\ outcome'[t] = "none" /\ UNCHANGED <<regs, tls, cts, frames>>
    BY <1>2, <1>4, CallsAssumption DEF CallUnchecked, EnterWasm, Shape
  <2>3. guard'[t] = 0
    BY <1>2, <2>2, CallsAssumption DEF ThreadInv
  <2>4. DataInv(t)' /\ StackInv(t)'
    BY <1>2, <2>2, <2>3 DEF DataInv, StackInv, Inside
  <2> QED BY <1>1, <2>1, <2>4
<1>5. ASSUME BeginInstall(t) \/ EndInstall(t) \/ FindInstalled(t) PROVE FramesInv'
  <2>1. /\ SameElsewhere /\ Global
        /\ UNCHANGED <<call, storage, values, stackLimit, guard, regs, tls, cts, frames, outcome>>
    BY <1>2, <1>5 DEF BeginInstall, EndInstall, FindInstalled, storeVars, Shape
  <2>2. phase[t] \notin Inside /\ phase[t] # "idle" /\ phase'[t] \in {"installing", "ready"}
    BY <1>2, <1>5 DEF BeginInstall, EndInstall, FindInstalled, Shape, Inside
  <2>3. DataInv(t)' /\ StackInv(t)'
    BY <1>2, <2>1, <2>2 DEF DataInv, StackInv, Inside
  <2> QED BY <1>1, <2>1, <2>3
<1>6. CASE CatchTraps(t)
  <2>1. SameElsewhere /\ Global
    BY <1>2, <1>6 DEF CatchTraps, Trampoline, Push, Shape
  <2>2. /\ phase[t] = "ready" /\ phase'[t] = "wasm" /\ tls'[t] = "self"
        /\ cts'[t] = NewState(Home[call[t].fn], regs[t][Home[call[t].fn]])
        /\ frames'[t] = <<[fn |-> NoFunc, fp |-> call[t].sp - 1]>>
        /\ regs'[t] = [regs[t] EXCEPT ![Home[call[t].fn]].entry_fp = call[t].sp - 1]
        /\ UNCHANGED <<call, storage, values, stackLimit, guard, outcome>>
    BY <1>2, <1>6 DEF CatchTraps, Trampoline, Push, Shape
  <2>3. regs[t][Home[call[t].fn]] = Zero
    BY <1>2, <1>3, <2>2 DEF ThreadInv, Inside
  <2>4. regs'[t][Home[call[t].fn]] = [Zero EXCEPT !.entry_fp = call[t].sp - 1]
    BY <1>2, <1>3, <2>2, <2>3 DEF Shape
  <2>5. cts'[t].old = Zero /\ cts'[t].unwind.trap = NoTrap
    BY <2>2, <2>3 DEF NewState, Unset
  <2>6. DataInv(t)'
    BY <1>2, <2>2, <2>4, <2>5 DEF DataInv
  <2>7. Chain(frames'[t], call[t].sp) /\ Within(frames'[t], call[t])
    <3>1. PICK fr, sp, new : fr = [fn |-> NoFunc, fp |-> sp - 1] /\ sp = call[t].sp /\ new = <<fr>>
      OBVIOUS
    <3>2. sp \in Nat /\ frames'[t] = new
      BY <1>3, <2>2, <3>1
    <3>3. fr \in Frame /\ fr.fp = sp - 1
      BY <3>1, <3>2 DEF Frame
    <3>4. new \in Seq(Frame) /\ Len(new) = 1 /\ new[1].fp = sp - 1
      BY <3>1, <3>3
    <3>5. 1..Len(new) = {1} /\ 2..Len(new) = {}
      BY <3>4
    <3>6. Chain(new, sp)
      BY <3>4, <3>5 DEF Chain
    <3>7. Within(new, call[t])
      BY <3>5 DEF Within
    <3> QED BY <3>1, <3>2, <3>6, <3>7
  <2>8. StackInv(t)'
    BY <2>2, <2>7 DEF StackInv
  <2> QED BY <1>1, <2>1, <2>6, <2>8
<1>7. ASSUME NEW f \in Func, PushFrame(t, f) PROVE FramesInv'
  <2>1. SameElsewhere /\ Global
    BY <1>2, <1>7 DEF PushFrame, storeVars
  <2> DEFINE s == frames[t]
             new == Append(frames[t], [fn |-> f, fp |-> NextFp(t)])
  <2>2. /\ phase[t] = "wasm" /\ frames'[t] = new /\ NextFp(t) >= StackEnd
        /\ NextFp(t) >= stackLimit[t][Home[f]]
        /\ UNCHANGED <<phase, call, storage, values, stackLimit, guard, regs, tls, cts, outcome>>
    BY <1>2, <1>7 DEF PushFrame, storeVars, WithinLimit
  <2>3. Chain(s, call[t].sp) /\ Within(s, call[t])
    BY <1>2, <2>2 DEF StackInv
  <2>4. NextFp(t) = s[Len(s)].fp - 1
    BY DEF NextFp, Top
  <2>5. /\ NextFp(t) \in Int /\ Len(new) = Len(s) + 1 /\ Len(s) \in Nat
        /\ new[Len(new)].fn = f /\ new[Len(new)].fp = NextFp(t)
        /\ \A k \in 1..Len(s) : new[k] = s[k]
        /\ Chain(new, call[t].sp)
    <3>1. PICK sp, fp : sp \in Nat /\ sp = call[t].sp /\ fp = NextFp(t)
      BY <1>3, <2>2
    <3>2. Grown(s, f, fp, sp, Append(s, [fn |-> f, fp |-> fp]))
      BY <2>3, <2>4, <3>1, ChainGrows
    <3>3. Grown(s, f, NextFp(t), call[t].sp, new)
      BY <3>1, <3>2
    <3> HIDE DEF new, s
    <3> QED BY <2>2, <3>3 DEF Grown
  <2> HIDE DEF new, s
  <2>6. Within(new, call[t])
    <3> SUFFICES ASSUME NEW k \in 2..Len(new), Home[new[k].fn] = Home[call[t].fn]
                 PROVE  new[k].fp + MaxWasmStack >= call[t].sp
      BY DEF Within
    <3>1. CASE k = Len(new)
      <4>1. NextFp(t) >= call[t].sp - MaxWasmStack
        BY <1>2, <2>2, <2>5, <3>1 DEF DataInv
      <4>2. new[k].fp = NextFp(t) /\ NextFp(t) \in Int /\ call[t].sp \in Nat /\ MaxWasmStack \in Nat
        <5>1. MaxWasmStack \in Nat
          BY CallsAssumption
        <5>2. call[t].sp \in Nat
          BY <1>3, <2>2
        <5> QED BY <2>5, <3>1, <5>1, <5>2
      <4> QED BY <4>1, <4>2
    <3>2. CASE k # Len(new)
      <4>1. k \in 2..Len(s) /\ k \in 1..Len(s)
        <5>1. PICK n \in Nat : n = Len(s) /\ Len(new) = n + 1
          BY <2>5
        <5>2. k \in 2..(n + 1) /\ k # n + 1
          BY <3>2, <5>1
        <5>3. k \in 2..n /\ k \in 1..n
          BY <5>2
        <5> QED BY <5>1, <5>3
      <4> QED BY <2>3, <2>5, <4>1 DEF Within
    <3> QED BY <3>1, <3>2
  <2>7. DataInv(t)' /\ StackInv(t)'
    BY <1>2, <2>2, <2>5, <2>6 DEF DataInv, StackInv
  <2> QED BY <1>1, <2>1, <2>7
<1>8. CASE Return(t)
  <2>1. phase[t] = "wasm" /\ Chain(frames[t], call[t].sp) /\ Within(frames[t], call[t]) /\ Len(frames[t]) > 1
    BY <1>2, <1>8 DEF Return, StackInv
  <2>2. SameElsewhere /\ DOMAIN frames' = Thread
        /\ UNCHANGED <<call, storage, values, stackLimit, guard, regs, tls, cts, outcome, handlers, killed>>
    BY <1>2, <1>8 DEF Return, storeVars, Shape
  <2>3. CASE Len(frames[t]) = 2
    <3>1. phase'[t] = "returned" /\ failed' = failed \cup Fail(EnoughCapacity(t), "capacity")
      BY <1>2, <1>8, <2>3 DEF Return, Shape
    <3>2. EnoughCapacity(t)
      <4>1. PICK p \in Nat, r \in Nat : p = NParams[call[t].fn] /\ r = NResults[call[t].fn]
        BY <1>3, <2>1, CallsAssumption
      <4>2. Max({p, r}) >= r
        BY <4>1, MaxOfTwo
      <4> QED BY <1>2, <2>1, <4>1, <4>2 DEF EnoughCapacity, DataInv, ValuesVecSize
    <3>3. Global
      BY <1>2, <2>2, <3>1, <3>2 DEF Fail
    <3>4. DataInv(t)' /\ StackInv(t)'
      BY <1>2, <2>1, <2>2, <3>1 DEF DataInv, StackInv, Inside
    <3> QED BY <1>1, <2>2, <3>3, <3>4
  <2>4. CASE Len(frames[t]) # 2
    <3>1. frames'[t] = SubSeq(frames[t], 1, Len(frames[t]) - 1) /\ UNCHANGED <<phase, failed>>
      BY <1>2, <1>8, <2>4 DEF Return
    <3>2. PICK s : s = frames[t]
      OBVIOUS
    <3>3. s \in Seq(Frame) /\ Len(s) \in Nat /\ Len(s) > 2
      <4>1. s \in Seq(Frame) /\ Len(s) > 1 /\ Len(s) # 2
        BY <2>1, <2>4, <3>2 DEF Chain
      <4>2. Len(s) \in Nat
        BY <4>1
      <4>3. \A n \in Nat : n > 1 /\ n # 2 => n > 2
        OBVIOUS
      <4> QED BY <4>1, <4>2, <4>3, Zenon
    <3>4. PICK r : r = SubSeq(s, 1, Len(s) - 1)
      OBVIOUS
    <3>5. /\ r \in Seq(Frame) /\ Len(r) = Len(s) - 1 /\ Len(r) > 0
          /\ \A k \in 1..Len(r) : r[k] = s[k]
      BY <3>3, <3>4
    <3>6. \A k \in 1..Len(r) : k \in 1..Len(s)
      BY <3>3, <3>5
    <3>7. \A k \in 2..Len(r) : k \in 2..Len(s) /\ k \in 1..Len(r)
      BY <3>3, <3>5
    <3>8. Chain(r, call[t].sp) /\ Within(r, call[t])
      BY <2>1, <3>2, <3>5, <3>6, <3>7 DEF Chain, Within
    <3>9. DataInv(t)' /\ StackInv(t)'
      BY <1>2, <2>1, <2>2, <3>1, <3>2, <3>4, <3>8 DEF DataInv, StackInv
    <3> QED BY <1>1, <1>2, <2>2, <3>1, <3>9
  <2> QED BY <2>3, <2>4
<1>9. ASSUME NEW pc, NEW fp, NEW s, TrapHandler(t, pc, fp, s),
             pc = NoPc \/ pc.site = "guard page"
             \/ (phase[t] = "wasm" /\ Chain(s, call[t].sp) /\ Len(s) > 1
                 /\ pc.fn = s[Len(s)].fn /\ fp = s[Len(s)].fp)
      PROVE  FramesInv'
  <2>1. CASE ~Handled(t, pc) /\ killed' = TRUE /\ UNCHANGED <<cts, frames, phase, failed>>
    <3>1. UNCHANGED <<call, storage, values, stackLimit, guard, regs, tls, cts, frames, phase, outcome, handlers, failed>>
      BY <1>9, <2>1 DEF TrapHandler, storeVars
    <3>2. DataInv(t)' /\ StackInv(t)'
      BY <1>2, <3>1 DEF DataInv, StackInv
    <3> QED BY <1>1, <1>2, <2>1, <3>1, <3>2
  <2>2. CASE Handled(t, pc) /\ SetJitTrap(t, pc, fp, s) /\ UNCHANGED killed
    <3>1. pc.fn \in Func /\ pc.site \in TrapCode
      BY <2>2 DEF Handled
    <3>2. /\ phase[t] = "wasm" /\ Chain(s, call[t].sp) /\ Len(s) > 1
          /\ pc.fn = s[Len(s)].fn /\ fp = s[Len(s)].fp
      <4>1. pc # NoPc /\ pc.site # "guard page"
        <5>1. pc.fn # NoFunc /\ pc.site # "guard page"
          BY <3>1, CallsAssumption, Zenon
        <5>2. NoPc.fn = NoFunc
          BY DEF NoPc
        <5> QED BY <5>1, <5>2, Zenon
      <4> QED BY <1>9, <4>1
    <3>3. UNCHANGED <<call, storage, values, stackLimit, guard, regs, tls, outcome, handlers>>
      BY <1>9 DEF TrapHandler, storeVars
    <3>4. regs[t][cts[t].inst].entry_fp = call[t].sp - 1
      BY <1>2, <3>2 DEF ThreadInv, DataInv, Inside, Zero
    <3>5. Shows(Backtrace(t, pc, fp, s), s) /\ 0 \notin Range(Walked(t, fp, s))
      BY <1>3, <3>2, <3>4, BacktraceShows
    <3>6. SavedIsEmpty(t) /\ tls[t] = "self"
      BY <1>2, <3>2 DEF SavedIsEmpty, DataInv, ThreadInv, Inside
    <3>7. failed' = {}
      BY <1>2, <2>2, <3>5, <3>6 DEF SetJitTrap, Fail
    <3>8. /\ phase'[t] = "unwound" /\ frames'[t] = s /\ DOMAIN frames' = Thread
          /\ \A u \in Thread : u # t => phase'[u] = phase[u] /\ frames'[u] = frames[u]
      BY <1>2, <2>2 DEF SetJitTrap, Shape
    <3>9. /\ cts'[t].unwind = [trap |-> pc.site, backtrace |-> Backtrace(t, pc, fp, s)]
          /\ cts'[t].old = cts[t].old
          /\ \A u \in Thread : u # t => cts'[u] = cts[u]
      BY <1>2, <2>2 DEF SetJitTrap, Shape
    <3>10. DataInv(t)'
      <4>1. cts'[t].unwind.trap = pc.site
        BY <3>9
      <4>2. /\ storage'[t] = storage[t] /\ guard'[t] = guard[t] /\ outcome'[t] = outcome[t]
            /\ tls'[t] = tls[t] /\ call'[t] = call[t] /\ values'[t] = values[t]
            /\ stackLimit'[t] = stackLimit[t] /\ regs'[t] = regs[t] /\ cts'[t].old = cts[t].old
        BY <3>3, <3>9
      <4> QED BY <1>2, <3>1, <3>2, <3>8, <4>1, <4>2 DEF DataInv, Inside
    <3>11. StackInv(t)'
      <4>1. cts'[t].unwind.backtrace = Backtrace(t, pc, fp, s)
        <5>1. PICK b, u : b = Backtrace(t, pc, fp, s) /\ u = cts'[t].unwind
          OBVIOUS
        <5>2. u = [trap |-> pc.site, backtrace |-> b]
          BY <3>9, <5>1, Zenon
        <5>3. u.backtrace = b
          BY ONLY <5>2
        <5> QED BY <5>1, <5>3, Zenon
      <4>2. call'[t] = call[t]
        BY <3>3
      <4>3. Shows(cts'[t].unwind.backtrace, frames'[t]) /\ Chain(frames'[t], call'[t].sp)
        BY <3>2, <3>5, <3>8, <4>1, <4>2
      <4> QED BY <3>8, <4>3 DEF StackInv
    <3>12. SameElsewhere /\ Global
      BY <1>2, <2>2, <3>3, <3>7, <3>8, <3>9
    <3> QED BY <1>1, <3>10, <3>11, <3>12
  <2> QED BY <1>9, <2>1, <2>2 DEF TrapHandler
<1>10. ASSUME Leave(t), phase[t] \in {"returned", "unwound"},
              outcome' = [outcome EXCEPT ![t] = outcome'[t]],
              outcome'[t] \in {"none", "returned", "panicked"} \cup TrapCode,
              UNCHANGED storage \/ ReturnStorage(t)
       PROVE  FramesInv'
  <2>1. tls[t] = "self" /\ cts[t].old = Zero /\ guard[t] = 0
    BY <1>2, <1>10 DEF ThreadInv, Inside, DataInv
  <2>2. SameElsewhere /\ Global
    <3>1. /\ SameElsewhere
      BY <1>2, <1>10 DEF Leave, Pop, DropState, DropGuard, ReturnStorage, Shape
    <3>2. Global
      BY <1>2, <1>10, <2>1 DEF Leave, ReturnStorage, Fail
    <3> QED BY <3>1, <3>2
  <2>3. /\ phase'[t] = "idle" /\ values'[t] = 0 /\ guard'[t] = 0 /\ tls'[t] = "null" /\ storage'[t] = 0
        /\ cts'[t].old = cts[t].old /\ cts'[t].unwind = Unset
    <3>1. storage'[t] = 0 /\ tls'[t] = "null"
      BY <1>2, <1>10 DEF Leave, Pop, ReturnStorage, Shape, DataInv
    <3>2. phase'[t] = "idle" /\ values'[t] = 0 /\ guard'[t] = 0
      BY <1>2, <1>10 DEF Leave, DropGuard, Shape
    <3>3. cts'[t].old = cts[t].old /\ cts'[t].unwind = Unset
      <4>1. cts' = [cts EXCEPT ![t].unwind = Unset]
        BY <1>10 DEF Leave
      <4>2. DOMAIN cts = Thread /\ DOMAIN cts[t] = {"inst", "old", "unwind"}
        BY <1>2 DEF Shape
      <4> QED BY <4>1, <4>2
    <3> QED BY <3>1, <3>2, <3>3
  <2>4. DataInv(t)' /\ StackInv(t)'
    BY <1>10, <2>1, <2>3 DEF DataInv, StackInv, Inside, Unset
  <2> QED BY <1>1, <2>2, <2>4
<1>11. CASE HostStep(t)
  <2>1. CASE LeaveReturned(t)
    <3>1. PICK how \in {"returned", "panicked"} : outcome' = [outcome EXCEPT ![t] = how]
      BY <2>1 DEF LeaveReturned
    <3>2. outcome'[t] = how
      BY <1>2, <3>1 DEF Shape
    <3> QED BY <1>10, <2>1, <3>1, <3>2 DEF LeaveReturned
  <2>2. CASE LeaveUnwound(t)
    <3>1. outcome' = [outcome EXCEPT ![t] = cts[t].unwind.trap] /\ phase[t] = "unwound"
      BY <2>2 DEF LeaveUnwound, ReadUnwind
    <3>2. outcome'[t] = cts[t].unwind.trap /\ cts[t].unwind.trap \in TrapCode
      BY <1>2, <3>1 DEF Shape, ThreadInv
    <3> QED BY <1>10, <2>2, <3>1, <3>2 DEF LeaveUnwound
  <2> QED BY <1>5, <1>6, <1>11, <2>1, <2>2 DEF HostStep
<1>12. CASE WasmStep(t)
  <2>1. ASSUME phase[t] = "wasm"
        PROVE  Chain(frames[t], call[t].sp) /\ call[t].sp \in Nat
    BY <1>2, <1>3, <2>1 DEF StackInv
  <2>2. ASSUME NEW c \in TrapCode, TrapSite(t, c) PROVE FramesInv'
    <3> DEFINE pc == [fn |-> Top(t).fn, site |-> c]
    <3>1. /\ phase[t] = "wasm" /\ Len(frames[t]) > 1
          /\ TrapHandler(t, pc, Top(t).fp, frames[t])
      BY <2>2 DEF TrapSite
    <3>2. pc.fn = frames[t][Len(frames[t])].fn /\ Top(t).fp = frames[t][Len(frames[t])].fp
      BY DEF Top
    <3> HIDE DEF pc
    <3> QED BY <1>9, <2>1, <3>1, <3>2
  <2>3. ASSUME NEW f \in Func, Overflow(t, f) PROVE FramesInv'
    <3> DEFINE site == IF NextFp(t) < StackEnd THEN "guard page" ELSE "overflow"
               pc == [fn |-> f, site |-> site]
               s == Append(frames[t], [fn |-> f, fp |-> NextFp(t)])
    <3>1. phase[t] = "wasm" /\ TrapHandler(t, pc, NextFp(t), s)
      BY <2>3 DEF Overflow
    <3>2. NextFp(t) = frames[t][Len(frames[t])].fp - 1
      BY DEF NextFp, Top
    <3>3. /\ NextFp(t) \in Int /\ Len(s) > 1
          /\ s[Len(s)].fn = f /\ s[Len(s)].fp = NextFp(t)
          /\ NextFp(t) >= StackEnd => Chain(s, call[t].sp)
      <4>1. Len(frames[t]) > 0
        BY <2>1, <3>1 DEF Chain
      <4>2. /\ NextFp(t) \in Int /\ Len(s) = Len(frames[t]) + 1 /\ Len(frames[t]) \in Nat
            /\ s[Len(s)].fn = f /\ s[Len(s)].fp = NextFp(t)
            /\ NextFp(t) >= StackEnd => Chain(s, call[t].sp)
        <5>1. Chain(frames[t], call[t].sp) /\ call[t].sp \in Nat
          BY <2>1, <3>1
        <5>2. PICK g, fp, sp : g = frames[t] /\ fp = NextFp(t) /\ sp = call[t].sp
          OBVIOUS
        <5>3. sp \in Nat /\ Chain(g, sp) /\ fp = g[Len(g)].fp - 1
          BY <3>2, <5>1, <5>2
        <5>4. PICK x : x = Append(g, [fn |-> f, fp |-> fp])
          OBVIOUS
        <5>5. Grown(g, f, fp, sp, x)
          BY <5>3, <5>4, ChainGrows
        <5>6. Grown(frames[t], f, NextFp(t), call[t].sp, s)
          BY <5>2, <5>4, <5>5
        <5> HIDE DEF s
        <5> QED BY <5>6 DEF Grown
      <4> HIDE DEF s
      <4>3. PICK n \in Nat : n = Len(frames[t])
        BY <4>2
      <4>4. Len(s) = n + 1 /\ n > 0
        BY <4>1, <4>2, <4>3
      <4> QED BY <4>2, <4>4, SMTT(60)
    <3>4. pc.fn = f /\ (NextFp(t) < StackEnd => pc.site = "guard page")
      OBVIOUS
    <3>5. NextFp(t) < StackEnd \/ NextFp(t) >= StackEnd
      BY <3>3 DEF StackEnd
    <3> HIDE DEF pc, s
    <3> QED BY <1>9, <3>1, <3>3, <3>4, <3>5
  <2> QED BY <1>7, <1>8, <1>12, <2>2, <2>3 DEF WasmStep
<1>13. CASE NewCall(t)
  <2>1. ASSUME NEW f \in Func, NEW sp \in HostSp, NEW extra \in 0..1,
               CallUnchecked(t, f, sp, NResults[f] + extra)
        PROVE  FramesInv'
    <3>1. NResults[f] + extra \in Nat
      <4>1. NResults[f] \in Nat
        BY CallsAssumption, Zenon
      <4> QED BY <4>1
    <3> QED BY <1>4, <2>1, <3>1
  <2>2. CASE HostFault(t)
    BY <1>9, <2>2 DEF HostFault
  <2> QED BY <1>13, <2>1, <2>2 DEF NewCall
<1> QED BY <1>11, <1>12, <1>13

\* The invariant of stacks and stores holds throughout every run.
THEOREM FramesInvariance == SafetySpec => []FramesInv
<1>1. Init => FramesInv
  <2> SUFFICES ASSUME Init, NEW t \in Thread PROVE DataInv(t) /\ StackInv(t)
    BY DEF Init, FramesInv
  <2>1. /\ phase[t] = "idle" /\ storage[t] = 0 /\ values[t] = 0 /\ guard[t] = 0
        /\ tls[t] = "none" /\ outcome[t] = "none"
        /\ cts[t] = [inst |-> "none", old |-> Zero, unwind |-> Unset]
    BY DEF Init
  <2>2. cts[t].old = Zero /\ cts[t].unwind.trap = NoTrap
    BY <2>1 DEF Unset
  <2> QED BY <2>1, <2>2 DEF DataInv, StackInv, Inside
<1>2. CallInv /\ FramesInv /\ [Next]_vars => FramesInv'
  <2> SUFFICES ASSUME CallInv, FramesInv, [Next]_vars PROVE FramesInv'
    OBVIOUS
  <2>1. CASE Next
    BY <2>1, StepFramesInv DEF Next
  <2>2. CASE UNCHANGED vars
    BY <2>2 DEF vars, storeVars, FramesInv, DataInv, StackInv
  <2> QED BY <2>1, <2>2
<1> QED BY <1>1, <1>2, CallInvariance, PTL DEF SafetySpec

\* The prologue's comparison with the limit of the function's own context keeps
\* all frames of the entered instance within MAX_WASM_STACK of the caller, also
\* when frames of other instances lie between them.
THEOREM EnteredStackIsBounded == SafetySpec => []EnteredStackBounded
<1>1. FramesInv => EnteredStackBounded
  BY DEF FramesInv, StackInv, Within, EnteredStackBounded
<1> QED BY <1>1, FramesInvariance, PTL

\* The assertions of func.rs and of the trap handling hold in every run.
THEOREM AllAssertionsHold == SafetySpec => []AssertionsHold
<1>1. FramesInv => AssertionsHold
  BY DEF FramesInv, AssertionsHold
<1> QED BY <1>1, FramesInvariance, PTL

\* The backtrace a trap leaves in the CallThreadState is the stack of wasm frames at
\* the fault, whatever instances, recursion and depth.
THEOREM BacktracesAreExact == SafetySpec => []BacktraceExact
<1>1. FramesInv => BacktraceExact
  BY DEF FramesInv, StackInv, Shows, BacktraceExact
<1> QED BY <1>1, FramesInvariance, PTL

\* The variables are maps over threads and instances.
Maps ==
  /\ storage = [t \in Thread |-> storage[t]] /\ values = [t \in Thread |-> values[t]]
  /\ guard = [t \in Thread |-> guard[t]] /\ tls = [t \in Thread |-> tls[t]]
  /\ outcome = [t \in Thread |-> outcome[t]]
  /\ stackLimit \in [Thread -> [Inst -> Nat]] /\ regs \in [Thread -> [Inst -> Registers]]

\* Type correctness of the state of calls.
THEOREM CallsTypeCorrect == SafetySpec => []TypeOK
<1>1. Init => Maps
  BY DEF Init, Maps, Registers, Zero
<1>2. CallInv /\ FramesInv /\ Maps /\ [Next]_vars => Maps'
  <2> SUFFICES ASSUME CallInv, FramesInv, Maps, [Next]_vars PROVE Maps'
    OBVIOUS
  <2>1. CASE UNCHANGED vars
    BY <2>1 DEF vars, storeVars, Maps
  <2>2. ASSUME NEW t \in Thread, NEW f \in Func, NEW sp \in HostSp, NEW room, CallUnchecked(t, f, sp, room)
        PROVE  Maps'
    <3>1. sp \in Nat /\ MaxWasmStack \in Nat /\ sp > MaxWasmStack /\ Home[f] \in Inst
      BY CallsAssumption, Zenon
    <3>2. stackLimit' \in [Thread -> [Inst -> Nat]]
      <4>1. PICK x \in Nat, h \in Inst : x = sp - MaxWasmStack /\ h = Home[f]
        BY <3>1
      <4>2. stackLimit' = [stackLimit EXCEPT ![t][h] = x]
        BY <2>2, <4>1 DEF CallUnchecked, EnterWasm
      <4> QED BY <4>2, Zenon DEF Maps
    <3> QED BY <2>2, <3>2 DEF Maps, CallUnchecked, EnterWasm
  <2>3. ASSUME NEW t \in Thread, CatchTraps(t) PROVE Maps'
    <3>1. phase[t] = "ready"
      BY <2>3 DEF CatchTraps
    <3>2. call[t].sp \in HostSp
      BY <3>1 DEF FramesInv, DataInv
    <3>3. call[t].sp \in Nat /\ call[t].sp > MaxWasmStack /\ MaxWasmStack \in Nat
      BY <3>2, CallsAssumption, Zenon
    <3>4. call[t].sp - 1 \in Nat
      BY <3>3
    <3>5. regs' \in [Thread -> [Inst -> Registers]]
      <4>1. PICK x, h : x \in Nat /\ x = call[t].sp - 1 /\ h = Home[call[t].fn]
        BY <3>4
      <4>2. regs' = [regs EXCEPT ![t][h].entry_fp = x]
        BY <2>3, <4>1 DEF CatchTraps, Trampoline
      <4>3. h \in Inst => [regs[t][h] EXCEPT !.entry_fp = x] \in Registers
        <5>1. \A r \in Registers : [r EXCEPT !.entry_fp = x] \in Registers
          BY <4>1 DEF Registers
        <5>2. h \in Inst => regs[t][h] \in Registers
          BY Zenon DEF Maps
        <5> QED BY <5>1, <5>2, Zenon
      <4>4. regs' = [regs EXCEPT ![t][h] = [regs[t][h] EXCEPT !.entry_fp = x]]
        BY <4>2
      <4> QED BY <4>3, <4>4 DEF Maps
    <3> QED BY <2>3, <3>5 DEF Maps, CatchTraps, Push
  <2>4. ASSUME NEW t \in Thread, Leave(t), NEW o, outcome' = [outcome EXCEPT ![t] = o],
               UNCHANGED storage \/ ReturnStorage(t)
        PROVE  Maps'
    <3>1. cts[t].old = Zero /\ guard[t] = 0 /\ Zero \in Registers
      BY DEF FramesInv, DataInv, Zero, Registers
    <3>2. /\ storage' = [u \in Thread |-> storage'[u]] /\ values' = [u \in Thread |-> values'[u]]
          /\ guard' = [u \in Thread |-> guard'[u]] /\ tls' = [u \in Thread |-> tls'[u]]
          /\ outcome' = [u \in Thread |-> outcome'[u]]
      BY <2>4 DEF Maps, Leave, Pop, DropGuard, ReturnStorage
    <3>3. stackLimit' \in [Thread -> [Inst -> Nat]]
      <4>1. PICK x, h : x \in Nat /\ x = guard[t] /\ h = Home[call[t].fn]
        BY <3>1
      <4>2. stackLimit' = [stackLimit EXCEPT ![t][h] = x]
        BY <2>4, <4>1 DEF Leave, DropGuard
      <4> QED BY <4>1, <4>2, Zenon DEF Maps
    <3>4. regs' \in [Thread -> [Inst -> Registers]]
      BY <2>4, <3>1 DEF Maps, Leave, DropState
    <3> QED BY <3>2, <3>3, <3>4 DEF Maps
  <2>5. ASSUME UNCHANGED <<storage, values, storeVars, tls, outcome>> PROVE Maps'
    BY <2>5 DEF Maps, storeVars
  <2>6. ASSUME NEW t \in Thread, HostStep(t) PROVE Maps'
    <3>1. CASE LeaveReturned(t) \/ LeaveUnwound(t)
      BY <2>4, <2>6, <3>1 DEF LeaveReturned, LeaveUnwound
    <3>2. CASE BeginInstall(t) \/ EndInstall(t) \/ FindInstalled(t)
      BY <2>5, <3>2 DEF BeginInstall, EndInstall, FindInstalled
    <3> QED BY <2>3, <2>6, <3>1, <3>2 DEF HostStep
  <2>7. ASSUME NEW t \in Thread, WasmStep(t) PROVE Maps'
    BY <2>5, <2>7 DEF WasmStep, PushFrame, Overflow, Return, TrapSite, TrapHandler
  <2>8. ASSUME NEW t \in Thread, NewCall(t) PROVE Maps'
    BY <2>2, <2>5, <2>8 DEF NewCall, HostFault, TrapHandler
  <2> QED BY <2>1, <2>6, <2>7, <2>8 DEF Next
<1>3. CallInv /\ FramesInv /\ Maps => TypeOK
  <2> SUFFICES ASSUME CallInv, FramesInv, Maps PROVE TypeOK
    OBVIOUS
  <2>1. ASSUME NEW t \in Thread
        PROVE  /\ call[t].fn \in Func \cup {NoFunc} /\ call[t].sp \in Nat /\ call[t].room \in Nat
               /\ cts[t].old \in Registers /\ cts[t].unwind.trap \in TrapCode \cup {NoTrap}
               /\ storage[t] \in Nat /\ values[t] \in Nat /\ guard[t] \in Nat
               /\ tls[t] \in {"none", "null", "self"}
               /\ outcome[t] \in {"none", "returned", "panicked"} \cup TrapCode
    <3>1. ThreadInv(t) /\ DataInv(t) /\ Zero \in Registers
      BY DEF CallInv, FramesInv, Zero, Registers
    <3>2. CASE phase[t] = "idle"
      BY <3>1, <3>2 DEF ThreadInv, DataInv, NoCall
    <3>3. CASE phase[t] # "idle"
      <4>1. /\ call[t].fn \in Func /\ call[t].sp \in HostSp /\ call[t].room \in Nat
            /\ values[t] = ValuesVecSize(call[t].fn)
            /\ stackLimit[t][Home[call[t].fn]] = call[t].sp - MaxWasmStack
        BY <3>1, <3>3 DEF ThreadInv, DataInv
      <4>2. /\ call[t].sp \in Nat /\ MaxWasmStack \in Nat /\ call[t].sp > MaxWasmStack
            /\ NParams[call[t].fn] \in Nat /\ NResults[call[t].fn] \in Nat
        BY <4>1, CallsAssumption, Zenon
      <4>3. values[t] \in Nat
        BY <4>1, <4>2, MaxOfTwo DEF ValuesVecSize
      <4> QED BY <3>1, <4>1, <4>2, <4>3 DEF DataInv
    <3> QED BY <3>2, <3>3
  <2>2. Shape /\ DOMAIN storage = Thread /\ DOMAIN values = Thread
        /\ handlers \in {"unset", "running", "complete"} /\ killed \in BOOLEAN
    BY DEF CallInv, FramesInv
  <2>3. /\ storage \in [Thread -> Nat] /\ values \in [Thread -> Nat] /\ guard \in [Thread -> Nat]
        /\ tls \in [Thread -> {"none", "null", "self"}]
        /\ outcome \in [Thread -> {"none", "returned", "panicked"} \cup TrapCode]
    BY <2>1 DEF Maps
  <2> QED BY <2>1, <2>2, <2>3 DEF TypeOK, Shape, Maps
<1> QED BY <1>1, <1>2, <1>3, CallInvariance, FramesInvariance, PTL DEF SafetySpec

-----------------------------------------------------------------------------
(* The code implements the host's view of a call.                           *)

\* Every step of the code is a step of HostCall, or leaves its view of the call
\* alone: fault, signal handler and jump together are one Raise, the way out one
\* Return or Report.
LEMMA StepImplements ==
  ASSUME CallInv, [Next]_vars
  PROVE  [Abstract!Next]_(Abstract!vars)
<1>1. CASE UNCHANGED vars
  BY <1>1 DEF vars, Abstract!vars, storeVars
<1>2. ASSUME NEW t \in Thread, HostStep(t) \/ WasmStep(t) \/ NewCall(t)
      PROVE  [Abstract!Next]_(Abstract!vars)
  <2>1. ASSUME NEW f \in Func, NEW sp, NEW room, CallUnchecked(t, f, sp, room) PROVE Abstract!Call(t, f)
    <3>1. call[t].fn = NoFunc /\ DOMAIN call = Thread /\ DOMAIN phase = Thread
      <4>1. phase[t] = "idle" /\ ThreadInv(t)
        BY <2>1 DEF CallUnchecked, EnterWasm, CallInv
      <4>2. call[t] = NoCall
        BY <4>1 DEF ThreadInv
      <4>3. DOMAIN call = Thread /\ DOMAIN phase = Thread
        BY DEF CallInv, Shape
      <4> QED BY <4>2, <4>3, SMTT(30) DEF NoCall
    <3> QED BY <2>1, <3>1 DEF CallUnchecked, EnterWasm, Abstract!Call
  <2>2. ASSUME NEW pc, NEW fp, NEW s, phase[t] = "wasm" \/ pc = NoPc, TrapHandler(t, pc, fp, s)
        PROVE  [Abstract!Next]_(Abstract!vars)
    <3>1. CASE Handled(t, pc) /\ SetJitTrap(t, pc, fp, s)
      <4>1. phase[t] = "wasm" /\ pc.site \in TrapCode /\ call[t].fn # NoFunc
        <5>1. pc.fn \in Func /\ pc.site \in TrapCode
          BY <3>1 DEF Handled
        <5>2. pc # NoPc
          <6>1. pc.fn # NoFunc /\ NoPc.fn = NoFunc
            BY <5>1, CallsAssumption, Zenon DEF NoPc
          <6> QED BY <6>1, Zenon
        <5>3. phase[t] = "wasm"
          BY <2>2, <5>2
        <5>4. ThreadInv(t)
          BY DEF CallInv
        <5>5. call[t].fn \in Func
          BY <5>3, <5>4 DEF ThreadInv
        <5> QED BY <5>1, <5>3, <5>5, CallsAssumption
      <4>2. cts'[t].unwind.trap = pc.site /\ \A u \in Thread : u # t => cts'[u] = cts[u]
        BY <3>1 DEF SetJitTrap, CallInv, Shape
      <4>3. phase' = [phase EXCEPT ![t] = "unwound"] /\ DOMAIN phase = Thread
        BY <3>1 DEF SetJitTrap, CallInv, Shape
      <4>4. UNCHANGED <<call, outcome>>
        BY <2>2 DEF TrapHandler
      <4>5. Abstract!Raise(t, pc.site)
        BY <4>1, <4>2, <4>3, <4>4 DEF Abstract!Raise
      <4> QED BY <4>1, <4>5 DEF Abstract!Next
    <3>2. CASE UNCHANGED <<cts, frames, phase, failed>>
      BY <2>2, <3>2 DEF TrapHandler, Abstract!vars
    <3> QED BY <2>2, <3>1, <3>2 DEF TrapHandler
  <2>3. CASE LeaveReturned(t)
    <3>1. call[t].fn # NoFunc /\ phase[t] = "returned"
      BY <2>3, CallsAssumption DEF LeaveReturned, CallInv, ThreadInv
    <3>2. PICK how \in {"returned", "panicked"} : outcome' = [outcome EXCEPT ![t] = how]
      BY <2>3 DEF LeaveReturned
    <3>3. /\ phase' = [phase EXCEPT ![t] = "idle"] /\ call' = [call EXCEPT ![t] = NoCall]
          /\ \A u \in Thread : u # t => cts'[u] = cts[u]
      BY <2>3 DEF LeaveReturned, Leave, Pop, DropState, DropGuard, CallInv, Shape
    <3>4. DOMAIN phase = Thread /\ DOMAIN call = Thread
      BY DEF CallInv, Shape
    <3>5. Abstract!Return(t, how)
      BY <3>1, <3>2, <3>3, <3>4 DEF Abstract!Return, NoCall
    <3> QED BY <3>5 DEF Abstract!Next
  <2>4. CASE LeaveUnwound(t)
    <3>1. cts[t].unwind.trap \in TrapCode /\ phase[t] = "unwound"
      BY <2>4 DEF LeaveUnwound, ReadUnwind, CallInv, ThreadInv
    <3>2. /\ phase' = [phase EXCEPT ![t] = "idle"] /\ call' = [call EXCEPT ![t] = NoCall]
          /\ outcome' = [outcome EXCEPT ![t] = cts[t].unwind.trap]
          /\ \A u \in Thread : u # t => cts'[u] = cts[u]
      BY <2>4 DEF LeaveUnwound, ReadUnwind, Leave, Pop, DropState, DropGuard, CallInv, Shape
    <3>3. DOMAIN phase = Thread /\ DOMAIN call = Thread
      BY DEF CallInv, Shape
    <3>4. Abstract!Report(t)
      BY <3>1, <3>2, <3>3, CallsAssumption DEF Abstract!Report, NoCall
    <3> QED BY <3>4 DEF Abstract!Next
  <2>5. ASSUME BeginInstall(t) \/ EndInstall(t) \/ FindInstalled(t) \/ CatchTraps(t)
               \/ Return(t) \/ \E f \in Func : PushFrame(t, f)
        PROVE  UNCHANGED (Abstract!vars)
    <3>1. call' = call /\ outcome' = outcome
      BY <2>5 DEF BeginInstall, EndInstall, FindInstalled, CatchTraps, Trampoline, Push, Return, PushFrame
    <3>2. /\ \A u \in Thread : u # t => phase'[u] = phase[u] /\ cts'[u] = cts[u]
          /\ phase[t] # "unwound" /\ phase'[t] # "unwound"
      BY <2>5 DEF BeginInstall, EndInstall, FindInstalled, CatchTraps, Trampoline, Push, Return, PushFrame, CallInv, Shape
    <3> QED BY <3>1, <3>2 DEF Abstract!vars
  <2>6. CASE HostStep(t)
    BY <2>6, <2>3, <2>4, <2>5 DEF HostStep
  <2>7. CASE WasmStep(t)
    BY <2>7, <2>2, <2>5 DEF WasmStep, TrapSite, Overflow
  <2>8. CASE NewCall(t)
    BY <2>8, <2>1, <2>2 DEF NewCall, HostFault, Abstract!Next
  <2> QED BY <1>2, <2>6, <2>7, <2>8
<1> QED BY <1>1, <1>2 DEF Next

\* A call ends with exactly what happened in it: the results, or the one trap it
\* raised, whatever threads, instances and earlier calls there were.
THEOREM CallsImplementHostCall == SafetySpec => ImplementsHostCall
<1>1. Init => Abstract!Init
  BY DEF Init, Abstract!Init, NoCall
<1>2. CallInv /\ [Next]_vars => [Abstract!Next]_(Abstract!vars)
  BY StepImplements
<1> QED BY <1>1, <1>2, CallInvariance, PTL DEF SafetySpec, ImplementsHostCall, Abstract!Safety
=============================================================================
