------------------------------- MODULE Calls -------------------------------
(***************************************************************************)
(* Calls from host threads into compiled code, and the traps that end them *)
(* (src/src/func.rs, placeholder/trap_handling/, placeholder/signals.rs).  *)
(*                                                                         *)
(* A thread owns a store with its own instances.  A call replaces the      *)
(* stack limit of the entered instance, installs the signal handlers once  *)
(* per process, saves three registers of the instance's context, pushes a  *)
(* CallThreadState on the thread-local chain and runs a trampoline, which  *)
(* records its frame pointer in the context.  A fault in compiled code     *)
(* reaches trap_handler, which writes the reason into that state and jumps *)
(* back.  On every way out all of this has to be undone.                   *)
(*                                                                         *)
(* Compiled code cannot call back into the host (there are no host         *)
(* functions, and no builtin that is not a todo!), so a thread has at most *)
(* one CallThreadState.  Frame pointers are counted in frames, downwards.  *)
(***************************************************************************)
EXTENDS Naturals, Sequences, FiniteSetsExt, Functions

CONSTANTS
  Thread,
  Inst,          \* the instances of every thread's store
  Func,          \* functions, by name
  Home,          \* Home[f]: the instance that defines f (VMFuncRef.vmctx)
  Callees,       \* Callees[f]: functions the body of f may call
  Traps,         \* Traps[f]: trap codes of the trap sites in f
  NParams, NResults,
  HostSp,        \* stack pointers at which the host makes calls
  MaxWasmStack,  \* MAX_WASM_STACK, in frames
  NoFunc, NoTrap

\* A frame pointer below StackEnd is in the guard page of the native stack.
StackEnd == 1

TrapCode == {"overflow"} \cup UNION {Traps[f] : f \in Func}

ASSUME CallsAssumption ==
  /\ Home \in [Func -> Inst]
  /\ Callees \in [Func -> SUBSET Func]
  /\ Traps \in [Func -> SUBSET STRING]
  /\ NParams \in [Func -> Nat] /\ NResults \in [Func -> Nat]
  /\ MaxWasmStack \in Nat
  /\ HostSp \subseteq Nat /\ \A sp \in HostSp : sp > MaxWasmStack
  /\ NoFunc \notin Func /\ NoTrap \notin TrapCode
  /\ TrapCode \cap {"none", "returned", "panicked"} = {} /\ "guard page" \notin TrapCode

VARIABLES
  phase,      \* per thread: where in Func::call_unchecked it is
  call,       \* ... the call: function, stack pointer, room in `results`
  storage,    \* ... length of the store's wasm_vmval_storage
  values,     \* ... length of the values_vec of the call
  stackLimit, \* per thread and instance: stack_limit of the context
  guard,      \* per thread: prev_stack of the WasmExecutionGuard
  regs,       \* per thread and instance: last_wasm_exit_pc, _exit_fp, _entry_fp
  tls,        \* per thread: TLS, "none", "null" or "self"
  cts,        \* ... the CallThreadState
  frames,     \* ... the stack: the trampoline's frame, then those of wasm
  outcome,    \* ... what the last call told the host, while none is running
  handlers,   \* the Once that installs the signal handlers
  killed,     \* a fault was not handled: the default action ends the process
  failed      \* assertions of the code that did not hold

storeVars == <<stackLimit, guard, regs>>
vars == <<phase, call, storage, values, storeVars, tls, cts, frames, outcome,
          handlers, killed, failed>>

NoPc  == [fn |-> NoFunc, site |-> "none"]
Zero  == [exit_pc |-> NoPc, exit_fp |-> 0, entry_fp |-> 0]
NoCall == [fn |-> NoFunc, sp |-> 0, room |-> 0]
Unset == [trap |-> NoTrap, backtrace |-> <<>>]

\* CallThreadState::new: a fresh state holds the registers it finds.
NewState(i, r) == [inst |-> i, old |-> r, unwind |-> Unset]

Init ==
  /\ phase = [t \in Thread |-> "idle"]
  /\ call = [t \in Thread |-> NoCall]
  /\ storage = [t \in Thread |-> 0]
  /\ values = [t \in Thread |-> 0]
  /\ stackLimit = [t \in Thread |-> [i \in Inst |-> 0]]
  /\ guard = [t \in Thread |-> 0]
  /\ regs = [t \in Thread |-> [i \in Inst |-> Zero]]
  /\ tls = [t \in Thread |-> "none"]
  /\ cts = [t \in Thread |-> [inst |-> "none", old |-> Zero, unwind |-> Unset]]
  /\ frames = [t \in Thread |-> <<>>]
  /\ outcome = [t \in Thread |-> "none"]
  /\ handlers = "unset"
  /\ killed = FALSE
  /\ failed = {}

Fail(ok, what) == IF ok THEN {} ELSE {what}

-----------------------------------------------------------------------------
(* The way in.                                                              *)

ValuesVecSize(f) == Max({NParams[f], NResults[f]})

EnterWasm_Twice(t, i, sp) ==
  /\ guard' = [guard EXCEPT ![t] = stackLimit[t][i]]
  /\ stackLimit' = [stackLimit EXCEPT ![t][i] = sp - MaxWasmStack - MaxWasmStack]

\* enter_wasm: the entered instance gets its limit, the guard keeps the old one.
EnterWasm(t, i, sp) ==
  /\ guard' = [guard EXCEPT ![t] = stackLimit[t][i]]
  /\ stackLimit' = [stackLimit EXCEPT ![t][i] = sp - MaxWasmStack]

\* call_unchecked: the values are taken out of the store, and wasm is entered.
CallUnchecked(t, f, sp, room) ==
  /\ phase[t] = "idle"
  /\ phase' = [phase EXCEPT ![t] = "entering"]
  /\ call' = [call EXCEPT ![t] = [fn |-> f, sp |-> sp, room |-> room]]
  /\ failed' = failed \cup Fail(storage[t] = 0, "storage is empty")
  /\ storage' = [storage EXCEPT ![t] = 0]
  /\ values' = [values EXCEPT ![t] = ValuesVecSize(f)]
  /\ EnterWasm(t, Home[f], sp)
  /\ outcome' = [outcome EXCEPT ![t] = "none"]
  /\ UNCHANGED <<regs, tls, cts, frames, handlers, killed>>

\* ensure_signal_handlers_are_registered: the first caller installs them, the
\* others spin until it has, or find them installed.
BeginInstall(t) ==
  /\ phase[t] = "entering" /\ handlers = "unset"
  /\ phase' = [phase EXCEPT ![t] = "installing"]
  /\ handlers' = "running"
  /\ UNCHANGED <<call, storage, values, storeVars, tls, cts, frames, outcome, killed, failed>>

EndInstall(t) ==
  /\ phase[t] = "installing"
  /\ phase' = [phase EXCEPT ![t] = "ready"]
  /\ handlers' = "complete"
  /\ UNCHANGED <<call, storage, values, storeVars, tls, cts, frames, outcome, killed, failed>>

FindInstalled_Begun(t) ==
  /\ phase[t] = "entering" /\ handlers # "unset"
  /\ phase' = [phase EXCEPT ![t] = "ready"]
  /\ UNCHANGED <<call, storage, values, storeVars, tls, cts, frames, outcome, handlers, killed, failed>>

FindInstalled_CalledBefore(t) ==
  /\ phase[t] = "entering" /\ handlers = "complete" /\ tls[t] # "none"
  /\ phase' = [phase EXCEPT ![t] = "ready"]
  /\ UNCHANGED <<call, storage, values, storeVars, tls, cts, frames, outcome, handlers, killed, failed>>

FindInstalled(t) ==
  /\ phase[t] = "entering" /\ handlers = "complete"
  /\ phase' = [phase EXCEPT ![t] = "ready"]
  /\ UNCHANGED <<call, storage, values, storeVars, tls, cts, frames, outcome, handlers, killed, failed>>

\* CallThreadState::push
Push(t) == tls' = [tls EXCEPT ![t] = "self"]

\* The array-to-wasm trampoline stores its frame pointer into the context it is
\* given before it calls the function.
Trampoline(t, i, fp) ==
  /\ frames' = [frames EXCEPT ![t] = <<[fn |-> NoFunc, fp |-> fp]>>]
  /\ regs' = [regs EXCEPT ![t][i].entry_fp = fp]

\* catch_traps: a fresh state is pushed and the trampoline called.
CatchTraps(t) ==
  LET i == Home[call[t].fn]
  IN /\ phase[t] = "ready"
     /\ phase' = [phase EXCEPT ![t] = "wasm"]
     /\ cts' = [cts EXCEPT ![t] = NewState(i, regs[t][i])]
     /\ Push(t)
     /\ Trampoline(t, i, call[t].sp - 1)
     /\ UNCHANGED <<call, storage, values, stackLimit, guard, outcome, handlers, killed, failed>>

-----------------------------------------------------------------------------
(* Compiled code.                                                           *)

Top(t) == frames[t][Len(frames[t])]

\* The frame pointer of the next frame, and what may run in it.
NextFp(t) == Top(t).fp - 1
Callable(t) == IF Len(frames[t]) = 1 THEN {call[t].fn} ELSE Callees[Top(t).fn]

\* The prologue of a compiled function compares with the limit of its own context.
WithinLimit_Caller(t, f) == Top(t).fp >= stackLimit[t][Home[f]]
WithinLimit(t, f) == NextFp(t) >= stackLimit[t][Home[f]]

PushFrame(t, f) ==
  /\ phase[t] = "wasm" /\ f \in Callable(t)
  /\ NextFp(t) >= StackEnd /\ WithinLimit(t, f)
  /\ frames' = [frames EXCEPT ![t] = Append(@, [fn |-> f, fp |-> NextFp(t)])]
  /\ UNCHANGED <<phase, call, storage, values, storeVars, tls, cts, outcome, handlers, killed, failed>>

\* store_values_to_array asserts that the values have room for the results.
EnoughCapacity(t) == values[t] >= NResults[call[t].fn]

\* A return; the last one runs the rest of the trampoline, which writes the
\* results to the values, and comes back to catch_traps.
Return(t) ==
  /\ phase[t] = "wasm" /\ Len(frames[t]) > 1
  /\ IF Len(frames[t]) = 2
       THEN /\ frames' = [frames EXCEPT ![t] = <<>>]
            /\ phase' = [phase EXCEPT ![t] = "returned"]
            /\ failed' = failed \cup Fail(EnoughCapacity(t), "capacity")
       ELSE /\ frames' = [frames EXCEPT ![t] = SubSeq(@, 1, Len(@) - 1)]
            /\ UNCHANGED <<phase, failed>>
  /\ UNCHANGED <<call, storage, values, storeVars, tls, cts, outcome, handlers, killed>>

-----------------------------------------------------------------------------
(* Traps.                                                                   *)

\* The frame record at fp: the caller's frame pointer and the return address.
FrameAt(s, fp) == CHOOSE k \in DOMAIN s : s[k].fp = fp
OlderFp(s, fp) == s[FrameAt(s, fp) - 1].fp
OlderPc(s, fp) == [fn |-> s[FrameAt(s, fp) - 1].fn, site |-> "call"]

\* trace_through_wasm: the walk over the frame pointers up to the trampoline's;
\* it ends in 0 when it meets one that is no frame of wasm below the trampoline,
\* which the code asserts never happens.
TraceThroughWasm(s, fp0, trampoline) ==
  LET walk[fp \in Nat] ==
        IF fp = trampoline THEN <<>>
        ELSE IF fp < trampoline /\ \E k \in 2..Len(s) : s[k].fp = fp
               THEN <<fp>> \o walk[OlderFp(s, fp)]
        ELSE <<0>>
  IN walk[fp0]

\* trace_with_trap_state: the activation that faulted, up to the entry frame
\* pointer in the context that the call entered.
Walked_FromCaller(t, fp, s) ==
  TraceThroughWasm(s, OlderFp(s, fp), regs[t][cts[t].inst].entry_fp)
Walked(t, fp, s) == TraceThroughWasm(s, fp, regs[t][cts[t].inst].entry_fp)

\* Every frame but the innermost is shown at its return address.
Backtrace(t, pc, fp, s) ==
  LET fps == Walked(t, fp, s)
  IN [k \in DOMAIN fps |->
        [fp |-> fps[k], pc |-> IF k = 1 THEN pc ELSE OlderPc(s, fps[k - 1])]]

\* The activation before it is the one the state saved; it has to be the empty
\* one, where the iteration stops.
SavedIsEmpty(t) == cts[t].old.exit_pc = NoPc => cts[t].old = Zero

\* What trap_handler finds out about a fault: some call state, code of a module
\* at the program counter, a trap code for that instruction.
Handled(t, pc) ==
  /\ handlers = "complete"
  /\ tls[t] # "none"
  /\ pc.fn \in Func
  /\ pc.site \in TrapCode

\* set_jit_trap, then the longjmp.
SetJitTrap(t, pc, fp, s) ==
  /\ cts' = [cts EXCEPT ![t].unwind = [trap |-> pc.site, backtrace |-> Backtrace(t, pc, fp, s)]]
  /\ frames' = [frames EXCEPT ![t] = s]
  /\ phase' = [phase EXCEPT ![t] = "unwound"]
  /\ failed' = failed \cup Fail(SavedIsEmpty(t), "saved activation is empty")
                      \cup Fail(0 \notin Range(Walked(t, fp, s)), "walk reaches the trampoline")
                      \cup Fail(tls[t] = "self", "state is live")

\* A fault at pc with the stack s: a trap, or the process ends.
TrapHandler(t, pc, fp, s) ==
  /\ \/ Handled(t, pc) /\ SetJitTrap(t, pc, fp, s) /\ UNCHANGED killed
     \/ ~Handled(t, pc) /\ killed' = TRUE /\ UNCHANGED <<cts, frames, phase, failed>>
  /\ UNCHANGED <<call, storage, values, storeVars, tls, outcome, handlers>>

\* A trap site of the running function.
TrapSite(t, c) ==
  /\ phase[t] = "wasm" /\ Len(frames[t]) > 1
  /\ c \in Traps[Top(t).fn]
  /\ TrapHandler(t, [fn |-> Top(t).fn, site |-> c], Top(t).fp, frames[t])

\* The prologue of f has set up its frame and finds the limit crossed, or
\* touches the guard page of the native stack, where no trap is registered.
Overflow(t, f) ==
  /\ phase[t] = "wasm" /\ f \in Callable(t)
  /\ NextFp(t) < StackEnd \/ ~WithinLimit(t, f)
  /\ LET site == IF NextFp(t) < StackEnd THEN "guard page" ELSE "overflow"
         s == Append(frames[t], [fn |-> f, fp |-> NextFp(t)])
     IN TrapHandler(t, [fn |-> f, site |-> site], NextFp(t), s)

\* A fault of the host itself.
HostFault(t) ==
  /\ phase[t] # "wasm"
  /\ TrapHandler(t, NoPc, call[t].sp, frames[t])

-----------------------------------------------------------------------------
(* The way out.                                                             *)

\* CallThreadState::pop leaves Some(null) behind, not None.
Pop(t) == tls' = [tls EXCEPT ![t] = "null"]

\* CallThreadState::drop and WasmExecutionGuard::drop.
DropState_Kept(t) == UNCHANGED regs
DropState(t) == regs' = [regs EXCEPT ![t][cts[t].inst] = cts[t].old]
DropGuard(t) ==
  /\ stackLimit' = [stackLimit EXCEPT ![t][Home[call[t].fn]] = guard[t]]
  /\ guard' = [guard EXCEPT ![t] = 0]

\* Leaving CallThreadState::with and call_unchecked_raw.
Leave(t) ==
  /\ phase' = [phase EXCEPT ![t] = "idle"]
  /\ call' = [call EXCEPT ![t] = NoCall]
  /\ values' = [values EXCEPT ![t] = 0]
  /\ frames' = [frames EXCEPT ![t] = <<>>]
  /\ cts' = [cts EXCEPT ![t].unwind = Unset]
  /\ failed' = failed \cup Fail(tls[t] = "self", "head is this state")
  /\ Pop(t) /\ DropState(t) /\ DropGuard(t)
  /\ UNCHANGED <<handlers, killed>>

\* Results are copied while there is both room and a value; past the function's
\* own results the type has no entry and the indexing panics.
Copied(t) == Min({call[t].room, values[t]})

\* The emptied vector goes back to the store when the results have been copied.
\* After a panic or a trap it is dropped and the store keeps an empty one.
ReturnStorage_Full(t) == storage' = [storage EXCEPT ![t] = values[t]]
ReturnStorage(t) == storage' = [storage EXCEPT ![t] = 0]

LeaveReturned(t) ==
  /\ phase[t] = "returned"
  /\ IF Copied(t) <= NResults[call[t].fn]
       THEN outcome' = [outcome EXCEPT ![t] = "returned"] /\ ReturnStorage(t)
       ELSE outcome' = [outcome EXCEPT ![t] = "panicked"] /\ UNCHANGED storage
  /\ Leave(t)

ReadUnwind_Ignored(t) == "returned"
ReadUnwind(t) == cts[t].unwind.trap

LeaveUnwound(t) ==
  /\ phase[t] = "unwound"
  /\ outcome' = [outcome EXCEPT ![t] = ReadUnwind(t)]
  /\ UNCHANGED storage
  /\ Leave(t)

-----------------------------------------------------------------------------
HostStep(t) ==
  /\ ~killed
  /\ \/ BeginInstall(t) \/ EndInstall(t) \/ FindInstalled(t)
     \/ CatchTraps(t)
     \/ LeaveReturned(t) \/ LeaveUnwound(t)

WasmStep(t) ==
  /\ ~killed
  /\ \/ \E f \in Func : PushFrame(t, f) \/ Overflow(t, f)
     \/ Return(t)
     \/ \E c \in TrapCode : TrapSite(t, c)

NewCall(t) ==
  /\ ~killed
  /\ \/ \E f \in Func, sp \in HostSp, extra \in 0..1 :
          CallUnchecked(t, f, sp, NResults[f] + extra)
     \/ HostFault(t)

Next == \E t \in Thread : HostStep(t) \/ WasmStep(t) \/ NewCall(t)

\* The operating system schedules host code; compiled code may run for ever.
Fairness == \A t \in Thread : WF_vars(HostStep(t))

SafetySpec == Init /\ [][Next]_vars
Spec == SafetySpec /\ Fairness

-----------------------------------------------------------------------------
(* Properties.                                                              *)

Phase == {"idle", "entering", "installing", "ready", "wasm", "returned", "unwound"}
Registers == [exit_pc : {NoPc}, exit_fp : {0}, entry_fp : Nat]

\* Every variable keeps its type; in particular the registers a call saves and
\* restores are ones that the context held.
TypeOK ==
  /\ phase \in [Thread -> Phase]
  /\ \A t \in Thread :
       /\ call[t].fn \in Func \cup {NoFunc} /\ call[t].sp \in Nat /\ call[t].room \in Nat
       /\ cts[t].old \in Registers
       /\ cts[t].unwind.trap \in TrapCode \cup {NoTrap}
  /\ storage \in [Thread -> Nat] /\ values \in [Thread -> Nat]
  /\ guard \in [Thread -> Nat]
  /\ stackLimit \in [Thread -> [Inst -> Nat]]
  /\ regs \in [Thread -> [Inst -> Registers]]
  /\ tls \in [Thread -> {"none", "null", "self"}]
  /\ outcome \in [Thread -> {"none", "returned", "panicked"} \cup TrapCode]
  /\ handlers \in {"unset", "running", "complete"}
  /\ killed \in BOOLEAN

\* Whatever way a call ended (CallThreadState::drop, WasmExecutionGuard::drop),
\* the thread's contexts are as they were before it: no register and no stack
\* limit of an ended call is left in any of them, and while a call runs only the
\* context it entered differs.
ContextsRestored ==
  \A t \in Thread : \A i \in Inst :
    (phase[t] = "idle" \/ i # Home[call[t].fn])
      => regs[t][i] = Zero /\ stackLimit[t][i] = 0

\* The assertions of the code hold: the values taken from the store are empty
\* (func.rs), the head of the chain is the state that is popped, the saved
\* activation is the empty one, and a walk over the frames ends at the trampoline.
AssertionsHold == failed = {}

\* The backtrace of a trap names every frame of wasm that was on the stack,
\* innermost first, those of other instances included, and nothing else.
BacktraceExact ==
  \A t \in Thread : phase[t] = "unwound" =>
    LET n == Len(frames[t])
        bt == cts[t].unwind.backtrace
    IN /\ Len(bt) = n - 1
       /\ \A k \in 1..(n - 1) :
            bt[k].fp = frames[t][n + 1 - k].fp /\ bt[k].pc.fn = frames[t][n + 1 - k].fn

\* No compiled code runs before the signal handlers are installed, by whichever
\* thread: a trap would end the process.
HandlersBeforeWasm ==
  \A t \in Thread : phase[t] \in {"ready", "wasm"} => handlers = "complete"

\* The limit set by enter_wasm holds for the entered instance, however its frames
\* are mixed with those of other instances: all of them lie within MAX_WASM_STACK
\* of the caller's stack pointer.
EnteredStackBounded ==
  \A t \in Thread : phase[t] = "wasm" =>
    \A k \in 2..Len(frames[t]) :
      Home[frames[t][k].fn] = Home[call[t].fn]
        => frames[t][k].fp + MaxWasmStack >= call[t].sp

\* A thread is never stuck in host code: it gets past the installation of the
\* handlers into wasm, and a trap or a return becomes the outcome of the call.
CallsProgress ==
  \A t \in Thread :
    (phase[t] \notin {"idle", "wasm"}) ~> (phase[t] \in {"idle", "wasm"} \/ killed)

\* The call as the host sees it.
Abstract == INSTANCE HostCall WITH
  running <- [t \in Thread |-> call[t].fn],
  raised  <- [t \in Thread |-> IF phase[t] = "unwound" THEN cts[t].unwind.trap ELSE NoTrap],
  outcome <- outcome

\* The code implements the host's view of a call: one outcome per call, the trap
\* that was raised if one was, and nothing of an earlier call.
ImplementsHostCall == Abstract!Safety
=============================================================================
