----------------------------- MODULE DynamicDecode -----------------------------
(***************************************************************************)
(* runDynamicDecode of src/deobfuscators/luraph-vm-decode.ts running a     *)
(* protected loader in the sandbox of src/vm/luau-sandbox.ts.  The guest   *)
(* decodes its programs piece by piece and interprets them; hooks injected *)
(* into it take snapshots of the programs (scanning) or, where the         *)
(* interpreter's fetch was found, a complete dump per program and a trace  *)
(* of every dispatch (instrumented).                                       *)
(*                                                                         *)
(* The guest holds the event loop while it runs, so that the timer of      *)
(* runChunk cannot fire before the chunk has ended (luraph-vm-decode.ts,   *)
(* 367-370) and is not modelled.                                           *)
(***************************************************************************)
EXTENDS Ordering, SequencesExt

CONSTANTS Programs, code,    \* program -> its opcodes once decoded
          LogCap, WaitBound, \* opts.logCap, opts.waitBound
          DumpCap,           \* 200 snapshots
          KeptCap,           \* 12 snapshots kept
          FinalCap,          \* 24 complete dumps
          FlushAt,           \* 4096 dispatches to a chunk of the trace
          TraceCap,          \* 4000 chunks
          Budget,            \* BUDGET_MS
          MaxTime, MaxSteps  \* bounds on clock and dispatches, for model checking

Nothing == "nothing"

ASSUME DynamicDecodeAssumption ==
  /\ {LogCap, WaitBound, DumpCap, KeptCap, FinalCap, TraceCap, Budget, MaxTime, MaxSteps} \subseteq Nat
  /\ FlushAt \in Nat \ {0} /\ Budget < MaxTime
  /\ code \in [Programs -> Seq(Nat) \ {<<>>}]
  /\ Nothing \notin Programs

VARIABLES
  pc, instrumented, now,
  loop,                        \* where the guest is in a loop of its own
  guestLog, waitCalls,         \* of the sandbox: lines logged, waits so far
  decoded, vmseen,             \* program -> opcodes decoded; ... when last looked at
  rawJsons, budgetHit,
  runError,
  vmids, vmcurz, vmt,          \* programs met; the present one; buffer of dispatches
  trace, finalDumps,           \* __VMTRACE chunks and __VMDUMPFINAL dumps received
  executed,                    \* history: every dispatch, in order
  dumps                        \* the result

snapshots == <<vmseen, rawJsons, budgetHit>>
tracing == <<vmids, vmcurz, vmt, trace, finalDumps, executed>>
vars == <<pc, instrumented, now, loop, guestLog, waitCalls, decoded, snapshots, runError, tracing, dumps>>

Init ==
  /\ pc = "run" /\ instrumented \in BOOLEAN /\ now = 0 /\ loop = 0
  /\ guestLog = 0 /\ waitCalls = 0
  \* where the interpreter is known, its hook sees complete programs
  /\ decoded = [p \in Programs |-> IF instrumented THEN Len(code[p]) ELSE 0]
  /\ vmseen = [p \in Programs |-> 0]
  /\ rawJsons = <<>> /\ budgetHit = FALSE /\ runError = Nothing
  /\ vmids = {} /\ vmcurz = Nothing /\ vmt = <<>> /\ trace = <<>> /\ finalDumps = <<>>
  /\ executed = <<>> /\ dumps = <<>>

--------------------------------------------------------------------------------
(* What the host does when the guest calls it.                             *)

(* The definitions named ...Fault are plausible slips in the definition    *)
(* after them and show what a property would notice.                      *)

VMTRACE(s, c) == IF Len(s) < TraceCap THEN Append(s, c) ELSE s

VMDUMPFINAL(p) ==
  finalDumps' = IF Len(finalDumps) < FinalCap THEN Append(finalDumps, p) ELSE finalDumps

chunk(buffer) == [program |-> Nothing, dispatches |-> buffer]
flushed == IF vmt = <<>> THEN trace ELSE VMTRACE(trace, chunk(vmt))

(* An error the guest does not catch ends the chunk: the xpcall around the *)
(* entry reports it, and the rest of the buffer is sent.                   *)
unwind(error) ==
  /\ pc' = "returned"
  /\ runError' = error
  /\ trace' = flushed /\ vmt' = <<>>
  /\ UNCHANGED <<vmids, vmcurz, finalDumps, executed>>

uncaught(error) == unwind(error) \/ UNCHANGED <<pc, runError, tracing>>

--------------------------------------------------------------------------------
(* The guest.                                                              *)

(* The guest computes without calling the host, maybe for ever.            *)
Compute ==
  /\ pc = "run" /\ loop' = 1 - loop
  /\ now' = IF now < MaxTime THEN now + 1 ELSE now
  /\ UNCHANGED <<pc, instrumented, guestLog, waitCalls, decoded, snapshots, runError, tracing, dumps>>

DecodeMore ==
  /\ pc = "run"
  /\ \E p \in Programs : decoded[p] < Len(code[p]) /\ decoded' = [decoded EXCEPT ![p] = @ + 1]
  /\ UNCHANGED <<pc, instrumented, now, loop, guestLog, waitCalls, snapshots, runError, tracing, dumps>>

GuestPrint ==
  /\ pc = "run"
  /\ guestLog' = IF guestLog < LogCap THEN guestLog + 1 ELSE guestLog
  /\ UNCHANGED <<pc, instrumented, now, loop, waitCalls, decoded, snapshots, runError, tracing, dumps>>

TaskWait ==
  /\ pc = "run" /\ waitCalls <= WaitBound
  /\ waitCalls' = waitCalls + 1
  /\ IF waitCalls' > WaitBound THEN uncaught("wait bound") ELSE UNCHANGED <<pc, runError, tracing>>
  /\ UNCHANGED <<instrumented, now, loop, guestLog, decoded, snapshots, dumps>>

snapshot(p) == SubSeq(code[p], 1, decoded[p])

(* A wrapped method is given a program table; it serialises the table only *)
(* if its length has changed, and the host looks at the clock only then.   *)
CallMethod(p) ==
  /\ pc = "run" /\ ~instrumented /\ decoded[p] > 0
  /\ vmseen' = [vmseen EXCEPT ![p] = decoded[p]]
  /\ IF vmseen[p] = decoded[p] THEN UNCHANGED <<rawJsons, budgetHit, pc, runError, tracing>>
     ELSE IF now > Budget
     THEN budgetHit' = TRUE /\ uncaught("budget") /\ UNCHANGED rawJsons
     ELSE /\ rawJsons' = IF Len(rawJsons) >= DumpCap \/ Contains(rawJsons, snapshot(p))
                         THEN rawJsons ELSE Append(rawJsons, snapshot(p))
          /\ UNCHANGED <<budgetHit, pc, runError, tracing>>
  /\ UNCHANGED <<instrumented, now, loop, guestLog, waitCalls, decoded, dumps>>

(* The markers of another program are sent before what its predecessor     *)
(* still had in the buffer.                                                *)
switchedFault(p) == IF vmcurz = p THEN trace ELSE VMTRACE(trace, [program |-> p, dispatches |-> <<>>])

(* Another program: the buffer is sent, then a marker.                     *)
switched(p) == IF vmcurz = p THEN trace ELSE VMTRACE(flushed, [program |-> p, dispatches |-> <<>>])

DispatchFault(p) ==  \* a program is dumped whenever the interpreter turns to it
  /\ pc = "run" /\ instrumented /\ Len(executed) < MaxSteps
  /\ IF vmcurz # p THEN VMDUMPFINAL(p) \/ UNCHANGED finalDumps ELSE UNCHANGED finalDumps
  /\ vmids' = vmids \cup {p} /\ vmcurz' = p
  /\ \E f \in 1..Len(code[p]) :
       LET buffer == Append(IF vmcurz = p THEN vmt ELSE <<>>, f)
       IN /\ executed' = Append(executed, <<p, f>>)
          /\ IF Len(buffer) >= FlushAt
             THEN trace' = VMTRACE(switched(p), chunk(buffer)) /\ vmt' = <<>>
             ELSE trace' = switched(p) /\ vmt' = buffer
  /\ UNCHANGED <<pc, instrumented, now, loop, guestLog, waitCalls, decoded, snapshots, runError, dumps>>

(* __VMSTEP, at the top of the dispatch loop.  A dump that is too big or   *)
(* fails to serialise is not made, and not tried again.                    *)
Dispatch(p) ==
  /\ pc = "run" /\ instrumented /\ Len(executed) < MaxSteps
  /\ IF vmcurz # p /\ p \notin vmids
     THEN VMDUMPFINAL(p) \/ UNCHANGED finalDumps
     ELSE UNCHANGED finalDumps
  /\ vmids' = vmids \cup {p} /\ vmcurz' = p
  /\ \E f \in 1..Len(code[p]) :
       LET buffer == Append(IF vmcurz = p THEN vmt ELSE <<>>, f)
       IN /\ executed' = Append(executed, <<p, f>>)
          /\ IF Len(buffer) >= FlushAt
             THEN trace' = VMTRACE(switched(p), chunk(buffer)) /\ vmt' = <<>>
             ELSE trace' = switched(p) /\ vmt' = buffer
  /\ UNCHANGED <<pc, instrumented, now, loop, guestLog, waitCalls, decoded, snapshots, runError, dumps>>

GuestEnds ==
  /\ pc = "run"
  /\ \E error \in {Nothing, "guest error"} : unwind(error)
  /\ UNCHANGED <<instrumented, now, loop, guestLog, waitCalls, decoded, snapshots, dumps>>

--------------------------------------------------------------------------------
(* The result.                                                             *)

(* Longest first, in the order taken among equals.                         *)
longer(i, j) ==
  \/ Len(rawJsons[i]) > Len(rawJsons[j])
  \/ Len(rawJsons[i]) = Len(rawJsons[j]) /\ i < j

ranked ==
  LET D == DOMAIN rawJsons
      places == ordered(D, {p \in D \X D : longer(p[1], p[2])})
  IN [k \in D |-> rawJsons[places[k]]]

KeptFault(s) == s  \* partial snapshots stay

(* A snapshot that a kept one extends is dropped.                          *)
keep(kept, d) ==
  IF \E i \in DOMAIN kept : IsPrefix(d, kept[i]) THEN kept ELSE Append(kept, d)

Kept(s) ==
  LET kept[n \in 0..Len(s)] == IF n = 0 THEN <<>> ELSE keep(kept[n - 1], s[n])
  IN kept[Len(s)]

Return ==
  /\ pc = "returned" /\ pc' = "done"
  /\ runError' = IF budgetHit THEN Nothing ELSE runError
  /\ dumps' = LET kept == Kept(ranked) IN SubSeq(kept, 1, minimum(Len(kept), KeptCap))
  /\ UNCHANGED <<instrumented, now, loop, guestLog, waitCalls, decoded, snapshots, tracing>>

Done == pc = "done" /\ UNCHANGED vars

Guest ==
  \/ Compute \/ DecodeMore \/ GuestPrint \/ TaskWait \/ GuestEnds
  \/ \E p \in Programs : CallMethod(p) \/ Dispatch(p)

Next == Guest \/ Return \/ Done

(* The guest keeps running, the host returns once it has ended.            *)
Spec == Init /\ [][Next]_vars /\ WF_vars(Guest) /\ WF_vars(Return)

--------------------------------------------------------------------------------

(* Dispatches of a chunk belong to the program of the last marker.         *)
of(p, dispatches) == [i \in DOMAIN dispatches |-> <<p, dispatches[i]>>]

play(read, c) ==
  IF c.program # Nothing THEN [read EXCEPT !.program = c.program]
  ELSE [read EXCEPT !.steps = @ \o of(read.program, c.dispatches)]

unread == [program |-> Nothing, steps |-> <<>>]

replayed(s) ==
  LET read[n \in 0..Len(s)] == IF n = 0 THEN unread ELSE play(read[n - 1], s[n])
  IN read[Len(s)]

replay(s) == replayed(s).steps

(* The trace read back is what was executed, each dispatch under its own   *)
(* program: a prefix of it where the cap cut the trace off, all of it but  *)
(* the buffer otherwise.                                                   *)
TraceFaithful ==
  /\ IsPrefix(replay(trace), executed)
  /\ Len(trace) < TraceCap => Len(replay(trace)) + Len(vmt) = Len(executed)

(* A program is dumped at most once, in the order of first dispatches, and *)
(* however the interpreters alternate or call each other: each dump was    *)
(* dispatched before what is dumped after it.                              *)
DumpedOnce ==
  \A k \in DOMAIN finalDumps : \E n \in DOMAIN executed :
    /\ executed[n][1] = finalDumps[k]
    /\ \A l \in (k + 1)..Len(finalDumps), m \in 1..n : executed[m][1] # finalDumps[l]

(* "we keep the most complete snapshot of each distinct program": every    *)
(* snapshot taken is the beginning of one that is kept, and none that is   *)
(* kept is the beginning of another.                                       *)
MostCompleteKept ==
  pc = "done" /\ Len(dumps) < KeptCap =>
    /\ \A i \in DOMAIN rawJsons : \E k \in DOMAIN dumps : IsPrefix(rawJsons[i], dumps[k])
    /\ \A k, l \in DOMAIN dumps : k # l => ~IsPrefix(dumps[k], dumps[l])

(* Of every program no more than one complete dump, and its most complete  *)
(* snapshot.                                                               *)
DumpsKept == DumpedOnce /\ MostCompleteKept

(* "Wall-clock budget guard: [...] Throwing from this callback unwinds the *)
(* Luau execution": once the budget is spent the guest ends.               *)
BudgetUnwinds == now > Budget ~> pc # "run"
================================================================================
