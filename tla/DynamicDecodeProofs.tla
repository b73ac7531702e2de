--------------------------- MODULE DynamicDecodeProofs -------------------------
(***************************************************************************)
(* Proofs about DynamicDecode, for any programs, caps, budget and size of  *)
(* the chunks of the trace.                                                *)
(***************************************************************************)
EXTENDS DynamicDecode, Lemmas

(* What the host receives, and what is read from it.                       *)
Chunks == [program : Programs \cup {Nothing}, dispatches : Seq(Nat)]
Dispatches == Seq((Programs \cup {Nothing}) \X Nat)
Readings == [program : Programs \cup {Nothing}, steps : Dispatches]

(* The dispatches of one program.                                          *)
LEMMA OfType ==
  ASSUME NEW p \in Programs \cup {Nothing}, NEW b \in Seq(Nat)
  PROVE  of(p, b) \in Dispatches /\ Len(of(p, b)) = Len(b)
  <1>1. b \in [1..Len(b) -> Nat] /\ Len(b) \in Nat
    OBVIOUS
  <1>2. \A i \in 1..Len(b) : <<p, b[i]>> \in (Programs \cup {Nothing}) \X Nat
    BY <1>1
  <1>3. of(p, b) = [i \in 1..Len(b) |-> <<p, b[i]>>]
    BY DEF of
  <1>. QED  BY <1>1, <1>2, <1>3 DEF Dispatches

(* Reading a chunk.                                                        *)
LEMMA PlayType ==
  ASSUME NEW r \in Readings, NEW c \in Chunks
  PROVE  play(r, c) \in Readings
  <1>1. of(r.program, c.dispatches) \in Dispatches
    BY OfType DEF Readings, Chunks
  <1>2. r.steps \o of(r.program, c.dispatches) \in Dispatches
    BY <1>1, ConcatProperties DEF Readings, Dispatches
  <1> HIDE DEF Dispatches
  <1>. QED  BY <1>2 DEF play, Readings, Chunks

(* Reading a trace goes from chunk to chunk: the recursive function in the *)
(* definition of replayed exists, and is what the chunks make of unread.   *)
LEMMA Reading ==
  ASSUME NEW s \in Seq(Chunks)
  PROVE  \E f \in [0..Len(s) -> Readings] :
           /\ f[0] = unread
           /\ \A n \in 1..Len(s) : f[n] = play(f[n - 1], s[n])
           /\ replayed(s) = f[Len(s)]
  <1> DEFINE body(g) == [n \in 0..Len(s) |-> IF n = 0 THEN unread ELSE play(g[n - 1], s[n])]
             read == CHOOSE g : g = body(g)
             G == [x \in (1..Len(s)) \X Readings |-> play(x[2], s[x[1]])]
  <1>0. Len(s) \in Nat /\ \A n \in 1..Len(s) : s[n] \in Chunks
    OBVIOUS
  <1>1. unread \in Readings
    BY EmptySeq DEF unread, Readings, Dispatches
  <1>2. G \in [(1..Len(s)) \X Readings -> Readings]
    BY <1>0, PlayType
  <1>3. PICK f \in [0..Len(s) -> Readings] : Steps(f, Len(s), unread, G)
    <2> HIDE DEF G
    <2>. QED  BY <1>0, <1>1, <1>2, StepsExist
  <1>4. ASSUME NEW n \in 1..Len(s)
        PROVE  f[n] = play(f[n - 1], s[n])
    <2>1. n - 1 \in 0..Len(s) /\ f[n - 1] \in Readings
      BY <1>0, <1>3
    <2>2. G[<<n, f[n - 1]>>] = play(f[n - 1], s[n])
      BY <2>1
    <2>. QED  BY <1>3, <2>2 DEF Steps
  <1>5. f[0] = unread
    BY <1>3 DEF Steps
  <1>6. f = body(f)
    BY <1>0, <1>3, <1>4, <1>5
  <1>7. read = body(read)
    BY <1>6
  <1>8. replayed(s) = read[Len(s)]
    BY DEF replayed
  <1>9. \A n \in 0..Len(s) : read[n] = f[n]
    <2> DEFINE S == {n \in 0..Len(s) : read[n] = f[n]}
    <2> HIDE DEF read
    <2>1. 0 \in S
      BY <1>0, <1>5, <1>7
    <2>2. \A n \in 1..Len(s) : n - 1 \in S => n \in S
      BY <1>0, <1>4, <1>7
    <2>3. \A n \in 0..Len(s) : n \in S
      <3> HIDE DEF S
      <3>. QED  BY <1>0, <2>1, <2>2, UpTo
    <2>. QED  BY <2>3
  <1>10. Len(s) \in 0..Len(s)
    BY <1>0
  <1> HIDE DEF read
  <1>. QED  BY <1>3, <1>4, <1>5, <1>8, <1>9, <1>10

(* What has been read so far.                                              *)
LEMMA ReplayType ==
  ASSUME NEW s \in Seq(Chunks)
  PROVE  replayed(s) \in Readings /\ replay(s) \in Dispatches
  <1>1. PICK f \in [0..Len(s) -> Readings] : replayed(s) = f[Len(s)]
    BY Reading
  <1>2. Len(s) \in 0..Len(s)
    OBVIOUS
  <1>3. replayed(s) \in Readings
    BY <1>1, <1>2
  <1>. QED  BY <1>3 DEF Readings, replay

(* A chunk received after others is read after them.                       *)
LEMMA ReplayAppend ==
  ASSUME NEW s \in Seq(Chunks), NEW c \in Chunks
  PROVE  replayed(s) \in Readings /\ replayed(Append(s, c)) = play(replayed(s), c)
  <1> DEFINE t == Append(s, c)
  <1>1. PICK f \in [0..Len(s) -> Readings] :
          /\ f[0] = unread
          /\ \A n \in 1..Len(s) : f[n] = play(f[n - 1], s[n])
          /\ replayed(s) = f[Len(s)]
    BY Reading
  <1>2. t \in Seq(Chunks) /\ Len(t) = Len(s) + 1 /\ t[Len(s) + 1] = c
        /\ \A n \in 1..Len(s) : t[n] = s[n]
    BY AppendProperties
  <1> HIDE DEF t
  <1>3. PICK g \in [0..Len(t) -> Readings] :
          /\ g[0] = unread
          /\ \A n \in 1..Len(t) : g[n] = play(g[n - 1], t[n])
          /\ replayed(t) = g[Len(t)]
    BY <1>2, Reading
  <1>4. Len(s) \in Nat
    OBVIOUS
  <1>5. \A n \in 0..Len(s) : g[n] = f[n]
    <2> DEFINE S == {n \in 0..Len(s) : g[n] = f[n]}
    <2>1. 0 \in S
      BY <1>1, <1>3, <1>4
    <2>2. \A n \in 1..Len(s) : n - 1 \in S => n \in S
      BY <1>1, <1>2, <1>3, <1>4
    <2>3. \A n \in 0..Len(s) : n \in S
      <3> HIDE DEF S
      <3>. QED  BY <1>4, <2>1, <2>2, UpTo
    <2>. QED  BY <2>3
  <1>6. Len(s) \in 0..Len(s) /\ Len(s) + 1 \in 1..(Len(s) + 1) /\ (Len(s) + 1) - 1 = Len(s)
    BY <1>4
  <1>7. g[Len(s) + 1] = play(g[Len(s)], c)
    BY <1>2, <1>3, <1>6
  <1>8. replayed(t) = play(replayed(s), c)
    BY <1>1, <1>2, <1>3, <1>5, <1>6, <1>7
  <1>. QED  BY <1>1, <1>6, <1>8 DEF t

(* What is true of the trace t and the buffer b of program p where e has   *)
(* been dispatched.                                                        *)
Follows(t, b, p, e) ==
  /\ Len(t) <= TraceCap
  /\ IsPrefix(replay(t), e)
  /\ Len(t) < TraceCap => replayed(t).program = p /\ e = replay(t) \o of(p, b)

(* A full trace receives nothing more; one that is not ends in what it     *)
(* receives.                                                               *)
LEMMA FollowsFlush ==
  ASSUME NEW t \in Seq(Chunks), NEW b \in Seq(Nat), NEW p \in Programs \cup {Nothing},
         NEW e \in Dispatches, Follows(t, b, p, e)
  PROVE  VMTRACE(t, chunk(b)) \in Seq(Chunks) /\ Follows(VMTRACE(t, chunk(b)), <<>>, p, e)
  <1>1. TraceCap \in Nat
    BY DynamicDecodeAssumption
  <1>2. Len(t) \in Nat /\ chunk(b) \in Chunks
    BY DEF chunk, Chunks
  <1>3. CASE Len(t) < TraceCap
    <2>1. VMTRACE(t, chunk(b)) = Append(t, chunk(b))
      BY <1>3 DEF VMTRACE
    <2>2. Append(t, chunk(b)) \in Seq(Chunks) /\ Len(Append(t, chunk(b))) = Len(t) + 1
      BY <1>2
    <2>3. replayed(t) \in Readings /\ replayed(Append(t, chunk(b))) = play(replayed(t), chunk(b))
      BY <1>2, ReplayAppend
    <2>4. replayed(t).program = p /\ e = replayed(t).steps \o of(p, b)
      BY <1>3 DEF Follows, replay
    <2>5. /\ play(replayed(t), chunk(b)).steps = e
          /\ play(replayed(t), chunk(b)).program = p
      <3>1. /\ chunk(b).program = Nothing /\ chunk(b).dispatches = b
        BY DEF chunk
      <3>2. play(replayed(t), chunk(b)) = [replayed(t) EXCEPT !.steps = @ \o of(p, b)]
        BY <2>4, <3>1 DEF play
      <3>. QED  BY <2>3, <2>4, <3>2 DEF Readings
    <2>6. e = e \o of(p, <<>>) /\ IsPrefix(e, e)
      <3>1. of(p, <<>>) = <<>>
        BY DEF of
      <3>2. e \in Seq((Programs \cup {Nothing}) \X Nat)
        BY DEF Dispatches
      <3>. QED  BY <3>1, <3>2, PrefixElements
    <2> DEFINE u == Append(t, chunk(b))
    <2>7. /\ VMTRACE(t, chunk(b)) = u /\ u \in Seq(Chunks) /\ Len(u) = Len(t) + 1
          /\ replayed(u).steps = e /\ replayed(u).program = p
      BY <2>1, <2>2, <2>3, <2>5
    <2> HIDE DEF u
    <2>8. Len(u) <= TraceCap
      BY <1>1, <1>2, <1>3, <2>7
    <2>9. Follows(u, <<>>, p, e)
      BY <2>6, <2>7, <2>8 DEF Follows, replay
    <2>. QED  BY <2>7, <2>9
  <1>4. CASE ~(Len(t) < TraceCap)
    BY <1>4 DEF VMTRACE, Follows
  <1>. QED  BY <1>3, <1>4

(* A marker says whose the next dispatches are.                            *)
LEMMA FollowsMarker ==
  ASSUME NEW t \in Seq(Chunks), NEW p \in Programs, NEW q \in Programs \cup {Nothing},
         NEW e \in Dispatches, Follows(t, <<>>, q, e)
  PROVE  LET marker == [program |-> p, dispatches |-> <<>>]
         IN VMTRACE(t, marker) \in Seq(Chunks) /\ Follows(VMTRACE(t, marker), <<>>, p, e)
  <1> DEFINE marker == [program |-> p, dispatches |-> <<>>]
  <1>1. TraceCap \in Nat /\ p # Nothing
    BY DynamicDecodeAssumption
  <1>2. Len(t) \in Nat /\ marker \in Chunks /\ marker.program = p
    BY EmptySeq DEF Chunks
  <1>3. of(p, <<>>) = <<>> /\ of(q, <<>>) = <<>>
    BY DEF of
  <1> HIDE DEF marker
  <1>4. CASE Len(t) < TraceCap
    <2>1. VMTRACE(t, marker) = Append(t, marker)
      BY <1>4 DEF VMTRACE
    <2>2. Append(t, marker) \in Seq(Chunks) /\ Len(Append(t, marker)) = Len(t) + 1
      BY <1>2
    <2>3. replayed(t) \in Readings /\ replayed(Append(t, marker)) = play(replayed(t), marker)
      BY <1>2, ReplayAppend
    <2>4. play(replayed(t), marker) = [replayed(t) EXCEPT !.program = p]
      BY <1>1, <1>2 DEF play
    <2>5. /\ play(replayed(t), marker).steps = replay(t)
          /\ play(replayed(t), marker).program = p
      BY <2>3, <2>4 DEF Readings, replay
    <2>6. IsPrefix(replay(t), e) /\ e = replay(t) \o of(p, <<>>)
      BY <1>3, <1>4 DEF Follows
    <2> DEFINE u == Append(t, marker)
    <2>7. /\ VMTRACE(t, marker) = u /\ u \in Seq(Chunks) /\ Len(u) = Len(t) + 1
          /\ replay(u) = replay(t) /\ replayed(u).program = p
      BY <2>1, <2>2, <2>3, <2>5 DEF replay
    <2> HIDE DEF u
    <2>8. Len(u) <= TraceCap
      BY <1>1, <1>2, <1>4, <2>7
    <2>9. Follows(u, <<>>, p, e)
      BY <2>6, <2>7, <2>8 DEF Follows
    <2>. QED  BY <2>7, <2>9 DEF marker
  <1>5. CASE ~(Len(t) < TraceCap)
    <2>1. VMTRACE(t, marker) = t
      BY <1>5 DEF VMTRACE
    <2>. QED  BY <1>5, <2>1 DEF Follows, marker
  <1>. QED  BY <1>4, <1>5

(* A dispatch joins the buffer.                                            *)
LEMMA FollowsDispatch ==
  ASSUME NEW t \in Seq(Chunks), NEW b \in Seq(Nat), NEW p \in Programs,
         NEW e \in Dispatches, NEW f \in Nat, Follows(t, b, p, e)
  PROVE  /\ Append(e, <<p, f>>) \in Dispatches
         /\ Follows(t, Append(b, f), p, Append(e, <<p, f>>))
  <1> DEFINE D == (Programs \cup {Nothing}) \X Nat
             after == Append(e, <<p, f>>)
  <1>1. Len(t) \in Nat /\ replay(t) \in Seq(D)
    BY ReplayType DEF Dispatches
  <1>2. e \in Seq(D) /\ <<p, f>> \in D /\ after \in Seq(D)
    BY DEF Dispatches
  <1>3. IsPrefix(e, after)
    <2>1. /\ Len(e) <= Len(after)
          /\ \A i \in 1..Len(e) : e[i] = after[i]
      <3> HIDE DEF D
      <3>. QED  BY <1>2, AppendProperties
    <2> HIDE DEF D, after
    <2>. QED  BY <1>2, <2>1, PrefixElements
  <1>4. IsPrefix(replay(t), after)
    <2> HIDE DEF D, after
    <2>. QED  BY <1>1, <1>2, <1>3, PrefixTransitive DEF Follows
  <1>5. of(p, Append(b, f)) = Append(of(p, b), <<p, f>>)
    <2>1. /\ of(p, b) \in Seq(D) /\ Len(of(p, b)) = Len(b)
          /\ \A i \in 1..Len(b) : of(p, b)[i] = <<p, b[i]>>
      BY OfType DEF Dispatches, of
    <2>2. Append(b, f) \in Seq(Nat) /\ Len(Append(b, f)) = Len(b) + 1
      OBVIOUS
    <2>3. /\ of(p, Append(b, f)) \in Seq(D) /\ Len(of(p, Append(b, f))) = Len(b) + 1
          /\ \A i \in 1..(Len(b) + 1) : of(p, Append(b, f))[i] = <<p, Append(b, f)[i]>>
      <3>1. DOMAIN Append(b, f) = 1..(Len(b) + 1)
        BY <2>2
      <3>. QED  BY <2>2, <3>1, OfType DEF Dispatches, of
    <2>4. /\ Append(of(p, b), <<p, f>>) \in Seq(D)
          /\ Len(Append(of(p, b), <<p, f>>)) = Len(b) + 1
          /\ \A i \in 1..Len(b) : Append(of(p, b), <<p, f>>)[i] = <<p, b[i]>>
          /\ Append(of(p, b), <<p, f>>)[Len(b) + 1] = <<p, f>>
      <3> HIDE DEF D
      <3>. QED  BY <1>2, <2>1, AppendProperties
    <2>5. \A i \in 1..(Len(b) + 1) : of(p, Append(b, f))[i] = Append(of(p, b), <<p, f>>)[i]
      <3>1. /\ \A i \in 1..Len(b) : Append(b, f)[i] = b[i]
            /\ Append(b, f)[Len(b) + 1] = f
            /\ \A i \in 1..(Len(b) + 1) : i \in 1..Len(b) \/ i = Len(b) + 1
        OBVIOUS
      <3>. QED  BY <2>3, <2>4, <3>1
    <2> HIDE DEF D
    <2>. QED  BY <2>3, <2>4, <2>5, SeqEqual
  <1>6. ASSUME Len(t) < TraceCap
        PROVE  replayed(t).program = p /\ after = replay(t) \o of(p, Append(b, f))
    <2>1. replayed(t).program = p /\ e = replay(t) \o of(p, b)
      BY <1>6 DEF Follows
    <2>2. of(p, b) \in Seq(D)
      BY OfType DEF Dispatches
    <2>3. Append(replay(t) \o of(p, b), <<p, f>>) = replay(t) \o Append(of(p, b), <<p, f>>)
      <3> DEFINE d == <<p, f>>
                 a == of(p, b)
                 r == replay(t)
                 m == r \o a
                 n == Append(a, d)
                 o == r \o n
      <3>1. /\ d \in D /\ a \in Seq(D) /\ r \in Seq(D)
            /\ m \in Seq(D) /\ n \in Seq(D) /\ o \in Seq(D)
            /\ m = r \o a /\ n = Append(a, d) /\ o = r \o n
        <4>1. d \in D /\ a \in Seq(D) /\ r \in Seq(D)
          BY <1>1, <1>2, <2>2
        <4> HIDE DEF D, a, r, d
        <4>. QED  BY <4>1
      <3> HIDE DEF D, d, a, r, m, n, o
      <3>2. o = Append(m, d)
        BY <3>1, ConcatAppend
      <3>. QED  BY <3>2 DEF d, a, r, m, n, o
    <2>. QED  BY <1>5, <2>1, <2>3
  <1>. QED  BY <1>2, <1>4, <1>6 DEF Follows, Dispatches

--------------------------------------------------------------------------------
(* The types of what tells of dispatches.                                  *)
TraceTypes ==
  /\ vmcurz \in Programs \cup {Nothing} /\ vmids \in SUBSET Programs
  /\ vmt \in Seq(Nat) /\ trace \in Seq(Chunks)
  /\ executed \in Seq(Programs \X Nat)

TraceInv == TraceTypes /\ Follows(trace, vmt, vmcurz, executed)

(* Nothing has been dispatched or received.                                *)
LEMMA TraceInit == Init => TraceInv
  <1> SUFFICES ASSUME Init PROVE TraceInv
    OBVIOUS
  <1>1. trace = <<>> /\ vmt = <<>> /\ vmcurz = Nothing /\ executed = <<>> /\ vmids = {}
    BY DEF Init
  <1>2. TraceTypes
    BY <1>1 DEF TraceTypes
  <1>3. replayed(<<>>) = unread
    <2>1. <<>> \in Seq(Chunks) /\ Len(<<>>) = 0
      OBVIOUS
    <2>. QED  BY <2>1, Reading
  <1>4. of(Nothing, <<>>) = <<>> /\ replay(<<>>) = <<>>
    BY <1>3 DEF of, replay, unread
  <1>5. IsPrefix(<<>>, <<>>) /\ <<>> = <<>> \o <<>>
    BY DEF IsPrefix
  <1>6. TraceCap \in Nat /\ Len(<<>>) = 0
    BY DynamicDecodeAssumption
  <1>7. Follows(<<>>, <<>>, Nothing, <<>>)
    BY <1>3, <1>4, <1>5, <1>6 DEF Follows, unread
  <1>. QED  BY <1>1, <1>2, <1>7 DEF TraceInv

(* Sending what is in the buffer.                                          *)
LEMMA Flushed ==
  ASSUME TraceInv
  PROVE  flushed \in Seq(Chunks) /\ Follows(flushed, <<>>, vmcurz, executed)
  <1>1. executed \in Dispatches
    BY DEF TraceInv, TraceTypes, Dispatches
  <1>2. CASE vmt = <<>>
    BY <1>2 DEF flushed, TraceInv, TraceTypes
  <1>3. CASE vmt # <<>>
    BY <1>1, <1>3, FollowsFlush DEF flushed, TraceInv, TraceTypes
  <1>. QED  BY <1>2, <1>3

(* Every step keeps the trace and the buffer to what was dispatched.       *)
LEMMA TraceStep == TraceInv /\ [Next]_vars => TraceInv'
  <1> SUFFICES ASSUME TraceInv, [Next]_vars PROVE TraceInv'
    OBVIOUS
  <1>1. TraceTypes /\ executed \in Dispatches
    BY DEF TraceInv, TraceTypes, Dispatches
  <1>2. CASE UNCHANGED tracing
    BY <1>2 DEF tracing, TraceInv, TraceTypes
  <1>3. ASSUME NEW error, unwind(error)
        PROVE  TraceInv'
    BY <1>1, <1>3, Flushed, EmptySeq DEF unwind, TraceInv, TraceTypes
  <1>4. ASSUME NEW p \in Programs, Dispatch(p)
        PROVE  TraceInv'
    <2> DEFINE before == IF vmcurz = p THEN vmt ELSE <<>>
    <2>1. PICK f \in 1..Len(code[p]) :
            LET buffer == Append(before, f)
            IN /\ executed' = Append(executed, <<p, f>>)
               /\ IF Len(buffer) >= FlushAt
                  THEN trace' = VMTRACE(switched(p), chunk(buffer)) /\ vmt' = <<>>
                  ELSE trace' = switched(p) /\ vmt' = buffer
      BY <1>4 DEF Dispatch
    <2> DEFINE buffer == Append(before, f)
    <2>2. vmcurz' = p /\ vmids' = vmids \cup {p}
      BY <1>4 DEF Dispatch
    <2>3. f \in Nat
      OBVIOUS
    <2>4. before \in Seq(Nat) /\ buffer \in Seq(Nat)
      BY <1>1, <2>3, EmptySeq DEF TraceTypes
    <2>5. switched(p) \in Seq(Chunks) /\ Follows(switched(p), before, p, executed)
      <3>1. CASE vmcurz = p
        BY <1>1, <3>1 DEF switched, TraceInv, TraceTypes
      <3>2. CASE vmcurz # p
        BY <1>1, <3>2, Flushed, FollowsMarker DEF switched, TraceTypes
      <3>. QED  BY <3>1, <3>2
    <2> HIDE DEF before
    <2>6. /\ Append(executed, <<p, f>>) \in Dispatches
          /\ Follows(switched(p), buffer, p, Append(executed, <<p, f>>))
      BY <1>1, <2>3, <2>4, <2>5, FollowsDispatch
    <2>7. executed' \in Seq(Programs \X Nat)
      BY <1>1, <2>1, <2>3 DEF TraceTypes
    <2> HIDE DEF buffer
    <2>8. CASE Len(buffer) >= FlushAt
      <3>1. trace' = VMTRACE(switched(p), chunk(buffer)) /\ vmt' = <<>>
        BY <2>1, <2>8 DEF buffer
      <3>2. trace' \in Seq(Chunks) /\ Follows(trace', <<>>, p, executed')
        BY <2>1, <2>4, <2>5, <2>6, <3>1, FollowsFlush
      <3>. QED  BY <1>1, <2>2, <2>7, <3>1, <3>2 DEF TraceInv, TraceTypes
    <2>9. CASE ~(Len(buffer) >= FlushAt)
      <3>1. trace' = switched(p) /\ vmt' = buffer
        BY <2>1, <2>9 DEF buffer
      <3>. QED  BY <1>1, <2>1, <2>2, <2>4, <2>5, <2>6, <2>7, <3>1 DEF TraceInv, TraceTypes
    <2>. QED  BY <2>8, <2>9
  <1>5. CASE Guest
    <2>1. CASE Compute \/ DecodeMore \/ GuestPrint
      BY <1>2, <2>1 DEF Compute, DecodeMore, GuestPrint
    <2>2. CASE TaskWait
      BY <1>2, <1>3, <2>2 DEF TaskWait, uncaught
    <2>3. CASE GuestEnds
      BY <1>3, <2>3 DEF GuestEnds
    <2>4. ASSUME NEW p \in Programs, CallMethod(p)
          PROVE  TraceInv'
      BY <1>2, <1>3, <2>4 DEF CallMethod, uncaught
    <2>. QED  BY <1>4, <1>5, <2>1, <2>2, <2>3, <2>4 DEF Guest
  <1>6. CASE Return
    BY <1>2, <1>6 DEF Return
  <1>7. CASE Done \/ UNCHANGED vars
    BY <1>2, <1>7 DEF Done, vars
  <1>. QED  BY <1>5, <1>6, <1>7 DEF Next

(* The trace received, read back, is a prefix of what was dispatched, and  *)
(* all of it but the buffer as long as the cap was not met.                *)
THEOREM TraceCorrect == Spec => []TraceFaithful
  <1>1. TraceInv => TraceFaithful
    <2> SUFFICES ASSUME TraceInv PROVE TraceFaithful
      OBVIOUS
    <2>1. ASSUME Len(trace) < TraceCap
          PROVE  Len(replay(trace)) + Len(vmt) = Len(executed)
      <3>1. executed = replay(trace) \o of(vmcurz, vmt)
        BY <2>1 DEF TraceInv, Follows
      <3>2. /\ replay(trace) \in Dispatches
            /\ of(vmcurz, vmt) \in Dispatches /\ Len(of(vmcurz, vmt)) = Len(vmt)
        BY OfType, ReplayType DEF TraceInv, TraceTypes
      <3> DEFINE D == (Programs \cup {Nothing}) \X Nat
                 a == of(vmcurz, vmt)
                 r == replay(trace)
      <3>3. r \in Seq(D) /\ a \in Seq(D) /\ executed = r \o a /\ Len(a) = Len(vmt)
        BY <3>1, <3>2 DEF Dispatches
      <3> HIDE DEF D, a, r
      <3>4. \A x, y \in Seq(D) : Len(x \o y) = Len(x) + Len(y)
        OBVIOUS
      <3>. QED  BY <3>3, <3>4 DEF r
    <2>. QED  BY <2>1 DEF TraceInv, Follows, TraceFaithful
  <1>. QED  BY <1>1, TraceInit, TraceStep, PTL DEF Spec

--------------------------------------------------------------------------------
(* Dumps follow the order of first dispatches.                             *)
DumpTypes ==
  /\ finalDumps \in Seq(Programs)
  /\ \A p \in Programs : p \in vmids <=> \E n \in DOMAIN executed : executed[n][1] = p

DumpInv == DumpTypes /\ DumpedOnce

(* A program met for the first time is dumped after those met before.      *)
LEMMA DumpsDispatch ==
  ASSUME TraceTypes, DumpInv, NEW p \in Programs, Dispatch(p)
  PROVE  DumpInv'
  <1>1. PICK f \in 1..Len(code[p]) : executed' = Append(executed, <<p, f>>)
    BY DEF Dispatch
  <1> DEFINE last == Len(executed) + 1
  <1>2. /\ Len(executed) \in Nat /\ DOMAIN executed = 1..Len(executed)
        /\ DOMAIN executed' = 1..last
        /\ \A n \in 1..Len(executed) : executed'[n] = executed[n]
        /\ executed'[last] = <<p, f>>
    BY <1>1, AppendProperties DEF TraceTypes
  <1> HIDE DEF last
  <1>3. \A n \in 1..Len(executed) : n \in 1..last /\ 1..n \in SUBSET (1..Len(executed))
    BY <1>2 DEF last
  <1>4. last \in 1..last
    BY <1>2 DEF last
  <1>5. \A n \in 1..last : n \in 1..Len(executed) \/ n = last
    BY <1>2 DEF last
  <1>6. ASSUME NEW q \in Programs
        PROVE  q \in vmids' <=> \E n \in DOMAIN executed' : executed'[n][1] = q
    <2>1. q \in vmids' <=> q \in vmids \/ q = p
      BY DEF Dispatch
    <2>2. <<p, f>>[1] = p
      OBVIOUS
    <2>. QED  BY <1>2, <1>3, <1>4, <1>5, <2>1, <2>2 DEF DumpInv, DumpTypes
  <1>7. finalDumps \in Seq(Programs) /\ Len(finalDumps) \in Nat
    BY DEF DumpInv, DumpTypes
  <1>8. CASE finalDumps' = finalDumps
    <2>1. DumpedOnce'
      <3> SUFFICES ASSUME NEW k \in DOMAIN finalDumps
                   PROVE  \E n \in DOMAIN executed' :
                            /\ executed'[n][1] = finalDumps[k]
                            /\ \A l \in (k + 1)..Len(finalDumps), m \in 1..n : executed'[m][1] # finalDumps[l]
        BY <1>8 DEF DumpedOnce
      <3>1. PICK n \in DOMAIN executed :
              /\ executed[n][1] = finalDumps[k]
              /\ \A l \in (k + 1)..Len(finalDumps), m \in 1..n : executed[m][1] # finalDumps[l]
        BY DEF DumpInv, DumpedOnce
      <3>. QED  BY <1>2, <1>3, <3>1
    <2>. QED  BY <1>6, <1>7, <1>8, <2>1 DEF DumpInv, DumpTypes
  <1>9. CASE finalDumps' = Append(finalDumps, p) /\ p \notin vmids
    <2> DEFINE new == Len(finalDumps) + 1
    <2>1. /\ finalDumps' \in Seq(Programs) /\ Len(finalDumps') = new
          /\ DOMAIN finalDumps' = 1..new /\ DOMAIN finalDumps = 1..Len(finalDumps)
          /\ \A k \in 1..Len(finalDumps) : finalDumps'[k] = finalDumps[k]
          /\ finalDumps'[new] = p
      BY <1>7, <1>9, AppendProperties
    <2>2. new \in Nat /\ (new + 1)..new = {}
      BY <1>7
    <2>3. \A k \in 1..new : k \in 1..Len(finalDumps) \/ k = new
      BY <1>7
    <2>4. \A k \in 1..Len(finalDumps) : \A l \in (k + 1)..new :
            l = new \/ (l \in (k + 1)..Len(finalDumps) /\ l \in 1..Len(finalDumps))
      BY <1>7
    <2> HIDE DEF new
    <2>5. DumpedOnce'
      <3> SUFFICES ASSUME NEW k \in 1..new
                   PROVE  \E n \in DOMAIN executed' :
                            /\ executed'[n][1] = finalDumps'[k]
                            /\ \A l \in (k + 1)..new, m \in 1..n : executed'[m][1] # finalDumps'[l]
        BY <2>1 DEF DumpedOnce
      <3>1. CASE k = new
        <4>1. executed'[last][1] = finalDumps'[k]
          BY <1>2, <2>1, <3>1
        <4>. QED  BY <1>2, <1>4, <2>2, <3>1, <4>1
      <3>2. CASE k \in 1..Len(finalDumps)
        <4>0. k \in DOMAIN finalDumps
          BY <2>1, <3>2
        <4>1. PICK n \in DOMAIN executed :
                /\ executed[n][1] = finalDumps[k]
                /\ \A l \in (k + 1)..Len(finalDumps), m \in 1..n : executed[m][1] # finalDumps[l]
          BY <4>0 DEF DumpInv, DumpedOnce
        <4>2. ASSUME NEW l \in (k + 1)..new, NEW m \in 1..n
              PROVE  executed'[m][1] # finalDumps'[l]
          <5>1. m \in 1..Len(executed) /\ executed'[m] = executed[m]
            BY <1>2, <1>3
          <5>2. CASE l = new
            <6>1. executed[m][1] # p
              BY <1>2, <1>9, <5>1 DEF DumpInv, DumpTypes
            <6>. QED  BY <2>1, <5>1, <5>2, <6>1
          <5>3. CASE l \in (k + 1)..Len(finalDumps) /\ l \in 1..Len(finalDumps)
            BY <2>1, <4>1, <5>1, <5>3
          <5>. QED  BY <2>4, <3>2, <5>2, <5>3
        <4>. QED  BY <1>2, <1>3, <2>1, <3>2, <4>1, <4>2
      <3>. QED  BY <2>3, <3>1, <3>2
    <2>. QED  BY <1>6, <2>1, <2>5 DEF DumpInv, DumpTypes
  <1>. QED  BY <1>8, <1>9 DEF Dispatch, VMDUMPFINAL

(* Only a dispatch dumps.                                                  *)
LEMMA DumpStep == TraceTypes /\ DumpInv /\ [Next]_vars => DumpInv'
  <1> SUFFICES ASSUME TraceTypes, DumpInv, [Next]_vars PROVE DumpInv'
    OBVIOUS
  <1>1. CASE UNCHANGED <<finalDumps, vmids, executed>>
    BY <1>1 DEF DumpInv, DumpTypes, DumpedOnce
  <1>2. CASE Guest
    <2>1. CASE Compute \/ DecodeMore \/ GuestPrint
      BY <1>1, <2>1 DEF Compute, DecodeMore, GuestPrint, tracing
    <2>2. CASE TaskWait
      BY <1>1, <2>2 DEF TaskWait, uncaught, unwind, tracing
    <2>3. CASE GuestEnds
      BY <1>1, <2>3 DEF GuestEnds, unwind
    <2>4. ASSUME NEW p \in Programs, CallMethod(p)
          PROVE  DumpInv'
      BY <1>1, <2>4 DEF CallMethod, uncaught, unwind, tracing
    <2>. QED  BY <1>2, <2>1, <2>2, <2>3, <2>4, DumpsDispatch DEF Guest
  <1>3. CASE Return
    BY <1>1, <1>3 DEF Return, tracing
  <1>4. CASE Done \/ UNCHANGED vars
    BY <1>1, <1>4 DEF Done, vars, tracing
  <1>. QED  BY <1>2, <1>3, <1>4 DEF Next

--------------------------------------------------------------------------------
(* What is returned.                                                       *)

Opcodes == Seq(Nat)

(* What holds of the snapshots kept of the first n, the longest first.     *)
Complete(s, n, kept) ==
  /\ \A k \in 1..Len(kept) : \E i \in 1..n : kept[k] = s[i]
  /\ \A i \in 1..n : \E k \in 1..Len(kept) : IsPrefix(s[i], kept[k])
  /\ \A k, l \in 1..Len(kept) : k # l => ~IsPrefix(kept[k], kept[l])

(* A shorter snapshot is the beginning of a kept one, or no other is its   *)
(* beginning.                                                              *)
LEMMA KeepComplete ==
  ASSUME NEW s \in Seq(Opcodes), \A i, j \in 1..Len(s) : i < j => Len(s[j]) <= Len(s[i]),
         NEW n \in 1..Len(s), NEW kept \in Seq(Opcodes), Complete(s, n - 1, kept)
  PROVE  keep(kept, s[n]) \in Seq(Opcodes) /\ Complete(s, n, keep(kept, s[n]))
  <1> DEFINE d == s[n]
  <1>1. /\ n \in Nat /\ \A i \in 1..n : i \in 1..(n - 1) \/ i = n
        /\ \A i \in 1..(n - 1) : i \in 1..n /\ i \in 1..Len(s) /\ i < n
    OBVIOUS
  <1>2. Len(kept) \in Nat /\ DOMAIN kept = 1..Len(kept)
        /\ \A k \in 1..Len(kept) : kept[k] \in Opcodes
    OBVIOUS
  <1>3. d \in Opcodes /\ n \in 1..n
    OBVIOUS
  <1>4. CASE \E k \in 1..Len(kept) : IsPrefix(d, kept[k])
    <2>1. keep(kept, d) = kept
      BY <1>2, <1>4 DEF keep
    <2>. QED  BY <1>1, <1>4, <2>1 DEF Complete
  <1>5. CASE \A k \in 1..Len(kept) : ~IsPrefix(d, kept[k])
    <2> DEFINE after == Append(kept, d)
               new == Len(kept) + 1
    <2>1. keep(kept, d) = after
      BY <1>2, <1>5 DEF keep
    <2>2. /\ after \in Seq(Opcodes) /\ Len(after) = new
          /\ \A k \in 1..Len(kept) : after[k] = kept[k]
          /\ after[new] = d
      BY <1>2, <1>3, AppendProperties
    <2>3. /\ new \in 1..new /\ \A k \in 1..new : k \in 1..Len(kept) \/ k = new
          /\ \A k \in 1..Len(kept) : k \in 1..new
      <3>1. \A m \in Nat : /\ m + 1 \in 1..(m + 1)
                           /\ \A k \in 1..(m + 1) : k \in 1..m \/ k = m + 1
                           /\ \A k \in 1..m : k \in 1..(m + 1)
        OBVIOUS
      <3>. QED  BY <1>2, <3>1
    <2> HIDE DEF after, new
    <2>4. IsPrefix(d, d)
      BY <1>3, PrefixElements DEF Opcodes
    <2>5. ASSUME NEW k \in 1..Len(kept)
          PROVE  ~IsPrefix(kept[k], d)
      <3>1. PICK i \in 1..(n - 1) : kept[k] = s[i]
        BY DEF Complete
      <3>2. Len(d) <= Len(kept[k])
        BY <1>1, <3>1
      <3>3. ASSUME IsPrefix(kept[k], d)
            PROVE  FALSE
        <4> DEFINE c == kept[k]
        <4>1. c \in Seq(Nat) /\ d \in Seq(Nat) /\ Len(d) <= Len(c) /\ IsPrefix(c, d)
          BY <1>2, <1>3, <3>2, <3>3 DEF Opcodes
        <4> HIDE DEF c, d
        <4>2. Len(c) <= Len(d) /\ \A j \in 1..Len(c) : c[j] = d[j]
          BY <4>1, PrefixElements
        <4>3. Len(c) = Len(d)
          BY <4>1, <4>2
        <4>4. IsPrefix(d, c)
          BY <4>1, <4>2, <4>3, PrefixElements
        <4>. QED  BY <1>5, <4>4 DEF c
      <3>. QED  BY <3>3
    <2>6. ASSUME NEW k \in 1..Len(after)
          PROVE  \E i \in 1..n : after[k] = s[i]
      <3>1. CASE k = new
        BY <1>3, <2>2, <3>1
      <3>2. CASE k \in 1..Len(kept)
        <4>1. PICK i \in 1..(n - 1) : kept[k] = s[i]
          BY <3>2 DEF Complete
        <4>. QED  BY <1>1, <2>2, <3>2, <4>1
      <3>. QED  BY <2>2, <2>3, <3>1, <3>2
    <2>7. \A i \in 1..n : \E k \in 1..Len(after) : IsPrefix(s[i], after[k])
      BY <1>1, <2>2, <2>3, <2>4 DEF Complete
    <2>8. \A k, l \in 1..Len(after) : k # l => ~IsPrefix(after[k], after[l])
      BY <1>5, <2>2, <2>3, <2>5 DEF Complete
    <2>. QED  BY <2>1, <2>2, <2>6, <2>7, <2>8 DEF Complete
  <1>. QED  BY <1>4, <1>5

(* The recursive function in the definition of Kept exists, and none of    *)
(* the snapshots is missing from what it ends in.                          *)
LEMMA KeptComplete ==
  ASSUME NEW s \in Seq(Opcodes), \A i, j \in 1..Len(s) : i < j => Len(s[j]) <= Len(s[i])
  PROVE  Kept(s) \in Seq(Opcodes) /\ Complete(s, Len(s), Kept(s))
  <1> DEFINE body(g) == [n \in 0..Len(s) |-> IF n = 0 THEN <<>> ELSE keep(g[n - 1], s[n])]
             kept == CHOOSE g : g = body(g)
             A == Seq(Opcodes)
             G == [x \in (1..Len(s)) \X A |-> keep(x[2], s[x[1]])]
  <1>0. Len(s) \in Nat /\ \A n \in 1..Len(s) : s[n] \in Opcodes
    OBVIOUS
  <1>1. <<>> \in A
    OBVIOUS
  <1>2. G \in [(1..Len(s)) \X A -> A]
    <2>1. \A k \in A, d \in Opcodes : keep(k, d) \in A
      BY DEF keep
    <2> HIDE DEF A
    <2>. QED  BY <1>0, <2>1
  <1>3. PICK f \in [0..Len(s) -> A] : Steps(f, Len(s), <<>>, G)
    <2> HIDE DEF G, A
    <2>. QED  BY <1>0, <1>1, <1>2, StepsExist
  <1> HIDE DEF A
  <1>4. ASSUME NEW n \in 1..Len(s)
        PROVE  f[n] = keep(f[n - 1], s[n])
    <2>1. n - 1 \in 0..Len(s) /\ f[n - 1] \in A
      BY <1>0, <1>3
    <2>2. G[<<n, f[n - 1]>>] = keep(f[n - 1], s[n])
      BY <2>1
    <2>. QED  BY <1>3, <2>2 DEF Steps
  <1>5. f[0] = <<>>
    BY <1>3 DEF Steps
  <1>6. f = body(f)
    BY <1>0, <1>3, <1>4, <1>5
  <1>7. kept = body(kept)
    BY <1>6
  <1>8. Kept(s) = kept[Len(s)]
    BY DEF Kept
  <1> DEFINE S == {n \in 0..Len(s) : kept[n] = f[n] /\ Complete(s, n, f[n])}
  <1> HIDE DEF kept
  <1>9. 0 \in S
    <2>1. Complete(s, 0, <<>>)
      BY DEF Complete
    <2>. QED  BY <1>0, <1>5, <1>7, <2>1
  <1>10. ASSUME NEW n \in 1..Len(s), n - 1 \in S
         PROVE  n \in S
    <2>1. n \in 0..Len(s) /\ n - 1 \in 0..Len(s) /\ n # 0
      BY <1>0
    <2>2. kept[n] = f[n]
      BY <1>4, <1>7, <1>10, <2>1
    <2>3. f[n - 1] \in Seq(Opcodes)
      BY <1>3, <2>1 DEF A
    <2>4. Complete(s, n, f[n])
      BY <1>4, <1>10, <2>3, KeepComplete
    <2>. QED  BY <2>1, <2>2, <2>4
  <1>11. Len(s) \in 0..Len(s)
    BY <1>0
  <1> HIDE DEF S
  <1>12. Len(s) \in S
    BY <1>0, <1>9, <1>10, <1>11, UpTo
  <1>. QED  BY <1>3, <1>8, <1>11, <1>12 DEF S, A

--------------------------------------------------------------------------------
(* What has been decoded, and the snapshots of it.                         *)
SnapshotTypes ==
  /\ decoded \in [Programs -> Nat] /\ \A p \in Programs : decoded[p] <= Len(code[p])
  /\ rawJsons \in Seq(Opcodes)

SnapshotInv == SnapshotTypes /\ MostCompleteKept

(* The snapshots are all ranked, the longest first.                        *)
LEMMA RankedSorted ==
  ASSUME rawJsons \in Seq(Opcodes)
  PROVE  /\ ranked \in Seq(Opcodes) /\ Len(ranked) = Len(rawJsons)
         /\ \A i, j \in 1..Len(ranked) : i < j => Len(ranked[j]) <= Len(ranked[i])
         /\ \A i \in 1..Len(rawJsons) : \E k \in 1..Len(ranked) : ranked[k] = rawJsons[i]
  <1> DEFINE n == Len(rawJsons)
             D == 1..n
             R == {p \in D \X D : longer(p[1], p[2])}
             places == ordered(D, R)
  <1>1. /\ n \in Nat /\ DOMAIN rawJsons = D
        /\ \A i \in D : Len(rawJsons[i]) \in Nat /\ rawJsons[i] \in Opcodes
    <2>1. \A o \in Opcodes : Len(o) \in Nat
      BY DEF Opcodes
    <2>. QED  BY <2>1
  <1>2. IsFiniteSet(D) /\ Cardinality(D) = n
    <2>1. \A m \in Nat : IsFiniteSet(1..m) /\ Cardinality(1..m) = m
      BY FS_Interval
    <2>. QED  BY <1>1, <2>1
  <1>3. \A i, j \in D : <<i, j>> \in R <=> longer(i, j)
    OBVIOUS
  <1>4. /\ \A i \in D : ~longer(i, i)
        /\ \A i, j, k \in D : longer(i, j) /\ longer(j, k) => longer(i, k)
        /\ \A i, j \in D : i # j => longer(i, j) \/ longer(j, i)
    <2> DEFINE len(i) == Len(rawJsons[i])
    <2>1. \A i \in D : i \in Nat /\ len(i) \in Nat
      BY <1>1
    <2>2. \A i, j \in D : longer(i, j) <=> len(i) > len(j) \/ (len(i) = len(j) /\ i < j)
      BY DEF longer
    <2> HIDE DEF D, len
    <2>. QED  BY <2>1, <2>2
  <1> HIDE DEF D, R
  <1>5. /\ \A x \in D : <<x, x>> \notin R
        /\ \A x, y, z \in D : <<x, y>> \in R /\ <<y, z>> \in R => <<x, z>> \in R
        /\ \A x, y \in D : x # y => <<x, y>> \in R \/ <<y, x>> \in R
    BY <1>3, <1>4
  <1>6. /\ \A k \in 1..n : places[k] \in D
        /\ \A k, l \in 1..n : k < l => <<places[k], places[l]>> \in R
    BY <1>2, <1>5, OrderedIsSorted
  <1>7. \A x \in D : \E k \in 1..n : places[k] = x
    BY <1>2, <1>5, OrderedIsOnto
  <1>8. ranked = [k \in D |-> rawJsons[places[k]]]
    BY <1>1 DEF ranked, R
  <1> HIDE DEF places
  <1>9. D = 1..n
    BY DEF D
  <1> HIDE DEF n
  <1>10. /\ ranked \in Seq(Opcodes) /\ Len(ranked) = n
         /\ \A k \in 1..n : ranked[k] = rawJsons[places[k]]
    BY <1>1, <1>6, <1>8, <1>9
  <1>11. ASSUME NEW i \in 1..n, NEW j \in 1..n, i < j
         PROVE  Len(ranked[j]) <= Len(ranked[i])
    <2>1. longer(places[i], places[j])
      BY <1>3, <1>6, <1>11
    <2>2. Len(rawJsons[places[j]]) <= Len(rawJsons[places[i]])
      BY <1>1, <1>6, <2>1 DEF longer
    <2>. QED  BY <1>10, <2>2
  <1>12. \A i \in 1..n : \E k \in 1..n : ranked[k] = rawJsons[i]
    BY <1>7, <1>9, <1>10
  <1>. QED  BY <1>10, <1>11, <1>12 DEF n

(* No snapshot has been taken.                                             *)
LEMMA SnapshotInit == Init => SnapshotInv
  <1> SUFFICES ASSUME Init PROVE SnapshotInv
    OBVIOUS
  <1>1. rawJsons \in Seq(Opcodes) /\ pc # "done"
    BY DEF Init
  <1>2. \A p \in Programs : Len(code[p]) \in Nat
    BY DynamicDecodeAssumption
  <1>3. decoded \in [Programs -> Nat] /\ \A p \in Programs : decoded[p] <= Len(code[p])
    BY <1>2 DEF Init
  <1>. QED  BY <1>1, <1>3 DEF SnapshotInv, SnapshotTypes, MostCompleteKept

(* What is returned is all that was kept, or at the cap.                   *)
LEMMA ReturnKeeps ==
  ASSUME SnapshotInv, Return
  PROVE  SnapshotInv'
  <1> DEFINE kept == Kept(ranked)
  <1>1. /\ dumps' = SubSeq(kept, 1, minimum(Len(kept), KeptCap))
        /\ rawJsons' = rawJsons /\ decoded' = decoded
    BY DEF Return, snapshots
  <1>2. /\ ranked \in Seq(Opcodes) /\ Len(ranked) = Len(rawJsons)
        /\ \A i, j \in 1..Len(ranked) : i < j => Len(ranked[j]) <= Len(ranked[i])
        /\ \A i \in 1..Len(rawJsons) : \E k \in 1..Len(ranked) : ranked[k] = rawJsons[i]
    BY RankedSorted DEF SnapshotInv, SnapshotTypes
  <1>3. kept \in Seq(Opcodes) /\ Complete(ranked, Len(ranked), kept)
    BY <1>2, KeptComplete
  <1>4. KeptCap \in Nat
    BY DynamicDecodeAssumption
  <1> HIDE DEF kept
  <1>5. ASSUME Len(dumps') < KeptCap
        PROVE  dumps' = kept
    <2>1. Len(kept) \in Nat
      BY <1>3
    <2>2. CASE Len(kept) < KeptCap
      <3>1. minimum(Len(kept), KeptCap) = Len(kept)
        BY <2>2 DEF minimum
      <3>. QED  BY <1>1, <1>3, <3>1
    <2>3. CASE ~(Len(kept) < KeptCap)
      <3>1. minimum(Len(kept), KeptCap) = KeptCap
        BY <2>3 DEF minimum
      <3>2. Len(SubSeq(kept, 1, KeptCap)) = KeptCap
        BY <1>3, <1>4, <2>1, <2>3
      <3>. QED  BY <1>1, <1>4, <1>5, <3>1, <3>2
    <2>. QED  BY <2>2, <2>3
  <1>6. MostCompleteKept'
    <2> SUFFICES ASSUME Len(dumps') < KeptCap
                 PROVE  /\ \A i \in DOMAIN rawJsons : \E k \in DOMAIN kept : IsPrefix(rawJsons[i], kept[k])
                        /\ \A k, l \in DOMAIN kept : k # l => ~IsPrefix(kept[k], kept[l])
      BY <1>1, <1>5 DEF MostCompleteKept
    <2>1. DOMAIN kept = 1..Len(kept) /\ DOMAIN rawJsons = 1..Len(rawJsons)
      BY <1>3 DEF SnapshotInv, SnapshotTypes
    <2>. QED  BY <1>2, <1>3, <2>1 DEF Complete
  <1>. QED  BY <1>1, <1>6 DEF SnapshotInv, SnapshotTypes

(* Snapshots are only taken while the guest runs.                          *)
LEMMA SnapshotStep == SnapshotInv /\ [Next]_vars => SnapshotInv'
  <1> SUFFICES ASSUME SnapshotInv, [Next]_vars PROVE SnapshotInv'
    OBVIOUS
  <1>1. ASSUME pc' = "done" => pc = "done" /\ rawJsons' = rawJsons /\ dumps' = dumps, SnapshotTypes'
        PROVE  SnapshotInv'
    BY <1>1 DEF SnapshotInv, MostCompleteKept
  <1>2. ASSUME rawJsons' = rawJsons, decoded' = decoded, dumps' = dumps, pc' = "done" => pc = "done"
        PROVE  SnapshotInv'
    BY <1>1, <1>2 DEF SnapshotInv, SnapshotTypes
  <1>3. CASE Guest
    <2>1. CASE Compute \/ GuestPrint
      BY <1>2, <2>1 DEF Compute, GuestPrint, snapshots
    <2>2. CASE TaskWait
      BY <1>2, <2>2 DEF TaskWait, uncaught, unwind, snapshots
    <2>3. CASE GuestEnds
      BY <1>2, <2>3 DEF GuestEnds, unwind, snapshots
    <2>4. CASE DecodeMore
      <3>1. PICK p \in Programs : decoded[p] < Len(code[p]) /\ decoded' = [decoded EXCEPT ![p] = @ + 1]
        BY <2>4 DEF DecodeMore
      <3>2. Len(code[p]) \in Nat
        BY DynamicDecodeAssumption
      <3>3. decoded' \in [Programs -> Nat] /\ \A q \in Programs : decoded'[q] <= Len(code[q])
        BY <3>1, <3>2 DEF SnapshotInv, SnapshotTypes
      <3>4. rawJsons' = rawJsons /\ dumps' = dumps /\ pc' = pc /\ pc = "run"
        BY <2>4 DEF DecodeMore, snapshots
      <3>. QED  BY <1>1, <3>3, <3>4 DEF SnapshotInv, SnapshotTypes
    <2>5. ASSUME NEW p \in Programs, CallMethod(p)
          PROVE  SnapshotInv'
      <3>1. snapshot(p) \in Opcodes
        <4>1. code[p] \in Seq(Nat) /\ decoded[p] \in Nat /\ decoded[p] <= Len(code[p])
          BY DynamicDecodeAssumption DEF SnapshotInv, SnapshotTypes
        <4>. QED  BY <4>1 DEF snapshot, Opcodes
      <3>2. rawJsons \in Seq(Opcodes)
        BY DEF SnapshotInv, SnapshotTypes
      <3>3. rawJsons' \in Seq(Opcodes) /\ pc' # "done" /\ decoded' = decoded
        <4>1. rawJsons' = rawJsons \/ rawJsons' = Append(rawJsons, snapshot(p))
          BY <2>5 DEF CallMethod
        <4>2. pc' # "done" /\ decoded' = decoded
          BY <2>5 DEF CallMethod, uncaught, unwind
        <4>. QED  BY <3>1, <3>2, <4>1, <4>2
      <3>. QED  BY <1>1, <3>3 DEF SnapshotInv, SnapshotTypes
    <2>6. ASSUME NEW p \in Programs, Dispatch(p)
          PROVE  SnapshotInv'
      BY <1>2, <2>6 DEF Dispatch, snapshots
    <2>. QED  BY <1>3, <2>1, <2>2, <2>3, <2>4, <2>5, <2>6 DEF Guest
  <1>4. CASE Return
    BY <1>4, ReturnKeeps
  <1>5. CASE Done \/ UNCHANGED vars
    BY <1>2, <1>5 DEF Done, vars, snapshots
  <1>. QED  BY <1>3, <1>4, <1>5 DEF Next

(* No program is dumped twice, and the snapshots returned are the most     *)
(* complete of those taken.                                                *)
THEOREM DumpsCorrect == Spec => []DumpsKept
  <1>1. Init => DumpInv
    BY DEF Init, DumpInv, DumpTypes, DumpedOnce
  <1>2. TraceInv => TraceTypes
    BY DEF TraceInv
  <1>3. DumpInv /\ SnapshotInv => DumpsKept
    BY DEF DumpInv, SnapshotInv, DumpsKept
  <1>. QED
    BY <1>1, <1>2, <1>3, TraceInit, TraceStep, DumpStep, SnapshotInit, SnapshotStep, PTL DEF Spec
================================================================================
