-------------------------- MODULE AgentLoopProofs --------------------------
(* Proofs about AgentLoop and the workdir its runs share. *)
EXTENDS AgentLoop, FiniteSetTheorems, SequenceTheorems, WellFoundedInduction, TLAPS

-----------------------------------------------------------------------------
(* The largest element of a bounded set of numbers. *)

Below == {ss \in Nat \X Nat : ss[1] < ss[2]}

LEMMA BelowIsWellFounded == IsWellFoundedOn(Below, Nat)
  BY NatLessThanWellFounded DEF OpToRel, Below

LEMMA HasMin ==
  ASSUME NEW T \in SUBSET Nat, T # {}
  PROVE  \E x \in T : \A y \in T : x <= y
  <1>1. PICK x \in T : \A y \in T : ~ (<<y, x>> \in Below)
    BY BelowIsWellFounded, WFMin
  <1>2. ASSUME NEW y \in T PROVE x <= y
    <2>1. x \in Nat /\ y \in Nat /\ <<y, x>> \in Nat \X Nat /\ <<y, x>>[1] = y /\ <<y, x>>[2] = x
      OBVIOUS
    <2>2. ~ (y < x)
      BY <1>1, <2>1 DEF Below
    <2> QED BY <2>1, <2>2
  <1> QED BY <1>2

LEMMA HasMax ==
  ASSUME NEW S \in SUBSET Nat, S # {}, NEW b \in Nat, \A x \in S : x <= b
  PROVE  Max(S) \in S /\ \A y \in S : y <= Max(S)
  <1> DEFINE T == {b - x : x \in S}
  <1>1. T \in SUBSET Nat
    <2>1. \A x \in S : b - x \in Nat
      OBVIOUS
    <2> QED BY <2>1
  <1>2. T # {}
    OBVIOUS
  <1> HIDE DEF T
  <1>3. PICK t \in T : \A y \in T : t <= y
    BY <1>1, <1>2, HasMin
  <1>4. PICK x \in S : t = b - x
    BY <1>3 DEF T
  <1>5. \A y \in S : x >= y
    <2>1. \A y \in S : t <= b - y
      BY <1>3 DEF T
    <2> QED BY <2>1, <1>4
  <1> QED BY <1>5 DEF Max

-----------------------------------------------------------------------------
(* The conversation of a run. *)

Messages == Seq(Message)

LEMMA MessageTypes ==
  /\ \A n \in Nat : Calls(n) \in Message
  /\ \A n \in Nat, v \in {"none", "ran", "rejected", "abandoned"} : Result(n, v) \in Message
  /\ Ceiling \in Message
  BY DEF Calls, Result, Ceiling, Message

\* What an appended message is and what it leaves alone.
LEMMA Appended ==
  ASSUME NEW s \in Messages, NEW m \in Message
  PROVE  /\ Append(s, m) \in Messages
         /\ Len(Append(s, m)) = Len(s) + 1
         /\ DOMAIN Append(s, m) = 1..(Len(s) + 1)
         /\ DOMAIN s = 1..Len(s)
         /\ Append(s, m)[Len(s) + 1] = m
         /\ \A i \in 1..Len(s) : Append(s, m)[i] = s[i]
         /\ Len(s) \in Nat
         /\ \A i \in 1..Len(s) : s[i].n \in Nat /\ s[i] \in Message
  <1>1. /\ Append(s, m) \in Messages
        /\ Len(Append(s, m)) = Len(s) + 1
        /\ DOMAIN Append(s, m) = 1..(Len(s) + 1)
        /\ DOMAIN s = 1..Len(s)
        /\ Append(s, m)[Len(s) + 1] = m
        /\ \A i \in 1..Len(s) : Append(s, m)[i] = s[i]
        /\ Len(s) \in Nat
    BY DEF Messages
  <1>2. \A i \in 1..Len(s) : s[i] \in Message
    BY DEF Messages
  <1>3. \A x \in Message : x.n \in Nat
    BY DEF Message
  <1> QED BY <1>1, <1>2, <1>3

\* A completion with calls begins to be answered.
LEMMA AppendCalls ==
  ASSUME NEW s \in Messages, Ordered(s, 0), NEW n \in Nat \ {0}
  PROVE  LET t == Append(s, Calls(n)) IN
         /\ Ordered(t, Len(s) + 1)
         /\ Len(s) + 1 \in Asked(t) /\ t[Len(s) + 1].n = n
         /\ Rejected(t) = Rejected(s)
  <1> DEFINE t == Append(s, Calls(n))
  <1>1. /\ Len(t) = Len(s) + 1 /\ DOMAIN t = 1..(Len(s) + 1) /\ DOMAIN s = 1..Len(s)
        /\ t[Len(s) + 1] = Calls(n) /\ Len(s) \in Nat
        /\ \A i \in 1..Len(s) : t[i] = s[i] /\ s[i].n \in Nat
    <2>1. Calls(n) \in Message
      BY MessageTypes
    <2> QED BY <2>1, Appended
  <1> HIDE DEF t
  <1>2. Asked(t) = Asked(s) \cup {Len(s) + 1} /\ Results(t) = Results(s)
    <2>1. t[Len(s) + 1].role = "assistant"
      BY <1>1 DEF Calls
    <2>2. \A i \in 1..Len(s) : t[i].role = s[i].role
      BY <1>1
    <2>3. DOMAIN t = DOMAIN s \cup {Len(s) + 1} /\ \A i \in DOMAIN s : i \in 1..Len(s)
      BY <1>1
    <2> QED BY <2>1, <2>2, <2>3 DEF Asked, Results
  <1>3. Rejected(t) = Rejected(s)
    BY <1>1, <1>2 DEF Rejected, Results
  <1>4. Len(s) + 1 \in Asked(t) /\ t[Len(s) + 1].n = n
    <2>1. t[Len(s) + 1].n = n
      BY <1>1 DEF Calls
    <2> QED BY <1>2, <2>1
  <1>5. ASSUME NEW j \in DOMAIN t
        PROVE  j \in Results(t) <=> \E i \in Asked(t) : i < j /\ j <= i + t[i].n
    <2>1. CASE j \in 1..Len(s)
      <3>1. j \in Results(s) <=> \E i \in Asked(s) : i < j /\ j <= i + s[i].n
        BY <2>1, <1>1 DEF Ordered
      <3> QED BY <2>1, <3>1, <1>1, <1>2 DEF Asked
    <2>2. CASE j = Len(s) + 1
      <3>1. \A i \in Asked(s) : i + s[i].n <= Len(s) /\ i \in 1..Len(s)
        BY <1>1 DEF Ordered, Asked
      <3> QED BY <2>2, <3>1, <1>1, <1>2 DEF Results
    <2> QED BY <2>1, <2>2, <1>1
  <1>6. ASSUME NEW i \in Asked(t), NEW j \in 1..t[i].n, i + j <= Len(t)
        PROVE  t[i + j].n = j
    <2>1. i \in Asked(s)
      BY <1>1, <1>2, <1>6
    <2>2. i \in 1..Len(s) /\ i + s[i].n <= Len(s) /\ t[i] = s[i] /\ s[i].n \in Nat
      BY <2>1, <1>1 DEF Ordered, Asked
    <2>3. s[i + j].n = j /\ i + j \in 1..Len(s)
      BY <2>1, <2>2 DEF Ordered
    <2> QED BY <2>3, <1>1
  <1>7. ASSUME NEW i \in Asked(t), i # Len(s) + 1
        PROVE  i + t[i].n <= Len(t)
    <2>1. i \in Asked(s) /\ i \in 1..Len(s)
      BY <1>1, <1>2, <1>7 DEF Asked
    <2> QED BY <2>1, <1>1 DEF Ordered
  <1>8. Ordered(t, Len(s) + 1)
    BY <1>5, <1>6, <1>7 DEF Ordered
  <1> QED BY <1>3, <1>4, <1>8 DEF t

\* The next tool message of the completion at a; after its last one nothing lacks.
LEMMA AppendResult ==
  ASSUME NEW s \in Messages, NEW a \in Asked(s), Ordered(s, a), NEW k \in 1..s[a].n,
         Len(s) + 1 = a + k, NEW v \in {"ran", "rejected", "abandoned"}
  PROVE  LET t == Append(s, Result(k, v)) IN
         /\ Ordered(t, a)
         /\ k = s[a].n => Ordered(t, 0)
         /\ a \in Asked(t) /\ t[a] = s[a]
         /\ Rejected(t) = IF v = "rejected" THEN Rejected(s) \cup {Len(s) + 1} ELSE Rejected(s)
  <1> DEFINE t == Append(s, Result(k, v))
  <1>0. k \in Nat /\ s[a].n \in Nat /\ a \in 1..Len(s) /\ k <= s[a].n /\ 1 <= k
    <2>1. a \in 1..Len(s)
      BY DEF Messages, Asked
    <2>2. s[a].n \in Nat
      BY <2>1, Appended, MessageTypes
    <2> QED BY <2>1, <2>2
  <1>1. /\ Len(t) = Len(s) + 1 /\ DOMAIN t = 1..(Len(s) + 1) /\ DOMAIN s = 1..Len(s)
        /\ t[Len(s) + 1] = Result(k, v) /\ Len(s) \in Nat
        /\ \A i \in 1..Len(s) : t[i] = s[i] /\ s[i].n \in Nat
    <2>1. Result(k, v) \in Message
      BY <1>0, MessageTypes
    <2> QED BY <2>1, Appended
  <1> HIDE DEF t
  <1>2. Asked(t) = Asked(s) /\ Results(t) = Results(s) \cup {Len(s) + 1}
    BY <1>1 DEF Asked, Results, Result
  <1>3. Rejected(t) = IF v = "rejected" THEN Rejected(s) \cup {Len(s) + 1} ELSE Rejected(s)
    <2>1. \A i \in 1..Len(s) : i \in Rejected(t) <=> i \in Rejected(s)
      BY <1>1, <1>2 DEF Rejected
    <2>2. Len(s) + 1 \in Rejected(t) <=> v = "rejected"
      BY <1>1, <1>2 DEF Rejected, Result
    <2>3. Rejected(t) \subseteq 1..(Len(s) + 1) /\ Rejected(s) \subseteq 1..Len(s)
      BY <1>1 DEF Rejected, Results
    <2>4. CASE v = "rejected"
      <3>1. Rejected(t) = Rejected(s) \cup {Len(s) + 1}
        BY <2>1, <2>2, <2>3, <2>4, <1>1
      <3> QED BY <3>1, <2>4
    <2>5. CASE v # "rejected"
      <3>0. Len(s) + 1 \notin Rejected(t)
        BY <2>2, <2>5
      <3>1. \A i : i \in Rejected(t) => i \in 1..Len(s)
        BY <2>3, <3>0, <1>1
      <3>2. Rejected(t) = Rejected(s)
        BY <2>1, <2>3, <3>1
      <3> QED BY <3>2, <2>5
    <2> QED BY <2>4, <2>5
  <1>4. \A i \in Asked(s) : i \in 1..Len(s) /\ (i # a => i + s[i].n <= Len(s))
    BY <1>1 DEF Ordered, Asked
  <1>5. ASSUME NEW j \in DOMAIN t
        PROVE  j \in Results(t) <=> \E i \in Asked(t) : i < j /\ j <= i + t[i].n
    <2>1. CASE j \in 1..Len(s)
      <3>1. j \in Results(s) <=> \E i \in Asked(s) : i < j /\ j <= i + s[i].n
        BY <2>1, <1>1 DEF Ordered
      <3> QED BY <2>1, <3>1, <1>1, <1>2, <1>4
    <2>2. CASE j = Len(s) + 1
      <3>1. a \in Asked(t) /\ a < j /\ j <= a + t[a].n
        BY <2>2, <1>0, <1>1, <1>2
      <3> QED BY <2>2, <3>1, <1>2
    <2> QED BY <2>1, <2>2, <1>1
  <1>6. ASSUME NEW i \in Asked(t), NEW j \in 1..t[i].n, i + j <= Len(t)
        PROVE  t[i + j].n = j
    <2>1. i \in Asked(s) /\ i \in 1..Len(s) /\ t[i] = s[i] /\ s[i].n \in Nat
      BY <1>1, <1>2, <1>4, <1>6
    <2>2. CASE i + j <= Len(s)
      <3>1. s[i + j].n = j /\ i + j \in 1..Len(s)
        BY <2>1, <2>2 DEF Ordered
      <3> QED BY <3>1, <1>1
    <2>3. CASE i + j = Len(s) + 1
      <3>1. i = a
        BY <2>1, <2>3, <1>1, <1>4
      <3>2. j = k
        BY <3>1, <2>3, <1>0
      <3> QED BY <3>2, <2>3, <1>1 DEF Result
    <2>4. j \in Nat /\ i + j <= Len(s) + 1
      BY <2>1, <1>1, <1>6
    <2>5. i + j <= Len(s) \/ i + j = Len(s) + 1
      BY <2>1, <2>4, <1>1
    <2> QED BY <2>2, <2>3, <2>5
  <1>7. ASSUME NEW i \in Asked(t), i # a PROVE i + t[i].n <= Len(t)
    BY <1>1, <1>2, <1>4, <1>7
  <1>8. Ordered(t, a)
    BY <1>5, <1>6, <1>7 DEF Ordered
  <1>9. k = s[a].n => a + t[a].n <= Len(t)
    BY <1>0, <1>1
  <1>10. k = s[a].n => Ordered(t, 0)
    BY <1>5, <1>6, <1>7, <1>9 DEF Ordered
  <1> QED BY <1>0, <1>1, <1>2, <1>3, <1>8, <1>10 DEF t

\* The message after the ceiling answers no call.
LEMMA AppendCeiling ==
  ASSUME NEW s \in Messages, Ordered(s, 0)
  PROVE  LET t == Append(s, Ceiling) IN Ordered(t, 0) /\ Rejected(t) = Rejected(s)
  <1> DEFINE t == Append(s, Ceiling)
  <1>1. /\ Len(t) = Len(s) + 1 /\ DOMAIN t = 1..(Len(s) + 1) /\ DOMAIN s = 1..Len(s)
        /\ t[Len(s) + 1] = Ceiling /\ Len(s) \in Nat
        /\ \A i \in 1..Len(s) : t[i] = s[i] /\ s[i].n \in Nat
    BY Appended, MessageTypes
  <1> HIDE DEF t
  <1>2. Asked(t) = Asked(s) /\ Results(t) = Results(s)
    BY <1>1 DEF Asked, Results, Ceiling
  <1>3. Rejected(t) = Rejected(s)
    BY <1>1, <1>2 DEF Rejected, Results
  <1>4. \A i \in Asked(s) : i \in 1..Len(s) /\ i + s[i].n <= Len(s)
    BY <1>1 DEF Ordered, Asked
  <1>5. ASSUME NEW j \in DOMAIN t
        PROVE  j \in Results(t) <=> \E i \in Asked(t) : i < j /\ j <= i + t[i].n
    <2>1. CASE j \in 1..Len(s)
      <3>1. j \in Results(s) <=> \E i \in Asked(s) : i < j /\ j <= i + s[i].n
        BY <2>1, <1>1 DEF Ordered
      <3> QED BY <2>1, <3>1, <1>1, <1>2, <1>4
    <2>2. CASE j = Len(s) + 1
      BY <2>2, <1>1, <1>2, <1>4 DEF Results
    <2> QED BY <2>1, <2>2, <1>1
  <1>6. ASSUME NEW i \in Asked(t), NEW j \in 1..t[i].n, i + j <= Len(t)
        PROVE  t[i + j].n = j
    <2>1. i \in Asked(s) /\ i \in 1..Len(s) /\ t[i] = s[i] /\ s[i].n \in Nat /\ i + s[i].n <= Len(s)
      BY <1>1, <1>2, <1>4
    <2>2. s[i + j].n = j /\ i + j \in 1..Len(s)
      BY <2>1 DEF Ordered
    <2> QED BY <2>2, <1>1
  <1>7. \A i \in Asked(t) : i + t[i].n <= Len(t)
    BY <1>1, <1>2, <1>4
  <1>8. Ordered(t, 0)
    BY <1>5, <1>6, <1>7 DEF Ordered
  <1> QED BY <1>3, <1>8 DEF t

\* The rejected messages are finitely many, and the next one is a new one.
LEMMA CountRejected ==
  ASSUME NEW s \in Messages
  PROVE  /\ IsFiniteSet(Rejected(s)) /\ Cardinality(Rejected(s)) \in Nat
         /\ Cardinality(Rejected(s) \cup {Len(s) + 1}) = Cardinality(Rejected(s)) + 1
  <1>1. Rejected(s) \subseteq 1..Len(s) /\ Len(s) \in Nat
    BY DEF Rejected, Results, Messages
  <1>2. IsFiniteSet(1..Len(s))
    BY <1>1, FS_Interval
  <1>3. IsFiniteSet(Rejected(s))
    BY <1>1, <1>2, FS_Subset
  <1>4. Len(s) + 1 \notin Rejected(s)
    BY <1>1
  <1> QED BY <1>3, <1>4, FS_AddElement, FS_CardinalityType

-----------------------------------------------------------------------------
(* The steps of a run. *)

\* What a step does to the workdir and its gate.
WorkspaceStep ==
  \/ UNCHANGED workspaceVars
  \/ \E r \in Runs, k \in Nat :
       \/ \E p \in Paths, c \in Text : FsWrite(r, p, c, k)
       \/ \E n \in {0} \cup Numbers : FsUndo(r, n, k)
       \/ \E x \in Commands : Shell(r, x, k)
       \/ \E toolset \in {Toolset(q) : q \in Runs} : Refused(r, k, toolset)
  \/ \E p \in Paths : DieWriting(p) /\ UNCHANGED <<tokens, unshown>>
  \/ \E n \in Numbers : DieUndoing(n) /\ UNCHANGED <<tokens, unshown>>

LEMMA WorkspaceSteps == [Next]_vars => WorkspaceStep
  <1> SUFFICES ASSUME [Next]_vars PROVE WorkspaceStep
    OBVIOUS
  <1>1. CASE UNCHANGED vars
    BY <1>1 DEF vars, WorkspaceStep
  <1>2. ASSUME NEW r \in Runs, Begin(r) \/ End(r) \/ Malformed(r) \/ \E n \in 1..MaxCalls : Call(r, n)
        PROVE  WorkspaceStep
    BY <1>2 DEF WorkspaceStep, Begin, End, Malformed, Call
  <1>3. ASSUME NEW r \in Runs, Run(r) PROVE WorkspaceStep
    <2>1. PICK k \in 0..MaxTokens :
            \/ \E p \in Paths, c \in Text : FsWrite(r, p, c, k)
            \/ \E n \in {0} \cup Numbers : FsUndo(r, n, k)
            \/ \E x \in Commands : Shell(r, x, k)
            \/ Refused(r, k, Toolset(r))
            \/ UNCHANGED workspaceVars
      BY <1>3 DEF Run
    <2>2. k \in Nat
      OBVIOUS
    <2> QED BY <2>1, <2>2 DEF WorkspaceStep
  <1>4. ASSUME Crash PROVE WorkspaceStep
    <2>1. CASE UNCHANGED <<file, journal, edits>>
      BY <1>4, <2>1 DEF Crash, WorkspaceStep, workspaceVars
    <2>2. CASE \E p \in Paths : DieWriting(p)
      BY <1>4, <2>2 DEF Crash, WorkspaceStep
    <2>3. CASE \E n \in Numbers : DieUndoing(n)
      BY <1>4, <2>3 DEF Crash, WorkspaceStep
    <2> QED BY <1>4, <2>1, <2>2, <2>3 DEF Crash
  <1> QED BY <1>1, <1>2, <1>3, <1>4 DEF Next, Step

\* The types of the loop's own variables.
LEMMA LoopTypes == LoopTypeOK /\ [Next]_vars => LoopTypeOK'
  <1> USE AgentAssumption DEF AgentAssumption
  <1> SUFFICES ASSUME LoopTypeOK, [Next]_vars PROVE LoopTypeOK'
    OBVIOUS
  <1> USE DEF LoopTypeOK
  <1>1. CASE UNCHANGED vars
    BY <1>1 DEF vars, loopVars
  <1>2. ASSUME NEW r \in Runs, Begin(r) \/ End(r) PROVE LoopTypeOK'
    BY <1>2 DEF Begin, End
  <1>3. ASSUME NEW r \in Runs, NEW n \in 1..MaxCalls, Call(r, n) PROVE LoopTypeOK'
    <2>1. n \in Nat /\ Calls(n) \in Message
      BY MessageTypes
    <2>2. Append(convo[r], Calls(n)) \in Seq(Message)
      BY <2>1
    <2> QED BY <1>3, <2>1, <2>2 DEF Call
  <1>4. ASSUME NEW r \in Runs, NEW v \in {"ran", "rejected", "abandoned"}, Reply(r, v)
        PROVE  /\ pc' \in [Runs -> {"new", "asking", "calling", "ended"}] \/ pc[r] # "calling"
               /\ round' \in [Runs -> Nat] /\ calls' \in [Runs -> Nat] /\ next' \in [Runs -> Nat]
               /\ convo' \in [Runs -> Seq(Message)]
    <2>1. Result(next[r], v) \in Message /\ Ceiling \in Message
      BY MessageTypes
    <2> DEFINE said == Append(convo[r], Result(next[r], v))
    <2>2. said \in Seq(Message)
      BY <2>1
    <2>3. Append(said, Ceiling) \in Seq(Message)
      BY <2>1, <2>2
    <2> HIDE DEF said
    <2>4. convo' = [convo EXCEPT ![r] = IF next[r] = calls[r] /\ round[r] = MaxIterations[r]
                                        THEN Append(said, Ceiling) ELSE said]
      BY <1>4 DEF Reply, said
    <2>5. convo' \in [Runs -> Seq(Message)]
      BY <2>2, <2>3, <2>4
    <2>6. next' \in [Runs -> Nat] /\ round' \in [Runs -> Nat] /\ calls' \in [Runs -> Nat]
      BY <1>4 DEF Reply
    <2>7. pc' \in [Runs -> {"new", "asking", "calling", "ended"}]
      BY <1>4 DEF Reply
    <2> QED BY <2>5, <2>6, <2>7
  <1>5. ASSUME NEW r \in Runs, Run(r) PROVE LoopTypeOK'
    <2>1. Reply(r, "ran") /\ repairs' = repairs /\ pc[r] = "calling"
      BY <1>5 DEF Run
    <2> QED BY <2>1, <1>4
  <1>6. ASSUME NEW r \in Runs, Malformed(r) PROVE LoopTypeOK'
    <2>1. pc[r] = "calling" /\ \E v \in {"rejected", "abandoned"} : Reply(r, v)
      BY <1>6 DEF Malformed
    <2>2. repairs' \in [Runs -> 0..MaxRepairs]
      <3>1. CASE repairs[r] > 0
        <4>1. repairs' = [repairs EXCEPT ![r] = repairs[r] - 1]
          BY <1>6, <3>1 DEF Malformed
        <4> QED BY <4>1, <3>1 DEF MaxRepairs
      <3>2. CASE ~(repairs[r] > 0)
        BY <1>6, <3>2 DEF Malformed
      <3> QED BY <3>1, <3>2
    <2> QED BY <2>1, <2>2, <1>4
  <1>7. ASSUME Crash PROVE LoopTypeOK'
    BY <1>7 DEF Crash
  <1> QED BY <1>1, <1>2, <1>3, <1>5, <1>6, <1>7 DEF Next, Step

\* A step of one run leaves the others as they are.
LEMMA OthersKeep ==
  ASSUME LoopInv, NEW q \in Runs,
         pc'[q] = pc[q] /\ convo'[q] = convo[q] /\ next'[q] = next[q] /\ calls'[q] = calls[q]
           /\ repairs'[q] = repairs[q]
  PROVE  RunInv(q)'
  BY DEF LoopInv, RunInv, Current

\* One tool message more.
LEMMA ReplyKeeps ==
  ASSUME LoopTypeOK, LoopInv, NEW r \in Runs, pc[r] = "calling",
         NEW v \in {"ran", "rejected", "abandoned"}, Reply(r, v),
         repairs' = IF v = "rejected" THEN [repairs EXCEPT ![r] = @ - 1] ELSE repairs
  PROVE  LoopInv'
  <1> DEFINE s == convo[r]
             a == Current(r)
             k == next[r]
             t == Append(s, Result(k, v))
  <1>1. /\ s \in Messages /\ Len(s) \in Nat /\ k \in 1..calls[r] /\ calls[r] \in Nat
        /\ a \in Asked(s) /\ s[a].n = calls[r] /\ Ordered(s, a) /\ a = Len(s) + 1 - k
        /\ Cardinality(Rejected(s)) + repairs[r] = MaxRepairs
    <2>1. s \in Messages /\ calls[r] \in Nat
      BY DEF LoopTypeOK, Messages
    <2>2. Len(s) \in Nat
      BY <2>1 DEF Messages
    <2> QED BY <2>1, <2>2 DEF LoopInv, RunInv, Current
  <1>2. Len(s) + 1 = a + k
    BY <1>1
  <1>3. /\ Ordered(t, a) /\ (k = calls[r] => Ordered(t, 0))
        /\ a \in Asked(t) /\ t[a] = s[a]
        /\ Rejected(t) = IF v = "rejected" THEN Rejected(s) \cup {Len(s) + 1} ELSE Rejected(s)
    <2> HIDE DEF s, a, k
    <2> QED BY <1>1, <1>2, AppendResult
  <1>4. t \in Messages /\ Len(t) = Len(s) + 1
    <2>1. Result(k, v) \in Message
      BY <1>1, MessageTypes
    <2> HIDE DEF s, k
    <2> QED BY <2>1, <1>1, Appended
  <1>5. Cardinality(Rejected(t)) + repairs'[r] = MaxRepairs
    <2>1. /\ Cardinality(Rejected(s)) \in Nat
          /\ Cardinality(Rejected(s) \cup {Len(s) + 1}) = Cardinality(Rejected(s)) + 1
      BY <1>1, CountRejected
    <2>2. repairs[r] \in Int
      BY DEF LoopTypeOK, MaxRepairs
    <2>3. CASE v = "rejected"
      <3>1. repairs'[r] = repairs[r] - 1
        BY <2>3 DEF LoopTypeOK
      <3>2. Cardinality(Rejected(t)) = Cardinality(Rejected(s)) + 1
        BY <2>1, <2>3, <1>3
      <3> QED BY <3>1, <3>2, <2>1, <2>2, <1>1 DEF MaxRepairs
    <2>4. CASE v # "rejected"
      BY <2>4, <1>1, <1>3
    <2> QED BY <2>3, <2>4
  <1> HIDE DEF s, a, k, t
  <1>6. CASE k = calls[r]
    <2>1. pc' = [pc EXCEPT ![r] = "asking"]
      BY <1>6 DEF Reply, k
    <2>2. convo'[r] \in {t, Append(t, Ceiling)}
      BY <1>6 DEF Reply, LoopTypeOK, s, k, t
    <2>3. Ordered(convo'[r], 0) /\ Rejected(convo'[r]) = Rejected(t)
      BY <2>2, <1>3, <1>4, <1>6, AppendCeiling
    <2>4. \A q \in Runs \ {r} :
            /\ pc'[q] = pc[q] /\ convo'[q] = convo[q] /\ next'[q] = next[q] /\ calls'[q] = calls[q]
            /\ repairs'[q] = repairs[q]
      BY DEF Reply, LoopTypeOK
    <2>5. pc'[r] = "asking"
      BY <2>1 DEF LoopTypeOK
    <2>6. RunInv(r)'
      BY <2>3, <2>5, <1>5 DEF RunInv
    <2> QED BY <2>4, <2>6, OthersKeep DEF LoopInv
  <1>7. CASE k # calls[r]
    <2>1. /\ pc' = [pc EXCEPT ![r] = pc[r]] /\ convo' = [convo EXCEPT ![r] = t]
          /\ next' = [next EXCEPT ![r] = k + 1] /\ calls' = calls
      BY <1>7 DEF Reply, s, k, t
    <2>2. pc'[r] = "calling" /\ convo'[r] = t /\ next'[r] = k + 1 /\ calls'[r] = calls[r]
      BY <2>1 DEF LoopTypeOK
    <2>3. next'[r] \in 1..calls'[r] /\ Current(r)' = a
      BY <2>2, <1>1, <1>2, <1>4, <1>7 DEF Current
    <2>4. \A q \in Runs \ {r} :
            /\ pc'[q] = pc[q] /\ convo'[q] = convo[q] /\ next'[q] = next[q] /\ calls'[q] = calls[q]
            /\ repairs'[q] = repairs[q]
      BY DEF Reply, LoopTypeOK
    <2>5. RunInv(r)'
      BY <2>2, <2>3, <1>1, <1>3, <1>5 DEF RunInv
    <2> QED BY <2>4, <2>5, OthersKeep DEF LoopInv
  <1> QED BY <1>6, <1>7

LEMMA LoopStays == LoopTypeOK /\ LoopInv /\ [Next]_vars => LoopInv'
  <1> USE AgentAssumption DEF AgentAssumption
  <1> SUFFICES ASSUME LoopTypeOK, LoopInv, [Next]_vars PROVE LoopInv'
    OBVIOUS
  <1>1. CASE UNCHANGED vars
    BY <1>1 DEF vars, loopVars, LoopInv, RunInv, Current
  <1>2. ASSUME NEW r \in Runs, Begin(r) PROVE LoopInv'
    <2>1. \A q \in Runs : /\ convo'[q] = convo[q] /\ next'[q] = next[q] /\ calls'[q] = calls[q]
                          /\ repairs'[q] = repairs[q] /\ (q # r => pc'[q] = pc[q])
      BY <1>2 DEF Begin, LoopTypeOK
    <2>2. pc[r] = "new" /\ pc'[r] = "asking"
      BY <1>2 DEF Begin, LoopTypeOK
    <2>3. convo[r] = <<>>
      BY <2>2 DEF LoopInv, RunInv
    <2>4. Ordered(convo[r], 0)
      BY <2>3 DEF Ordered, Asked, Results
    <2> QED BY <2>1, <2>2, <2>4 DEF LoopInv, RunInv, Current
  <1>3. ASSUME NEW r \in Runs, End(r) PROVE LoopInv'
    <2>1. \A q \in Runs : /\ convo'[q] = convo[q] /\ next'[q] = next[q] /\ calls'[q] = calls[q]
                          /\ repairs'[q] = repairs[q] /\ (q # r => pc'[q] = pc[q])
      BY <1>3 DEF End, LoopTypeOK
    <2>2. pc'[r] = "ended"
      BY <1>3 DEF End, LoopTypeOK
    <2> QED BY <2>1, <2>2 DEF LoopInv, RunInv, Current
  <1>4. ASSUME NEW r \in Runs, NEW n \in 1..MaxCalls, Call(r, n) PROVE LoopInv'
    <2> DEFINE s == convo[r]
               t == Append(s, Calls(n))
    <2>1. n \in Nat \ {0} /\ s \in Messages /\ Ordered(s, 0) /\ Len(s) \in Nat
      <3>1. s \in Seq(Message) /\ pc[r] = "asking"
        BY <1>4 DEF LoopTypeOK, Call
      <3>2. Len(s) \in Nat
        BY <3>1
      <3> QED BY <3>1, <3>2 DEF LoopInv, RunInv, Messages
    <2>2. /\ Ordered(t, Len(s) + 1) /\ Len(s) + 1 \in Asked(t) /\ t[Len(s) + 1].n = n
          /\ Rejected(t) = Rejected(s)
      <3> HIDE DEF s
      <3> QED BY <2>1, AppendCalls
    <2>3. Len(t) = Len(s) + 1
      <3>1. Calls(n) \in Message
        BY <2>1, MessageTypes
      <3> HIDE DEF s
      <3> QED BY <3>1, <2>1, Appended
    <2> HIDE DEF s, t
    <2>4. /\ pc'[r] = "calling" /\ calls'[r] = n /\ next'[r] = 1 /\ convo'[r] = t
          /\ repairs'[r] = repairs[r]
      BY <1>4 DEF Call, LoopTypeOK, s, t
    <2>5. Current(r)' = Len(s) + 1 /\ next'[r] \in 1..calls'[r]
      BY <2>1, <2>3, <2>4 DEF Current
    <2>6. Cardinality(Rejected(s)) + repairs[r] = MaxRepairs
      BY <1>4 DEF LoopInv, RunInv, Call, s
    <2>7. \A q \in Runs \ {r} :
            /\ pc'[q] = pc[q] /\ convo'[q] = convo[q] /\ next'[q] = next[q] /\ calls'[q] = calls[q]
            /\ repairs'[q] = repairs[q]
      BY <1>4 DEF Call, LoopTypeOK
    <2>8. RunInv(r)'
      BY <2>2, <2>4, <2>5, <2>6 DEF RunInv
    <2> QED BY <2>7, <2>8, <1>4, OthersKeep DEF LoopInv
  <1>5. ASSUME NEW r \in Runs, Run(r) PROVE LoopInv'
    <2>1. Reply(r, "ran") /\ repairs' = repairs /\ pc[r] = "calling"
      BY <1>5 DEF Run
    <2> QED BY <2>1, ReplyKeeps
  <1>6. ASSUME NEW r \in Runs, Malformed(r) PROVE LoopInv'
    <2>1. CASE repairs[r] > 0
      <3>1. pc[r] = "calling" /\ Reply(r, "rejected") /\ repairs' = [repairs EXCEPT ![r] = @ - 1]
        BY <1>6, <2>1 DEF Malformed
      <3> QED BY <3>1, ReplyKeeps
    <2>2. CASE ~(repairs[r] > 0)
      <3>1. pc[r] = "calling" /\ Reply(r, "abandoned") /\ repairs' = repairs
        BY <1>6, <2>2 DEF Malformed
      <3> QED BY <3>1, ReplyKeeps
    <2> QED BY <2>1, <2>2
  <1>7. ASSUME Crash PROVE LoopInv'
    <2>1. /\ \A q \in Runs : pc'[q] \in {"new", "ended"} /\ (pc'[q] = "new" => pc[q] = "new")
          /\ convo' = convo /\ repairs' = repairs
      BY <1>7 DEF Crash
    <2> QED BY <2>1 DEF LoopInv, RunInv
  <1> QED BY <1>1, <1>2, <1>3, <1>4, <1>5, <1>6, <1>7 DEF Next, Step

LEMMA LoopBegins == Init => LoopTypeOK /\ LoopInv
  <1> SUFFICES ASSUME Init PROVE LoopTypeOK /\ LoopInv
    OBVIOUS
  <1>1. LoopTypeOK
    <2>1. <<>> \in Seq(Message)
      OBVIOUS
    <2>2. /\ pc \in [Runs -> {"new", "asking", "calling", "ended"}]
          /\ round \in [Runs -> Nat] /\ calls \in [Runs -> Nat] /\ next \in [Runs -> Nat]
          /\ repairs \in [Runs -> 0..MaxRepairs]
      BY DEF Init, MaxRepairs
    <2>3. convo \in [Runs -> Seq(Message)]
      BY <2>1 DEF Init
    <2> QED BY <2>2, <2>3 DEF LoopTypeOK
  <1>2. Rejected(<<>>) = {}
    BY DEF Rejected, Results
  <1>3. Cardinality(Rejected(<<>>)) = 0
    BY <1>2, FS_EmptySet
  <1>4. LoopInv
    BY <1>3 DEF Init, LoopInv, RunInv, MaxRepairs
  <1> QED BY <1>1, <1>4

LEMMA AnsweredFollows == LoopTypeOK /\ LoopInv => AnsweredInOrder
  <1> SUFFICES ASSUME LoopTypeOK, LoopInv, NEW r \in Runs, pc[r] = "asking"
               PROVE  LET s == convo[r] IN
                      /\ Results(s) = UNION {i + 1..i + s[i].n : i \in Asked(s)}
                      /\ \A i \in Asked(s) : \A j \in 1..s[i].n : s[i + j].n = j
                      /\ Cardinality(Rejected(s)) <= MaxRepairs
    BY DEF AnsweredInOrder, Results, Asked, Rejected
  <1> DEFINE s == convo[r]
  <1>1. s \in Messages /\ Len(s) \in Nat /\ DOMAIN s = 1..Len(s)
    <2>1. s \in Seq(Message)
      BY DEF LoopTypeOK
    <2> QED BY <2>1 DEF Messages
  <1>2. Ordered(s, 0) /\ Cardinality(Rejected(s)) + repairs[r] = MaxRepairs
    BY DEF LoopInv, RunInv
  <1> HIDE DEF s
  <1>3. \A i \in 1..Len(s) : s[i].n \in Nat
    BY <1>1, Appended, MessageTypes
  <1>4. \A i \in Asked(s) : i \in 1..Len(s) /\ i + s[i].n <= Len(s) /\ s[i].n \in Nat
    BY <1>1, <1>2, <1>3 DEF Ordered, Asked
  <1>5. ASSUME NEW j PROVE j \in Results(s) <=> \E i \in Asked(s) : j \in i + 1..i + s[i].n
    <2>1. CASE j \in 1..Len(s)
      <3>1. j \in Results(s) <=> \E i \in Asked(s) : i < j /\ j <= i + s[i].n
        BY <1>1, <1>2, <2>1 DEF Ordered
      <3> QED BY <3>1, <1>1, <1>4, <2>1
    <2>2. CASE j \notin 1..Len(s)
      <3>1. j \notin Results(s)
        BY <1>1, <2>2 DEF Results
      <3>2. \A i \in Asked(s) : i + 1..i + s[i].n \subseteq 1..Len(s)
        BY <1>1, <1>4
      <3> QED BY <3>1, <3>2, <2>2
    <2> QED BY <2>1, <2>2
  <1>6. Results(s) = UNION {i + 1..i + s[i].n : i \in Asked(s)}
    BY <1>5
  <1>7. \A i \in Asked(s) : \A j \in 1..s[i].n : s[i + j].n = j
    BY <1>1, <1>2, <1>4 DEF Ordered
  <1>8. Cardinality(Rejected(s)) <= MaxRepairs
    <2>1. Cardinality(Rejected(s)) \in Nat
      BY <1>1, CountRejected
    <2>2. repairs[r] \in 0..MaxRepairs
      BY DEF LoopTypeOK
    <2> QED BY <2>1, <2>2, <1>2 DEF MaxRepairs
  <1> QED BY <1>6, <1>7, <1>8 DEF s

\* The variables of the loop keep their types, the repair budget included.
THEOREM LoopTypeCorrect == Spec => []LoopTypeOK
  <1>1. Init => LoopTypeOK
    BY LoopBegins
  <1>2. LoopTypeOK /\ [Next]_vars => LoopTypeOK'
    BY LoopTypes
  <1> QED BY <1>1, <1>2, PTL DEF Spec

\* Every call of every completion has its one tool message, in order, before the
\* model is asked again, for any runs, rounds and calls.
THEOREM EveryCallAnswered == Spec => []AnsweredInOrder
  <1>1. Init => LoopTypeOK /\ LoopInv
    BY LoopBegins
  <1>2. LoopTypeOK /\ LoopInv /\ [Next]_vars => LoopTypeOK' /\ LoopInv'
    BY LoopTypes, LoopStays
  <1>3. LoopTypeOK /\ LoopInv => AnsweredInOrder
    BY AnsweredFollows
  <1> QED BY <1>1, <1>2, <1>3, PTL DEF Spec

-----------------------------------------------------------------------------
(* The workdir. *)

WorkspaceInv == WorkspaceTypeOK /\ JournalInv /\ TokenInv

EditRecord == [number : Numbers, path : Paths, before : Content \cup {None}, closed : BOOLEAN]
Token == [op : Operation, live : BOOLEAN, used : BOOLEAN]

LEMMA RawIsNotLossy == Raw # Lossy
  <1> SUFFICES ASSUME Raw = Lossy PROVE FALSE
    OBVIOUS
  <1>1. IsFiniteSet({None}) /\ Cardinality({None}) = 1
    BY FS_Singleton
  <1>2. IsFiniteSet({None} \cup {Torn}) /\ Cardinality({None} \cup {Torn}) <= 2
    BY <1>1, FS_AddElement
  <1>3. Cardinality(({None} \cup {Torn}) \cup {Raw}) <= 3
    <2> DEFINE S == {None} \cup {Torn}
    <2>1. IsFiniteSet(S) /\ Cardinality(S) <= 2 /\ Cardinality(S) \in Nat
      BY <1>2, FS_CardinalityType
    <2> HIDE DEF S
    <2>2. Cardinality(S \cup {Raw}) <= 3
      BY <2>1, FS_AddElement
    <2> QED BY <2>2 DEF S
  <1>4. ({None} \cup {Torn}) \cup {Raw} = {Raw, Lossy, Torn, None}
    OBVIOUS
  <1>5. Cardinality({Raw, Lossy, Torn, None}) = 4
    BY WorkspaceAssumption DEF WorkspaceAssumption
  <1> QED BY <1>3, <1>4, <1>5

\* What is decoded is text.
LEMMA DecodedIsText ==
  \A c \in Content \cup {None} : Decoded(c) \in (Content \ {Raw}) \cup {None}
  BY RawIsNotLossy DEF Decoded, Content

\* What the next number is above.
LEMMA NextNumberAhead ==
  ASSUME WorkspaceTypeOK, JournalInv
  PROVE  /\ NextNumber \in 1..Len(edits) + 1
         /\ \A n \in Existing : n < NextNumber
  <1>1. Existing \in SUBSET Nat /\ Len(edits) \in Nat
    BY DEF Existing, Numbers, WorkspaceTypeOK
  <1>2. \A n \in Existing : n \in 1..Len(edits)
    <2> SUFFICES ASSUME NEW n \in Existing PROVE n \in 1..Len(edits)
      OBVIOUS
    <2>1. PICK i \in DOMAIN edits : edits[i].number = n
      BY DEF JournalInv
    <2>2. i \in 1..Len(edits) /\ n <= i
      BY <2>1 DEF JournalInv, WorkspaceTypeOK
    <2> QED BY <2>2, <1>1 DEF Existing, Numbers
  <1>3. CASE Existing = {}
    BY <1>1, <1>3 DEF NextNumber
  <1>4. CASE Existing # {}
    <2>1. \A n \in Existing : n <= Len(edits)
      BY <1>1, <1>2
    <2>2. PICK m \in Existing : m = Max(Existing) /\ \A n \in Existing : n <= m
      BY <1>1, <1>4, <2>1, HasMax
    <2>3. NextNumber = m + 1
      BY <1>4, <2>2 DEF NextNumber
    <2> QED BY <1>1, <1>2, <2>2, <2>3
  <1> QED BY <1>3, <1>4

\* EditOf finds the edit that had a number last.
LEMMA EditFound ==
  ASSUME WorkspaceTypeOK, NEW n
  PROVE  /\ EditOf(n) \in 0..Len(edits) /\ EditOf(n) \in 0..MaxEdits
         /\ \A i \in DOMAIN edits : edits[i].number = n =>
              EditOf(n) \in DOMAIN edits /\ edits[EditOf(n)].number = n /\ i <= EditOf(n)
  <1> USE WorkspaceAssumption DEF WorkspaceAssumption
  <1> DEFINE is == {i \in DOMAIN edits : edits[i].number = n}
  <1>1. DOMAIN edits = 1..Len(edits) /\ Len(edits) \in Nat /\ Len(edits) <= MaxEdits
    BY DEF WorkspaceTypeOK
  <1>2. is \in SUBSET Nat /\ \A i \in is : i \in 1..Len(edits)
    BY <1>1
  <1>3. CASE is = {}
    <2>1. EditOf(n) = 0
      BY <1>3 DEF EditOf
    <2> QED BY <1>1, <1>3, <2>1
  <1>4. CASE is # {}
    <2>1. \A i \in is : i <= Len(edits)
      BY <1>1, <1>2
    <2>2. PICK m \in is : m = Max(is) /\ \A i \in is : i <= m
      <3> HIDE DEF is
      <3> QED BY <1>1, <1>2, <1>4, <2>1, HasMax
    <2>3. EditOf(n) = m
      BY <1>4, <2>2 DEF EditOf
    <2>4. m \in 0..Len(edits) /\ m \in 0..MaxEdits
      BY <1>1, <1>2, <2>2
    <2>5. m \in DOMAIN edits /\ edits[m].number = n
      BY <2>2
    <2>6. \A i \in DOMAIN edits : edits[i].number = n => i <= m
      BY <2>2
    <2> QED BY <2>3, <2>4, <2>5, <2>6
  <1> QED BY <1>3, <1>4

\* A journaled edit keeps the entries of the edits it makes the last MaxUndo:
\* there are fewer entries from such an edit's on than edits.
LEMMA RecentStays ==
  ASSUME WorkspaceTypeOK, JournalInv, NEW i \in DOMAIN edits,
         ~edits[i].closed, Len(edits) + 1 - i < MaxUndo
  PROVE  LET above == {x \in Existing : x >= edits[i].number}
         IN edits[i].number \in Existing /\ ~(Cardinality(above) >= MaxUndo)
  <1> USE WorkspaceAssumption DEF WorkspaceAssumption
  <1> DEFINE N == Len(edits)
             above == {x \in Existing : x >= edits[i].number}
             f == [j \in i..N |-> edits[j].number]
             image == {f[j] : j \in i..N}
  <1>1. /\ DOMAIN edits = 1..N /\ N \in Nat /\ i \in 1..N
        /\ \A j \in 1..N : edits[j] \in EditRecord /\ edits[j].number \in Numbers /\ edits[j].number \in Nat
    <2>1. edits \in Seq(EditRecord)
      BY DEF WorkspaceTypeOK, EditRecord
    <2>2. DOMAIN edits = 1..N /\ N \in Nat /\ \A j \in 1..N : edits[j] \in EditRecord
      BY <2>1
    <2>3. \A e \in EditRecord : e.number \in Numbers /\ e.number \in Nat
      BY DEF EditRecord, Numbers
    <2> QED BY <2>2, <2>3
  <1>2. /\ journal[edits[i].number] = [path |-> edits[i].path, prior |-> Decoded(edits[i].before)]
        /\ Ascends(i)
    <2>1. N - i < MaxUndo
      BY <1>1
    <2> QED BY <2>1 DEF JournalInv
  <1>3. edits[i].number \in Existing
    <2>1. edits[i] \in EditRecord
      BY <1>1
    <2>2. Decoded(edits[i].before) \in (Content \ {Raw}) \cup {None} /\ edits[i].path \in Paths
      BY <2>1, DecodedIsText DEF EditRecord
    <2>3. journal[edits[i].number] \in Entry
      BY <1>2, <2>2 DEF Entry
    <2>4. journal[edits[i].number] # None
      BY <2>3
    <2> QED BY <1>1, <2>4 DEF Existing
  <1>4. above \subseteq image
    <2> SUFFICES ASSUME NEW x \in Existing, x >= edits[i].number PROVE x \in image
      OBVIOUS
    <2>1. PICK j \in DOMAIN edits : edits[j].number = x /\ Ascends(j)
      BY DEF JournalInv
    <2>2. j \in i..N
      <3>1. CASE j < i
        <4>1. x < edits[i].number
          BY <2>1, <3>1, <1>1 DEF Ascends
        <4> QED BY <4>1, <2>1, <1>1
      <3>2. CASE ~(j < i)
        BY <3>2, <1>1
      <3> QED BY <3>1, <3>2
    <2> QED BY <2>1, <2>2
  <1>5. /\ IsFiniteSet(i..N) /\ Cardinality(i..N) = N - i + 1
    <2>1. i \in Int /\ N \in Int /\ ~(i > N)
      BY <1>1
    <2> HIDE DEF N
    <2> QED BY <2>1, FS_Interval
  <1>6. IsFiniteSet(image) /\ Cardinality(image) <= Cardinality(i..N)
    <2>1. f \in Surjection(i..N, image)
      BY DEF Surjection
    <2> HIDE DEF f, image
    <2> QED BY <2>1, <1>5, FS_Surjection
  <1>7. IsFiniteSet(above) /\ Cardinality(above) <= Cardinality(image)
    <2> HIDE DEF above, image
    <2> QED BY <1>4, <1>6, FS_Subset
  <1>8. Cardinality(above) \in Nat /\ Cardinality(image) \in Nat
    BY <1>6, <1>7, FS_CardinalityType
  <1>9. ~(Cardinality(above) >= MaxUndo)
    <2> HIDE DEF above, image
    <2> QED BY <1>1, <1>5, <1>6, <1>7, <1>8
  <1> QED BY <1>3, <1>9

\* What stands where in the journal and in the history.
LEMMA EditTypes ==
  ASSUME WorkspaceTypeOK
  PROVE  /\ edits \in Seq(EditRecord) /\ Len(edits) \in Nat /\ DOMAIN edits = 1..Len(edits)
         /\ \A j \in 1..Len(edits) : edits[j] \in EditRecord /\ edits[j].number \in Nat
         /\ \A n \in Existing : n \in Nat
  <1>1. edits \in Seq(EditRecord)
    BY DEF WorkspaceTypeOK, EditRecord
  <1>2. Len(edits) \in Nat /\ DOMAIN edits = 1..Len(edits) /\ \A j \in 1..Len(edits) : edits[j] \in EditRecord
    BY <1>1
  <1>3. \A e \in EditRecord : e.number \in Nat
    BY DEF EditRecord, Numbers
  <1>4. \A n \in Existing : n \in Nat
    BY DEF Existing, Numbers
  <1> QED BY <1>1, <1>2, <1>3, <1>4

\* An edit is journaled, in full or torn.
LEMMA JournaledKeeps ==
  ASSUME WorkspaceTypeOK, JournalInv, NEW p \in Paths, NEW torn \in BOOLEAN,
         Len(edits) < MaxEdits, journal' = Journaled(p, torn), Edited(p, torn)
  PROVE  /\ journal' \in [Numbers -> Entry \cup {Torn, None}]
         /\ edits' \in Seq(EditRecord) /\ Len(edits') <= MaxEdits
         /\ JournalInv'
  <1> USE WorkspaceAssumption DEF WorkspaceAssumption
  <1> DEFINE N == Len(edits)
             n == NextNumber
             e == [number |-> n, path |-> p, before |-> file[p], closed |-> torn]
             entry == [path |-> p, prior |-> Decoded(file[p])]
             stale == {m \in Existing : Cardinality({x \in Existing : x >= m}) >= MaxUndo}
  <1>1. /\ edits \in Seq(EditRecord) /\ N \in Nat /\ DOMAIN edits = 1..N
        /\ \A j \in 1..N : edits[j] \in EditRecord /\ edits[j].number \in Nat
        /\ \A m \in Existing : m \in Nat
    BY EditTypes
  <1>2. n \in 1..N + 1 /\ n \in Numbers /\ \A m \in Existing : m < n
    <2>1. n \in 1..N + 1 /\ \A m \in Existing : m < n
      BY NextNumberAhead
    <2>2. n \in Numbers
      BY <2>1, <1>1 DEF Numbers
    <2> QED BY <2>1, <2>2
  <1>3. file[p] \in Content \cup {None} /\ Decoded(file[p]) \in (Content \ {Raw}) \cup {None}
    BY DecodedIsText DEF WorkspaceTypeOK
  <1>4. e \in EditRecord /\ entry \in Entry
    BY <1>2, <1>3 DEF EditRecord, Entry
  <1>5. edits' = Append(edits, e)
    BY DEF Edited
  <1>6. journal' = [m \in Numbers |->
          IF m = n THEN (IF torn THEN Torn ELSE entry)
          ELSE IF m \in stale /\ ~torn THEN None ELSE journal[m]]
    BY DEF Journaled
  <1> HIDE DEF n, e, entry, stale
  <1>7. /\ edits' \in Seq(EditRecord) /\ DOMAIN edits' = 1..N + 1 /\ Len(edits') = N + 1
        /\ edits'[N + 1] = e /\ \A j \in 1..N : edits'[j] = edits[j]
    BY <1>1, <1>4, <1>5
  <1>8. journal' \in [Numbers -> Entry \cup {Torn, None}]
    BY <1>4, <1>6 DEF WorkspaceTypeOK
  <1>9. e.number = n /\ e.path = p /\ e.before = file[p] /\ e.closed = torn
    BY DEF e
  <1>10. ASSUME NEW i \in 1..N, Ascends(i), edits[i].number \in Existing
         PROVE  Ascends(i)'
    <2> SUFFICES ASSUME NEW j \in DOMAIN edits', i < j
                 PROVE  edits'[i].number < edits'[j].number
      BY DEF Ascends
    <2>1. CASE j = N + 1
      <3>1. edits'[j].number = n /\ edits'[i].number = edits[i].number
        BY <2>1, <1>7, <1>9
      <3> QED BY <3>1, <1>2, <1>10
    <2>2. CASE j # N + 1
      <3>1. j \in 1..N /\ edits'[j] = edits[j] /\ edits'[i] = edits[i]
        BY <2>2, <1>1, <1>7
      <3> QED BY <3>1, <1>1, <1>10 DEF Ascends
    <2> QED BY <2>1, <2>2
  <1>11. ASSUME NEW i, i = N + 1 PROVE Ascends(i)'
    BY <1>11, <1>1, <1>7 DEF Ascends
  <1>12. ASSUME NEW m \in Existing'
         PROVE  \E i \in DOMAIN edits' : edits'[i].number = m /\ Ascends(i)'
    <2>1. CASE m = n
      <3>1. N + 1 \in DOMAIN edits' /\ edits'[N + 1].number = m
        BY <2>1, <1>1, <1>7, <1>9
      <3>2. PICK i \in DOMAIN edits' : i = N + 1
        BY <3>1
      <3>3. Ascends(i)'
        BY <3>2, <1>11
      <3> QED BY <3>1, <3>2, <3>3
    <2>2. CASE m # n
      <3>1. m \in Existing
        BY <2>2, <1>6, <1>12 DEF Existing
      <3>2. PICK i \in DOMAIN edits : edits[i].number = m /\ Ascends(i)
        BY <3>1 DEF JournalInv
      <3>3. Ascends(i)' /\ edits'[i].number = m /\ i \in DOMAIN edits'
        BY <3>1, <3>2, <1>1, <1>7, <1>10
      <3> QED BY <3>3
    <2> QED BY <2>1, <2>2
  <1>13. \A i \in DOMAIN edits' : edits'[i].number <= i
    BY <1>1, <1>2, <1>7, <1>9 DEF JournalInv
  <1>14. ASSUME NEW i \in DOMAIN edits', ~edits'[i].closed, Len(edits') - i < MaxUndo
         PROVE  /\ journal'[edits'[i].number] = [path |-> edits'[i].path, prior |-> Decoded(edits'[i].before)]
                /\ Ascends(i)'
    <2>1. CASE i = N + 1
      <3>1. ~torn
        BY <2>1, <1>7, <1>9, <1>14
      <3>2. journal'[n] = entry
        BY <3>1, <1>2, <1>6
      <3>3. edits'[i] = e
        BY <2>1, <1>7
      <3>4. journal'[edits'[i].number] = [path |-> edits'[i].path, prior |-> Decoded(edits'[i].before)]
        BY <3>2, <3>3, <1>9 DEF entry
      <3>5. Ascends(i)'
        BY <2>1, <1>11
      <3> QED BY <3>4, <3>5
    <2>2. CASE i # N + 1
      <3>1. i \in 1..N /\ edits'[i] = edits[i] /\ ~edits[i].closed /\ N + 1 - i < MaxUndo
        BY <2>2, <1>1, <1>7, <1>14
      <3>2. edits[i].number \in Existing /\ edits[i].number \notin stale
        BY <3>1, <1>1, RecentStays DEF stale
      <3>3. /\ journal[edits[i].number] = [path |-> edits[i].path, prior |-> Decoded(edits[i].before)]
            /\ Ascends(i)
        <4>1. N - i < MaxUndo
          BY <3>1, <1>1
        <4> QED BY <3>1, <4>1, <1>1 DEF JournalInv
      <3>4. edits[i].number \in Numbers /\ edits[i].number # n
        BY <3>2, <1>1, <1>2 DEF Existing
      <3>5. journal'[edits[i].number] = journal[edits[i].number]
        BY <3>2, <3>4, <1>6
      <3> QED BY <3>1, <3>2, <3>3, <3>5, <1>10
    <2> QED BY <2>1, <2>2
  <1>15. JournalInv'
    BY <1>12, <1>13, <1>14 DEF JournalInv
  <1>16. Len(edits') <= MaxEdits
    BY <1>1, <1>7
  <1> QED BY <1>7, <1>8, <1>15, <1>16

\* An undo takes its entry out, a command may change one: either closes the edit
\* that the entry belonged to.
LEMMA EntryGoes ==
  ASSUME WorkspaceTypeOK, JournalInv, NEW n \in Existing, NEW left \in Entry \cup {Torn, None},
         journal' = [journal EXCEPT ![n] = left], Closed(n)
  PROVE  /\ journal' \in [Numbers -> Entry \cup {Torn, None}]
         /\ edits' \in Seq(EditRecord) /\ Len(edits') <= MaxEdits
         /\ JournalInv'
  <1> DEFINE N == Len(edits)
             k == EditOf(n)
  <1>1. /\ edits \in Seq(EditRecord) /\ N \in Nat /\ DOMAIN edits = 1..N
        /\ \A j \in 1..N : edits[j] \in EditRecord /\ edits[j].number \in Nat
    BY EditTypes
  <1>2. /\ k \in 0..N
        /\ \A i \in DOMAIN edits : edits[i].number = n =>
             k \in DOMAIN edits /\ edits[k].number = n /\ i <= k
    BY EditFound
  <1>0. edits' = IF k = 0 THEN edits ELSE [edits EXCEPT ![k].closed = TRUE]
    BY DEF Closed
  <1> HIDE DEF k
  <1>3. edits' = IF k = 0 THEN edits ELSE [edits EXCEPT ![k] = [edits[k] EXCEPT !.closed = TRUE]]
    BY <1>0
  <1>4. \A e \in EditRecord :
          LET u == [e EXCEPT !.closed = TRUE]
          IN u \in EditRecord /\ u.number = e.number /\ u.path = e.path /\ u.before = e.before /\ u.closed
    BY DEF EditRecord
  <1> DEFINE v == [edits[k] EXCEPT !.closed = TRUE]
  <1>5. k # 0 => /\ k \in 1..N /\ v \in EditRecord /\ v.number = edits[k].number /\ v.closed
    <2> SUFFICES ASSUME k # 0 PROVE k \in 1..N /\ v \in EditRecord /\ v.number = edits[k].number /\ v.closed
      OBVIOUS
    <2>1. k \in 1..N /\ edits[k] \in EditRecord
      BY <1>1, <1>2
    <2> QED BY <2>1, <1>4
  <1> HIDE DEF v
  <1>6. edits' = IF k = 0 THEN edits ELSE [edits EXCEPT ![k] = v]
    BY <1>3 DEF v
  <1>7. edits' \in Seq(EditRecord) /\ DOMAIN edits' = 1..N /\ Len(edits') = N
    <2>1. CASE k = 0
      BY <2>1, <1>1, <1>6
    <2>2. CASE k # 0
      <3>1. k \in 1..N /\ v \in EditRecord /\ edits' = [edits EXCEPT ![k] = v]
        BY <2>2, <1>5, <1>6
      <3> DEFINE w == [edits EXCEPT ![k] = v]
      <3>2. w \in Seq(EditRecord) /\ Len(w) = N
        <4>1. k \in 1..Len(edits) /\ v \in EditRecord /\ edits \in Seq(EditRecord)
          BY <3>1, <1>1
        <4> QED BY <4>1, ExceptSeq
      <3>3. DOMAIN w = 1..N
        BY <1>1
      <3> HIDE DEF w
      <3> QED BY <3>1, <3>2, <3>3 DEF w
    <2> QED BY <2>1, <2>2
  <1>8. \A i \in 1..N : i # k => edits'[i] = edits[i]
    BY <1>1, <1>6
  <1>9. k # 0 => /\ k \in 1..N /\ edits'[k].number = edits[k].number /\ edits'[k].closed
    BY <1>1, <1>5, <1>6
  <1>10. \A i \in 1..N : edits'[i].number = edits[i].number
    BY <1>1, <1>8, <1>9
  <1>11. ASSUME NEW i \in 1..N, Ascends(i) PROVE Ascends(i)'
    BY <1>1, <1>7, <1>10, <1>11 DEF Ascends
  <1>12. \A m \in Existing' : m \in Existing
    BY DEF Existing, WorkspaceTypeOK
  <1>13. ASSUME NEW m \in Existing'
         PROVE  \E i \in DOMAIN edits' : edits'[i].number = m /\ Ascends(i)'
    <2>1. PICK i \in DOMAIN edits : edits[i].number = m /\ Ascends(i)
      BY <1>12 DEF JournalInv
    <2>2. i \in DOMAIN edits' /\ edits'[i].number = m /\ Ascends(i)'
      BY <2>1, <1>1, <1>7, <1>10, <1>11
    <2> QED BY <2>2
  <1>14. \A i \in DOMAIN edits' : edits'[i].number <= i
    BY <1>1, <1>7, <1>10 DEF JournalInv
  <1>15. ASSUME NEW i \in DOMAIN edits', ~edits'[i].closed, Len(edits') - i < MaxUndo
         PROVE  /\ journal'[edits'[i].number] = [path |-> edits'[i].path, prior |-> Decoded(edits'[i].before)]
                /\ Ascends(i)'
    <2>1. i \in 1..N /\ i # k /\ edits'[i] = edits[i] /\ N - i < MaxUndo
      BY <1>7, <1>8, <1>9, <1>15
    <2>2. /\ journal[edits[i].number] = [path |-> edits[i].path, prior |-> Decoded(edits[i].before)]
          /\ Ascends(i)
      BY <2>1, <1>1, <1>15 DEF JournalInv
    <2>3. edits[i].number # n
      <3> SUFFICES ASSUME edits[i].number = n PROVE FALSE
        OBVIOUS
      <3>1. k \in 1..N /\ edits[k].number = n /\ i < k
        BY <2>1, <1>1, <1>2
      <3>2. edits[i].number < edits[k].number
        BY <2>2, <3>1, <1>1 DEF Ascends
      <3> QED BY <3>1, <3>2, <1>1, <2>1
    <2>4. journal'[edits[i].number] = journal[edits[i].number]
      <3>1. edits[i].number \in Numbers
        BY <2>1, <1>1 DEF EditRecord
      <3> QED BY <2>3, <3>1 DEF WorkspaceTypeOK
    <2> QED BY <2>1, <2>2, <2>4, <1>11
  <1>16. journal' \in [Numbers -> Entry \cup {Torn, None}]
    BY DEF WorkspaceTypeOK
  <1>17. Len(edits') <= MaxEdits
    BY <1>7 DEF WorkspaceTypeOK
  <1>18. JournalInv'
    BY <1>13, <1>14, <1>15 DEF JournalInv
  <1> QED BY <1>7, <1>16, <1>17, <1>18

\* The string of an operation says what it is, but for the edit of an undo and
\* the kind of a command that spells a write.
LEMMA KnownBySignature ==
  ASSUME NEW a \in Operation, NEW b \in Operation, Signature(a) = Signature(b)
  PROVE  \/ a = b
         \/ {a.kind, b.kind} = {"fs_undo"} /\ a.on = b.on
         \/ {a.kind, b.kind} = {"shell", "fs_write"}
  <1>1. a.kind \in {"fs_write", "fs_undo", "shell"} /\ b.kind \in {"fs_write", "fs_undo", "shell"}
    BY DEF Operation, Write, Undo, Command
  <1>2. \A o \in Operation : o.kind # "shell" => Signature(o) = <<o.kind, o.on>>
    BY DEF Signature
  <1>3. CASE a.kind # "shell" /\ b.kind # "shell"
    <2>1. a.kind = b.kind /\ a.on = b.on
      BY <1>2, <1>3
    <2> QED BY <2>1, <1>1, <1>3 DEF Operation, Write, Undo, Command
  <1>4. CASE a.kind = "shell" /\ b.kind = "shell"
    <2>1. a.on \in Commands /\ b.on \in Commands /\ a = Command(a.on) /\ b = Command(b.on)
      BY <1>4 DEF Operation, Write, Undo, Command
    <2>2. a.on = b.on
      BY <2>1, <1>4, WorkspaceAssumption DEF Signature, WorkspaceAssumption
    <2> QED BY <2>1, <2>2
  <1>5. ASSUME NEW x \in Operation, NEW y \in Operation, x.kind = "shell", y.kind # "shell",
               Signature(x) = Signature(y)
        PROVE  y.kind = "fs_write"
    <2>1. Signature(y) = <<y.kind, y.on>>
      BY <1>2, <1>5
    <2>2. Signature(x)[1] \in {"fs_write", "shell"}
      BY <1>5 DEF Signature
    <2> QED BY <2>1, <2>2, <1>5
  <1> QED BY <1>1, <1>3, <1>4, <1>5

TokensTyped == tokens \in [Runs -> Seq(Token)]

LEMMA PoppedToken ==
  ASSUME TokensTyped, TokenInv, NEW r \in Runs, NEW k
  PROVE  /\ Popped(r, k) \in Seq(Token)
         /\ DOMAIN Popped(r, k) = DOMAIN tokens[r]
         /\ \A i \in DOMAIN tokens[r] :
              /\ Popped(r, k)[i].live => ~Popped(r, k)[i].used
              /\ i = k => ~Popped(r, k)[i].live
  <1>1. tokens[r] \in Seq(Token) /\ DOMAIN tokens[r] = 1..Len(tokens[r])
    BY DEF TokensTyped
  <1>2. CASE k \notin DOMAIN tokens[r]
    BY <1>1, <1>2 DEF Popped, TokenInv
  <1>3. CASE k \in DOMAIN tokens[r]
    <2> DEFINE t == tokens[r][k]
               u == [t EXCEPT !.live = FALSE]
    <2>1. t \in Token
      BY <1>1, <1>3
    <2>2. u \in Token /\ ~u.live
      BY <2>1 DEF Token
    <2>3. Popped(r, k) = [tokens[r] EXCEPT ![k] = u]
      BY <1>3 DEF Popped
    <2> HIDE DEF u
    <2>4. Popped(r, k) \in Seq(Token) /\ DOMAIN Popped(r, k) = DOMAIN tokens[r]
      BY <1>1, <1>3, <2>2, <2>3
    <2>5. \A i \in DOMAIN tokens[r] : Popped(r, k)[i] = IF i = k THEN u ELSE tokens[r][i]
      BY <1>1, <2>3
    <2> QED BY <2>2, <2>4, <2>5 DEF TokenInv
  <1> QED BY <1>2, <1>3

\* A refusal adds a fresh token.
LEMMA DeniedKeeps ==
  ASSUME TokensTyped, TokenInv, NEW r \in Runs, NEW k, NEW op \in Operation, Denied(r, k, op)
  PROVE  TokensTyped' /\ TokenInv'
  <1> DEFINE s == Popped(r, k)
             new == [op |-> op, live |-> TRUE, used |-> FALSE]
             t == Append(s, new)
  <1>1. /\ s \in Seq(Token) /\ DOMAIN s = DOMAIN tokens[r]
        /\ \A i \in DOMAIN s : s[i].live => ~s[i].used
    BY PoppedToken
  <1>2. new \in Token /\ ~new.used
    BY DEF Token
  <1>3. tokens' = [tokens EXCEPT ![r] = t]
    BY DEF Denied
  <1> HIDE DEF s, new
  <1>4. t \in Seq(Token) /\ DOMAIN t = 1..Len(s) + 1 /\ t[Len(s) + 1] = new
        /\ Len(s) \in Nat /\ \A i \in 1..Len(s) : t[i] = s[i] /\ i \in DOMAIN s
    BY <1>1, <1>2
  <1> HIDE DEF t
  <1>5. \A i \in DOMAIN t : t[i].live => ~t[i].used
    <2> SUFFICES ASSUME NEW i \in DOMAIN t PROVE t[i].live => ~t[i].used
      OBVIOUS
    <2>1. CASE i = Len(s) + 1
      BY <2>1, <1>2, <1>4
    <2>2. CASE i # Len(s) + 1
      <3>1. i \in 1..Len(s)
        BY <2>2, <1>4
      <3>2. t[i] = s[i] /\ i \in DOMAIN s
        BY <3>1, <1>4
      <3> QED BY <3>2, <1>1
    <2> QED BY <2>1, <2>2
  <1>6. TokensTyped'
    BY <1>3, <1>4 DEF TokensTyped
  <1>7. TokenInv'
    <2> SUFFICES ASSUME NEW q \in Runs, NEW i \in DOMAIN tokens'[q]
                 PROVE  tokens'[q][i].live => ~tokens'[q][i].used
      BY DEF TokenInv
    <2>1. tokens'[q] = IF q = r THEN t ELSE tokens[q]
      BY <1>3 DEF TokensTyped
    <2> QED BY <2>1, <1>5 DEF TokenInv
  <1> QED BY <1>6, <1>7

\* What passes the gate was shown, and its token does not come back.
LEMMA PassedKeeps ==
  ASSUME TokensTyped, TokenInv, NEW r \in Runs, NEW k, NEW op \in Operation, Passed(r, k, op)
  PROVE  TokensTyped' /\ TokenInv' /\ unshown' \in BOOLEAN /\ (~unshown => ~unshown')
  <1>1. Confirmed(r, k, op) => Shown(r, k, op)
    <2> SUFFICES ASSUME Confirmed(r, k, op) PROVE Shown(r, k, op)
      OBVIOUS
    <2> DEFINE t == tokens[r][k]
    <2>1. /\ k \in DOMAIN tokens[r] /\ t.live /\ Signature(t.op) = Signature(op)
      BY DEF Confirmed, Matches
    <2>2. t \in Token
      <3>1. tokens[r] \in Seq(Token)
        BY DEF TokensTyped
      <3> QED BY <3>1, <2>1
    <2>3. t.op \in Operation
      BY <2>2 DEF Token
    <2>4. ~t.used
      BY <2>1 DEF TokenInv
    <2>5. \/ t.op = op
          \/ {t.op.kind, op.kind} = {"fs_undo"} /\ t.op.on = op.on
          \/ {t.op.kind, op.kind} = {"shell", "fs_write"} /\ Signature(t.op) = Signature(op)
      <3> HIDE DEF t
      <3> QED BY <2>1, <2>3, KnownBySignature
    <2> QED BY <2>1, <2>4, <2>5 DEF Shown
  <1>2. unshown' = (unshown \/ (r \notin AutoConfirm /\ ~Shown(r, k, op)))
    BY DEF Passed
  <1>3. r \in AutoConfirm \/ Confirmed(r, k, op)
    BY DEF Passed
  <1>4. unshown' \in BOOLEAN /\ (~unshown => ~unshown')
    BY <1>1, <1>2, <1>3, Zenon
  <1>5. CASE tokens' = tokens
    BY <1>4, <1>5 DEF TokensTyped, TokenInv
  <1>6. CASE k \in DOMAIN tokens[r] /\ tokens' = [tokens EXCEPT ![r] = [Popped(r, k) EXCEPT ![k].used = TRUE]]
    <2> DEFINE s == Popped(r, k)
               u == [s[k] EXCEPT !.used = TRUE]
               t == [s EXCEPT ![k] = u]
    <2>1. /\ s \in Seq(Token) /\ DOMAIN s = DOMAIN tokens[r] /\ k \in DOMAIN s
          /\ \A i \in DOMAIN s : (s[i].live => ~s[i].used) /\ (i = k => ~s[i].live)
      BY <1>6, PoppedToken
    <2>2. tokens' = [tokens EXCEPT ![r] = t]
      BY <1>6
    <2> HIDE DEF s
    <2>3. s[k] \in Token /\ ~s[k].live
      BY <2>1
    <2>4. u \in Token /\ ~u.live
      BY <2>3 DEF Token
    <2> HIDE DEF u
    <2>5. t \in Seq(Token) /\ DOMAIN t = DOMAIN s
      BY <2>1, <2>4
    <2>6. \A i \in DOMAIN t : t[i] = IF i = k THEN u ELSE s[i]
      BY <2>1
    <2> HIDE DEF t
    <2>7. \A i \in DOMAIN t : t[i].live => ~t[i].used
      <3> SUFFICES ASSUME NEW i \in DOMAIN t PROVE t[i].live => ~t[i].used
        OBVIOUS
      <3>1. CASE i = k
        BY <3>1, <2>4, <2>6
      <3>2. CASE i # k
        <4>1. t[i] = s[i] /\ i \in DOMAIN s
          BY <3>2, <2>5, <2>6
        <4> QED BY <4>1, <2>1
      <3> QED BY <3>1, <3>2
    <2>8. TokensTyped'
      BY <2>2, <2>5 DEF TokensTyped
    <2>9. TokenInv'
      <3> SUFFICES ASSUME NEW q \in Runs, NEW i \in DOMAIN tokens'[q]
                   PROVE  tokens'[q][i].live => ~tokens'[q][i].used
        BY DEF TokenInv
      <3>1. tokens'[q] = IF q = r THEN t ELSE tokens[q]
        BY <2>2 DEF TokensTyped
      <3> QED BY <3>1, <2>7 DEF TokenInv
    <2> QED BY <2>8, <2>9, <1>4
  <1>7. \/ tokens' = tokens
        \/ k \in DOMAIN tokens[r] /\ tokens' = [tokens EXCEPT ![r] = [Popped(r, k) EXCEPT ![k].used = TRUE]]
    BY DEF Passed
  <1> QED BY <1>5, <1>6, <1>7

LEMMA OperationTypes ==
  /\ \A p \in Paths, c \in Text : Write(p, c) \in Operation
  /\ \A n \in Numbers, i \in 0..MaxEdits : Undo(n, i) \in Operation
  /\ \A x \in Commands : Command(x) \in Operation
  BY DEF Operation

\* Leaving the journal alone leaves what is said of it.
LEMMA JournalUntouched == JournalInv /\ UNCHANGED <<journal, edits>> => JournalInv'
  BY DEF JournalInv, Ascends, Existing

LEMMA WorkspaceStays ==
  WorkspaceInv /\ [Next]_vars => WorkspaceInv' /\ (ApprovedAsShown => ApprovedAsShown')
  <1> SUFFICES ASSUME WorkspaceInv, [Next]_vars
               PROVE  WorkspaceInv' /\ (~unshown => ~unshown')
    BY DEF ApprovedAsShown
  <1> USE WorkspaceAssumption DEF WorkspaceAssumption
  <1>1. WorkspaceTypeOK /\ JournalInv /\ TokenInv /\ TokensTyped /\ unshown \in BOOLEAN
    BY DEF WorkspaceInv, WorkspaceTypeOK, TokensTyped, Token
  <1> DEFINE JournalGood == /\ journal' \in [Numbers -> Entry \cup {Torn, None}]
                            /\ edits' \in Seq(EditRecord) /\ Len(edits') <= MaxEdits
                            /\ JournalInv'
             FilesGood == file' \in [Paths -> Content \cup {None}]
             TokensGood == TokensTyped' /\ TokenInv' /\ unshown' \in BOOLEAN /\ (~unshown => ~unshown')
  <1>2. JournalGood /\ FilesGood /\ TokensGood => WorkspaceInv' /\ (~unshown => ~unshown')
    BY DEF WorkspaceInv, WorkspaceTypeOK, TokensTyped, EditRecord, Token
  <1>3. UNCHANGED <<journal, edits>> => JournalGood
    BY <1>1, JournalUntouched DEF WorkspaceTypeOK, EditRecord
  <1>4. file' = file => FilesGood
    BY <1>1 DEF WorkspaceTypeOK
  <1>5. UNCHANGED <<tokens, unshown>> => TokensGood
    <2> SUFFICES ASSUME UNCHANGED <<tokens, unshown>> PROVE TokensGood
      OBVIOUS
    <2>1. TokensTyped' /\ TokenInv'
      BY <1>1 DEF TokensTyped, TokenInv
    <2> QED BY <2>1, <1>1, Zenon
  <1>6. \A p \in Paths, left \in Content \cup {None} : file' = [file EXCEPT ![p] = left] => FilesGood
    BY <1>1 DEF WorkspaceTypeOK
  <1>7. \A p \in Paths : file[p] \in Content \cup {None}
    BY <1>1 DEF WorkspaceTypeOK
  <1> HIDE DEF JournalGood, FilesGood, TokensGood
  <1>8. CASE UNCHANGED workspaceVars
    BY <1>8, <1>2, <1>3, <1>4, <1>5 DEF workspaceVars
  <1>9. ASSUME NEW r \in Runs, NEW k \in Nat, NEW p \in Paths, NEW c \in Text, FsWrite(r, p, c, k)
        PROVE  WorkspaceInv' /\ (~unshown => ~unshown')
    <2>1. TokensGood
      BY <1>1, <1>9, PassedKeeps, OperationTypes DEF FsWrite, TokensGood
    <2>2. JournalGood
      BY <1>1, <1>9, JournaledKeeps DEF FsWrite, JournalGood
    <2>3. file' = file \/ \E left \in Content \cup {None} : file' = [file EXCEPT ![p] = left]
      BY <1>7, <1>9 DEF FsWrite, Content
    <2> QED BY <2>1, <2>2, <2>3, <1>2, <1>4, <1>6
  <1>10. ASSUME NEW r \in Runs, NEW k \in Nat, NEW index \in {0} \cup Numbers, FsUndo(r, index, k)
         PROVE  WorkspaceInv' /\ (~unshown => ~unshown')
    <2> DEFINE n == Wanted(index)
               e == journal[n]
    <2>1. n \in Numbers /\ n \in Readable /\ Passed(r, k, Undo(n, EditOf(n)))
      BY <1>10 DEF FsUndo, Readable, Existing
    <2>2. Undo(n, EditOf(n)) \in Operation
      <3> HIDE DEF n
      <3>1. EditOf(n) \in 0..MaxEdits
        BY <1>1, EditFound
      <3> QED BY <2>1, <3>1, OperationTypes
    <2>3. TokensGood
      <3> HIDE DEF n
      <3> QED BY <1>1, <2>1, <2>2, PassedKeeps DEF TokensGood
    <2>4. e \in Entry
      <3> HIDE DEF n
      <3> QED BY <1>1, <2>1 DEF WorkspaceTypeOK, Readable, Existing
    <2>5. e.path \in Paths /\ e.prior \in Content \cup {None}
      <3> HIDE DEF e
      <3> QED BY <2>4 DEF Entry
    <2>6. CASE /\ file' = [file EXCEPT ![e.path] = e.prior]
               /\ journal' = [journal EXCEPT ![n] = None]
               /\ Closed(n)
      <3>1. FilesGood
        <4> HIDE DEF e
        <4> QED BY <2>5, <2>6, <1>6
      <3>2. JournalGood
        <4> HIDE DEF n
        <4>1. n \in Existing
          BY <2>1 DEF Readable
        <4> QED BY <1>1, <4>1, <2>6, EntryGoes DEF JournalGood
      <3> QED BY <2>3, <3>1, <3>2, <1>2
    <2>7. CASE /\ \E left \in {file[e.path], Torn} : file' = [file EXCEPT ![e.path] = left]
               /\ UNCHANGED <<journal, edits>>
      <3>1. FilesGood
        <4> HIDE DEF e
        <4>1. \E left \in Content \cup {None} : file' = [file EXCEPT ![e.path] = left]
          BY <2>5, <2>7, <1>7 DEF Content
        <4> QED BY <4>1, <2>5, <1>6
      <3> QED BY <2>3, <2>7, <3>1, <1>2, <1>3
    <2> QED BY <2>6, <2>7, <1>10 DEF FsUndo
  <1>11. ASSUME NEW r \in Runs, NEW k \in Nat, NEW x \in Commands, Shell(r, x, k)
         PROVE  WorkspaceInv' /\ (~unshown => ~unshown')
    <2>1. TokensGood
      <3>1. CASE x \in Destructive
        BY <3>1, <1>1, <1>11, PassedKeeps, OperationTypes DEF Shell, TokensGood
      <3>2. CASE x \notin Destructive
        BY <3>2, <1>5, <1>11 DEF Shell
      <3> QED BY <3>1, <3>2
    <2>2. FilesGood
      <3>1. \/ file' = file
            \/ \E p \in Paths, left \in Content \cup {None} : file' = [file EXCEPT ![p] = left]
        BY <1>11 DEF Shell, ShellEffect, Content
      <3> QED BY <3>1, <1>4, <1>6
    <2>3. JournalGood
      <3>1. CASE UNCHANGED <<journal, edits>>
        BY <3>1, <1>3
      <3>2. ASSUME NEW n \in Existing, NEW left \in Entry \cup {Torn, None},
                   journal' = [journal EXCEPT ![n] = left], Closed(n)
            PROVE  JournalGood
        BY <3>2, <1>1, EntryGoes DEF JournalGood
      <3> QED BY <3>1, <3>2, <1>11 DEF Shell, ShellEffect
    <2> QED BY <2>1, <2>2, <2>3, <1>2
  <1>12. ASSUME NEW r \in Runs, NEW k \in Nat, NEW toolset, Refused(r, k, toolset)
         PROVE  WorkspaceInv' /\ (~unshown => ~unshown')
    <2>1. \E op \in Operation : Denied(r, k, op)
      <3>1. \A n \in Readable : Undo(n, EditOf(n)) \in Operation
        <4> SUFFICES ASSUME NEW n \in Readable PROVE Undo(n, EditOf(n)) \in Operation
          OBVIOUS
        <4>1. n \in Numbers /\ EditOf(n) \in 0..MaxEdits
          BY <1>1, EditFound DEF Readable, Existing
        <4> QED BY <4>1, OperationTypes
      <3>2. \A x \in Destructive : Command(x) \in Operation
        BY OperationTypes
      <3> QED BY <1>12, <3>1, <3>2, OperationTypes DEF Refused
    <2>2. PICK op \in Operation : Denied(r, k, op)
      BY <2>1
    <2>3. TokensTyped' /\ TokenInv'
      BY <1>1, <2>2, DeniedKeeps
    <2>4. unshown' = unshown /\ UNCHANGED <<file, journal, edits>>
      BY <2>2 DEF Denied
    <2>5. TokensGood
      BY <2>3, <2>4, <1>1, Zenon DEF TokensGood
    <2> QED BY <2>4, <2>5, <1>2, <1>3, <1>4
  <1>13. ASSUME NEW p \in Paths, DieWriting(p), UNCHANGED <<tokens, unshown>>
         PROVE  WorkspaceInv' /\ (~unshown => ~unshown')
    <2>1. PICK torn \in BOOLEAN :
            /\ journal' = Journaled(p, torn) /\ Edited(p, torn)
            /\ file' = IF torn THEN file ELSE [file EXCEPT ![p] = Torn]
      BY <1>13 DEF DieWriting
    <2>2. JournalGood
      BY <2>1, <1>1, <1>13, JournaledKeeps DEF DieWriting, JournalGood
    <2>3. file' = file \/ \E left \in Content \cup {None} : file' = [file EXCEPT ![p] = left]
      BY <2>1 DEF Content
    <2> QED BY <2>2, <2>3, <1>2, <1>4, <1>5, <1>6, <1>13
  <1>14. ASSUME NEW n \in Numbers, DieUndoing(n), UNCHANGED <<tokens, unshown>>
         PROVE  WorkspaceInv' /\ (~unshown => ~unshown')
    <2> DEFINE e == journal[n]
    <2>1. e \in Entry
      BY <1>1, <1>14 DEF DieUndoing, Readable, Existing, WorkspaceTypeOK
    <2>2. \E left \in {e.prior, Torn} : file' = [file EXCEPT ![e.path] = left]
      BY <1>14 DEF DieUndoing
    <2>3. FilesGood
      <3> HIDE DEF e
      <3>1. e.path \in Paths /\ e.prior \in Content \cup {None}
        BY <2>1 DEF Entry
      <3>2. \E left \in Content \cup {None} : file' = [file EXCEPT ![e.path] = left]
        BY <2>2, <3>1 DEF Content
      <3> QED BY <3>1, <3>2, <1>6
    <2>4. UNCHANGED <<journal, edits>>
      BY <1>14 DEF DieUndoing
    <2> QED BY <2>3, <2>4, <1>2, <1>3, <1>5, <1>14
  <1>15. WorkspaceStep
    BY WorkspaceSteps
  <1> QED BY <1>8, <1>9, <1>10, <1>11, <1>12, <1>13, <1>14, <1>15 DEF WorkspaceStep

LEMMA WorkspaceBegins == Init => WorkspaceInv /\ ApprovedAsShown
  <1> SUFFICES ASSUME Init PROVE WorkspaceInv /\ ApprovedAsShown
    OBVIOUS
  <1> USE WorkspaceAssumption DEF WorkspaceAssumption, Init, WorkspaceInit
  <1>1. Existing = {}
    BY DEF Existing
  <1>2. JournalInv
    BY <1>1 DEF JournalInv
  <1>3. TokenInv
    BY DEF TokenInv
  <1>4. file \in [Paths -> Content \cup {None}] /\ journal \in [Numbers -> Entry \cup {Torn, None}]
    BY DEF Content
  <1>5. tokens \in [Runs -> Seq(Token)] /\ edits \in Seq(EditRecord) /\ Len(edits) <= MaxEdits
    <2>1. <<>> \in Seq(Token) /\ <<>> \in Seq(EditRecord) /\ Len(<<>>) = 0
      OBVIOUS
    <2> QED BY <2>1
  <1>6. WorkspaceTypeOK
    BY <1>4, <1>5 DEF WorkspaceTypeOK, Token, EditRecord
  <1> QED BY <1>2, <1>3, <1>6 DEF WorkspaceInv, ApprovedAsShown

LEMMA RecoverableFollows == WorkspaceTypeOK /\ JournalInv => EditsRecoverable
  <1> SUFFICES ASSUME WorkspaceTypeOK, JournalInv PROVE EditsRecoverable
    OBVIOUS
  <1>1. ASSUME NEW i \in DOMAIN edits, ~edits[i].closed, Len(edits) - i < MaxUndo
        PROVE  /\ journal[edits[i].number] \in Entry
               /\ journal[edits[i].number].path = edits[i].path
               /\ journal[edits[i].number].prior = IF edits[i].before = Raw THEN Lossy ELSE edits[i].before
               /\ Ascends(i)
    <2>1. journal[edits[i].number] = [path |-> edits[i].path, prior |-> Decoded(edits[i].before)] /\ Ascends(i)
      BY <1>1 DEF JournalInv
    <2>2. edits[i].path \in Paths /\ edits[i].before \in Content \cup {None}
      <3>1. edits[i] \in EditRecord
        BY EditTypes
      <3> QED BY <3>1 DEF EditRecord
    <2>3. journal[edits[i].number] \in Entry
      BY <2>1, <2>2, DecodedIsText DEF Entry
    <2> QED BY <2>1, <2>3 DEF Decoded
  <1> QED BY <1>1 DEF EditsRecoverable, Ascends

\* Without auto_confirm nothing is applied whose string no denial had shown, each
\* denial lets at most one operation through, for any runs, tokens and edits, and
\* whatever commands spell.
THEOREM ShownFirst == Spec => []ApprovedAsShown
  <1>1. Init => WorkspaceInv /\ ApprovedAsShown
    BY WorkspaceBegins
  <1>2. WorkspaceInv /\ ApprovedAsShown /\ [Next]_vars => WorkspaceInv' /\ ApprovedAsShown'
    BY WorkspaceStays
  <1> QED BY <1>1, <1>2, PTL DEF Spec

\* The last MaxUndo edits whose entries no command touched can be taken back, newest
\* first, for any number of files, runs and edits, through undos, failed writes,
\* crashes and commands that remove or rewrite the entries of other edits.
THEOREM Recoverable == Spec => []EditsRecoverable
  <1>1. Init => WorkspaceInv
    BY WorkspaceBegins
  <1>2. WorkspaceInv /\ [Next]_vars => WorkspaceInv'
    BY WorkspaceStays
  <1>3. WorkspaceInv => EditsRecoverable
    BY RecoverableFollows DEF WorkspaceInv
  <1> QED BY <1>1, <1>2, <1>3, PTL DEF Spec

=============================================================================
